-------------------------- MODULE CallParts_proofs --------------------------
(***************************************************************************)
(* The two parts CallCenter is composed of, each of which is studied with  *)
(* clients of its own too (PortPool, Dialog): what getPort and freePort do *)
(* to the flags, for every range of ports, and what the tables of the CL_* *)
(* classes have in common.                                                 *)
(***************************************************************************)
EXTENDS PortManager, CallLeg, TLAPS

\* Rounding by the mask 65534 gives an even number that is not negative.
LEMMA WordEven == ASSUME NEW x \in Int
                  PROVE  Word(x) \in Nat /\ Word(x) % 2 = 0
  BY DEF Word

LEMMA RangeEven == first \in Nat /\ count \in Nat /\ count % 2 = 0
<1>1. /\ RTPFirstPort \in Int
      /\ (IF RTPPorts < 2 THEN 2 ELSE RTPPorts) \in Int
  BY PortRange
<1> QED BY <1>1, WordEven DEF first, count

\* Both ports of a pair are in the range.
LEMMA PairInRange ==
  ASSUME NEW p \in Pairs
  PROVE  p \in Nat /\ p % 2 = 0 /\ p \in Index /\ p + 1 \in Index /\ p + 2 \in 0 .. count
  BY RangeEven DEF Pairs, Index

\* The flags of different pairs are different flags.
LEMMA PairsApart ==
  ASSUME NEW p \in Pairs, NEW q \in Pairs, p # q
  PROVE  p # q + 1 /\ p + 1 # q + 1
  BY PairInRange

\* Both methods keep the types of the flags and of the pointer.
LEMMA GrantTyped ==
  ASSUME PMTypeOK, NEW port, port - first \in Pairs, GetPort(port)
  PROVE  PMTypeOK'
<1>1. portbusy' \in [Index -> BOOLEAN]
  BY DEF GetPort, PMTypeOK
<1>2. /\ port - first \in Nat
      /\ (port - first) % 2 = 0
      /\ port - first + 2 \in 0 .. count
  BY PairInRange
<1>3. next' \in 0 .. count /\ next' % 2 = 0
  BY <1>2, RangeEven DEF GetPort
<1> QED BY <1>1, <1>3 DEF PMTypeOK

LEMMA ReleaseTyped == ASSUME PMTypeOK, NEW port, FreePort(port) PROVE PMTypeOK'
  BY DEF FreePort, PMTypeOK

\* getPort changes the two flags of the pair it returns and no other.
LEMMA GrantFlags ==
  ASSUME PMTypeOK, NEW port, port - first \in Pairs, GetPort(port)
  PROVE  /\ portbusy'[port - first] = TRUE
         /\ portbusy'[port - first + 1] = TRUE
         /\ \A q \in Index : q # port - first /\ q # port - first + 1
                                => portbusy'[q] = portbusy[q]
<1>1. /\ port - first \in Index
      /\ port - first + 1 \in Index
      /\ port - first \in Int
  BY PairInRange
<1> QED BY <1>1 DEF PMTypeOK, GetPort

\* freePort clears the two flags of its pair, unless it is the first pair.
LEMMA ReleaseFlags ==
  ASSUME PMTypeOK, NEW port \in Int, port - first \in Pairs, FreePort(port)
  PROVE  IF port = first
           THEN portbusy' = portbusy
           ELSE /\ portbusy'[port - first] = FALSE
                /\ portbusy'[port - first + 1] = FALSE
                /\ \A q \in Index : q # port - first /\ q # port - first + 1
                                       => portbusy'[q] = portbusy[q]
<1>1. /\ port - first \in Index
      /\ port - first + 1 \in Index
      /\ port - first \in Nat
  BY PairInRange
<1>2. CASE port = first
  BY <1>2, RangeEven DEF FreePort
<1>3. CASE port # first
  <2>1. port > first /\ port < count + first
    BY <1>1, <1>3, RangeEven DEF Index
  <2>2. portbusy' = [portbusy EXCEPT ![port - first] = FALSE, ![port - first + 1] = FALSE]
    BY <2>1 DEF FreePort
  <2> QED BY <1>1, <1>3, <2>2 DEF PMTypeOK
<1> QED BY <1>2, <1>3
-----------------------------------------------------------------------------
LEMMA LegStateNames ==
  LegStates = {"initial", "calling", "call_proceed", "cancel", "proceed", "success",
               "established", "modify", "modify_proceed", "recall_proceed", "bye",
               "failed", "terminated"}
  BY DEF LegStates, Reactions

LEMMA EmptySend == \A S : <<>> \in Seq(S)
  OBVIOUS

\* One and two messages of a set.
LEMMA OneSend == ASSUME NEW S, NEW a \in S PROVE <<a>> \in Seq(S)
  OBVIOUS

LEMMA TwoSends == ASSUME NEW S, NEW a \in S, NEW b \in S PROVE <<a, b>> \in Seq(S)
  OBVIOUS

\* The lines of the table of reactions.
LEMMA Table ==
  /\ Reactions["initial"] = CL_initial           /\ Reactions["calling"] = CL_calling
  /\ Reactions["call_proceed"] = CL_call_proceed /\ Reactions["cancel"] = CL_cancel
  /\ Reactions["proceed"] = CL_proceed           /\ Reactions["success"] = CL_success
  /\ Reactions["established"] = CL_established   /\ Reactions["modify"] = CL_modify
  /\ Reactions["modify_proceed"] = CL_modify_proceed
  /\ Reactions["recall_proceed"] = CL_recall_proceed
  /\ Reactions["bye"] = CL_bye                   /\ Reactions["failed"] = CL_failed
  /\ Reactions["terminated"] = CL_terminated
  BY DEF Reactions

\* The reactions to the inputs of I that lead to T and send messages of S.
Kind(I, T, S) == [in : I, to : T, send : Seq(S), note : Notes]

\* Every class leads to states of a leg, sends messages and calls a method of the listener.
LEMMA ReactionTyped ==
  ASSUME NEW s \in LegStates, NEW r \in Reactions[s]
  PROVE  r.to \in LegStates /\ r.send \in Seq(Messages) /\ r.note \in Notes
<1> DEFINE Any == Kind(AppCalls \cup Messages, LegStates, Messages)
<1>1. CL_initial \subseteq Any
  BY SMTT(30), LegStateNames DEF CL_initial, On, Kind, AppCalls, Messages, Requests, Responses, Notes
<1>2. CL_calling \subseteq Any
  BY SMTT(30), LegStateNames DEF CL_calling, On, Kind, AppCalls, Messages, Requests, Responses, Notes
<1>3. CL_call_proceed \subseteq Any
  BY SMTT(30), LegStateNames DEF CL_call_proceed, On, Kind, AppCalls, Messages, Requests, Responses, Notes
<1>4. CL_cancel \subseteq Any
  BY SMTT(30), LegStateNames DEF CL_cancel, On, Kind, AppCalls, Messages, Requests, Responses, Notes
<1>5. CL_proceed \subseteq Any
  BY SMTT(30), LegStateNames DEF CL_proceed, On, Kind, AppCalls, Messages, Requests, Responses, Notes
<1>6. CL_success \subseteq Any
  BY SMTT(30), LegStateNames DEF CL_success, On, Kind, AppCalls, Messages, Requests, Responses, Notes
<1>7. CL_established \subseteq Any
  BY SMTT(30), LegStateNames DEF CL_established, On, Kind, AppCalls, Messages, Requests, Responses, Notes
<1>8. CL_modify \subseteq Any
  BY SMTT(30), LegStateNames DEF CL_modify, On, Kind, AppCalls, Messages, Requests, Responses, Notes
<1>9. CL_modify_proceed \subseteq Any
  BY SMTT(30), LegStateNames DEF CL_modify_proceed, On, Kind, AppCalls, Messages, Requests, Responses, Notes
<1>10. CL_recall_proceed \subseteq Any
  BY SMTT(30), LegStateNames DEF CL_recall_proceed, On, Kind, AppCalls, Messages, Requests, Responses, Notes
<1>11. CL_bye \subseteq Any
  BY SMTT(30), LegStateNames DEF CL_bye, On, Kind, AppCalls, Messages, Requests, Responses, Notes
<1>12. CL_failed \subseteq Any
  BY SMTT(30), LegStateNames DEF CL_failed, On, Kind, AppCalls, Messages, Requests, Responses, Notes
<1>13. CL_terminated \subseteq Any
  BY SMTT(30), LegStateNames DEF CL_terminated, On, Kind, AppCalls, Messages, Requests, Responses, Notes
<1>14. r \in Any
  BY <1>1, <1>2, <1>3, <1>4, <1>5, <1>6, <1>7, <1>8, <1>9, <1>10, <1>11, <1>12, <1>13, LegStateNames, Table
<1> QED BY <1>14 DEF Kind

LEMMA ReactTyped ==
  ASSUME NEW s \in LegStates, NEW in, NEW r \in React(s, in)
  PROVE  r.to \in LegStates /\ r.send \in Seq(Messages)
<1>1. CASE r \in Reactions[s]
  BY <1>1, ReactionTyped
<1>2. CASE r = On(in, s, <<>>, "none")
  BY <1>2, EmptySend DEF On
<1> QED BY <1>1, <1>2 DEF React

\* A leg that was asked for a call and has not been answered by the application.
Asked == {"proceed", "failed", "terminated"}

Plain(I, T, N) == [in : I, to : T, send : Seq(Messages), note : N]

AsksFirst == Plain(Messages, Asked, Notes)
Later == Plain(AppCalls \cup Messages, Asked, Notes \ {"notify"})
Other == Plain({"invite", "accept"}, LegStates, Notes)

LEMMA AskedTable ==
  /\ CL_initial \subseteq AsksFirst \cup Other /\ CL_proceed \subseteq Later \cup Other
  /\ CL_failed \subseteq Later /\ CL_terminated \subseteq Later
<1>1. CL_initial \subseteq AsksFirst \cup Other
  BY SMTT(30), LegStateNames DEF CL_initial, On, AsksFirst, Other, Plain, Asked, Messages, Requests,
     Responses, Notes
<1>2. CL_proceed \subseteq Later \cup Other
  BY SMTT(30), LegStateNames DEF CL_proceed, On, Later, Other, Plain, Asked, AppCalls, Messages,
     Requests, Responses, Notes
<1>3. CL_failed \subseteq Later
  BY SMTT(30) DEF CL_failed, On, Later, Plain, Asked, AppCalls, Messages, Requests, Responses, Notes
<1>4. CL_terminated \subseteq Later
  BY SMTT(30) DEF CL_terminated, On, Later, Plain, Asked, AppCalls, Messages, Requests, Responses,
     Notes
<1> QED BY <1>1, <1>2, <1>3, <1>4

\* A message to a leg that no call knows of asks for a call only if it is the first one.
LEMMA FirstReactions ==
  ASSUME NEW s \in Asked \cup {"initial"}, NEW r \in Reactions[s], r.in \in Messages
  PROVE  r.to \in Asked /\ (r.note = "notify" => s = "initial")
<1>1. r.in \notin {"invite", "accept"}
  BY DEF Messages, Requests, Responses
<1>2. /\ s = "initial" => r \in AsksFirst \cup Other
      /\ s # "initial" => r \in Later \cup Other
  BY Table, AskedTable DEF Asked
<1>3. r \notin Other
  BY <1>1 DEF Other, Plain
<1>4. s = "initial" => r.to \in Asked
  BY <1>2, <1>3 DEF AsksFirst, Plain
<1>5. s # "initial" => r.to \in Asked /\ r.note # "notify"
  BY <1>2, <1>3 DEF Later, Plain
<1> QED BY <1>4, <1>5
=============================================================================
