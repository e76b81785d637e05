------------------------------ MODULE CallLeg ------------------------------
(***************************************************************************)
(* SipUserAgent/CallLeg.java and the State classes CL_*.java: one SIP call *)
(* leg.  A leg reacts to the four calls of the application (CallProvider)  *)
(* and to the SIP messages of its dialog.  The definition CL_x lists what  *)
(* class CL_x does; whatever it does not list the class answers with       *)
(* "return this.getState()", which changes nothing.                        *)
(*                                                                         *)
(* A reaction names its input, the state returned, the messages sent and   *)
(* the listener method called.  Two reactions to one input are a condition *)
(* that the leg's state does not tell (the request URI, the loop check).   *)
(* A response is named by the method it answers and the class of its code. *)
(***************************************************************************)
EXTENDS Sequences

AppCalls  == {"invite", "hangup", "accept", "decline"}
Requests  == {"INVITE", "ACK", "BYE", "CANCEL"}
Responses == {"INVITE 1xx", "INVITE 2xx", "INVITE 3xx",     \* 3xx: 300 and above
              "BYE 2xx", "CANCEL 2xx"}                      \* 200 and above
Messages  == Requests \cup Responses
Notes     == {"none", "notify", "error", "hangup"}

On(in, to, send, note) == [in |-> in, to |-> to, send |-> send, note |-> note]

CL_initial ==
  {On("invite", "calling", <<"INVITE">>, "none"),
   On("INVITE", "proceed", <<"INVITE 1xx">>, "notify"),
   On("INVITE", "failed", <<"INVITE 3xx">>, "none"),        \* loop detected
   On("INVITE", "terminated", <<"INVITE 3xx">>, "none")}    \* not our URL

\* Mutant: any response below 300 is taken for an answer.
CL_calling_RingingAnswers ==
  {On("invite", "calling", <<"INVITE">>, "none"),
   On("hangup", "terminated", <<>>, "none"),
   On("INVITE 1xx", "established", <<"ACK">>, "notify"),
   On("INVITE 2xx", "established", <<"ACK">>, "notify"),
   On("INVITE 3xx", "terminated", <<"ACK">>, "hangup")}

CL_calling ==
  {On("invite", "calling", <<"INVITE">>, "none"),
   On("hangup", "terminated", <<>>, "none"),
   On("INVITE 1xx", "call_proceed", <<>>, "none"),
   On("INVITE 2xx", "established", <<"ACK">>, "notify"),
   On("INVITE 3xx", "terminated", <<"ACK">>, "hangup")}

CL_call_proceed ==
  {On("hangup", "cancel", <<"CANCEL">>, "none"),
   On("INVITE 2xx", "established", <<"ACK">>, "notify"),
   On("INVITE 3xx", "terminated", <<"ACK">>, "hangup")}

CL_cancel ==
  {On("INVITE 1xx", "cancel", <<"CANCEL">>, "none"),
   On("INVITE 2xx", "cancel", <<"ACK", "BYE">>, "none"),
   On("INVITE 3xx", "terminated", <<"ACK">>, "hangup"),
   On("BYE 2xx", "terminated", <<>>, "hangup"),
   On("CANCEL 2xx", "terminated", <<>>, "none")}

\* Mutant: a repeated INVITE is notified again while the call is ringing.
CL_proceed_Renotify ==
  {On("accept", "success", <<"INVITE 2xx">>, "none"),
   On("decline", "failed", <<"INVITE 3xx">>, "none"),
   On("INVITE", "proceed", <<"INVITE 1xx">>, "notify"),
   On("CANCEL", "failed", <<"CANCEL 2xx", "INVITE 3xx">>, "hangup")}

CL_proceed ==
  {On("accept", "success", <<"INVITE 2xx">>, "none"),
   On("decline", "failed", <<"INVITE 3xx">>, "none"),
   On("CANCEL", "failed", <<"CANCEL 2xx", "INVITE 3xx">>, "hangup")}

CL_success == {On("ACK", "established", <<>>, "none")}

CL_established ==
  {On("invite", "modify", <<"INVITE">>, "none"),
   On("hangup", "bye", <<"BYE">>, "none"),
   On("INVITE 2xx", "established", <<"ACK">>, "none"),
   On("INVITE 3xx", "established", <<"ACK">>, "none"),
   On("INVITE", "recall_proceed", <<"INVITE 1xx">>, "notify"),
   On("INVITE", "failed", <<"INVITE 3xx">>, "none"),        \* loop detected
   On("INVITE", "established", <<"INVITE 3xx">>, "none"),   \* not our URL
   On("BYE", "terminated", <<"BYE 2xx">>, "hangup")}

CL_modify ==
  {On("invite", "modify", <<"INVITE">>, "none"),
   On("hangup", "bye", <<"BYE">>, "none"),
   On("INVITE 1xx", "modify_proceed", <<>>, "none"),
   On("INVITE 2xx", "established", <<"ACK">>, "notify"),
   On("INVITE 3xx", "established", <<"ACK">>, "error")}

CL_modify_proceed ==
  {On("hangup", "cancel", <<"CANCEL">>, "none"),
   On("INVITE 2xx", "established", <<"ACK">>, "notify"),
   On("INVITE 3xx", "established", <<"ACK">>, "error")}

CL_recall_proceed ==
  {On("accept", "success", <<"INVITE 2xx">>, "none"),
   On("decline", "success", <<"INVITE 3xx">>, "none"),
   On("CANCEL", "success", <<"CANCEL 2xx", "INVITE 3xx">>, "error")}

CL_bye ==
  {On("hangup", "bye", <<"BYE">>, "none"),
   On("BYE 2xx", "terminated", <<>>, "hangup")}

\* Mutant: the class returns no state.
CL_failed_NoState == {On("ACK", "null", <<>>, "none")}

CL_failed == {On("ACK", "terminated", <<>>, "none")}

CL_terminated ==
  {On("INVITE 2xx", "terminated", <<"ACK">>, "none"),
   On("INVITE 3xx", "terminated", <<"ACK">>, "none")}

Reactions ==
  [initial |-> CL_initial, calling |-> CL_calling, call_proceed |-> CL_call_proceed,
   cancel |-> CL_cancel, proceed |-> CL_proceed, success |-> CL_success,
   established |-> CL_established, modify |-> CL_modify,
   modify_proceed |-> CL_modify_proceed, recall_proceed |-> CL_recall_proceed,
   bye |-> CL_bye, failed |-> CL_failed, terminated |-> CL_terminated]

LegStates == DOMAIN Reactions

\* currentState = currentState.in(this): what a leg in state s may do on in.
React(s, in) ==
  LET listed == {r \in Reactions[s] : r.in = in}
  IN  IF listed = {} THEN {On(in, s, <<>>, "none")} ELSE listed
=============================================================================
