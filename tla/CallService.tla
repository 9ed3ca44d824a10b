----------------------------- MODULE CallService -----------------------------
(****************************************************************************)
(* What the proxy promises of a call, seen from outside: the caller's phone *)
(* has INVITE transactions, the callee's phone is offered them and answers. *)
(* SipCall implements it (CallsAreServed there): nothing here is about      *)
(* threads, sessions or their lists.                                        *)
(****************************************************************************)
CONSTANTS Calls, \* Call-IDs
          Seqs   \* INVITE transactions of a call

VARIABLES
  caller,   \* what the caller has been told of each of his INVITEs
  callee,   \* what has become of it at the callee's phone
  connected \* the calls the proxy takes for established

vars == <<caller, callee, connected>>

Init ==
  /\ caller = [c \in Calls |-> [n \in Seqs |-> "none"]]
  /\ callee = [c \in Calls |-> [n \in Seqs |-> "idle"]]
  /\ connected = {}

Open(c, n) ==
  /\ caller[c][n] = "none"
  /\ caller' = [caller EXCEPT ![c][n] = "open"]
  /\ UNCHANGED <<callee, connected>>

\* The INVITE reaches the callee, which may be after it was refused meanwhile.
Offer(c, n) ==
  /\ caller[c][n] # "none" /\ callee[c][n] = "idle"
  /\ callee' = [callee EXCEPT ![c][n] = "offered"]
  /\ UNCHANGED <<caller, connected>>

PickUp(c, n) ==
  /\ callee[c][n] = "offered"
  /\ callee' = [callee EXCEPT ![c][n] = "pickedUp"]
  /\ UNCHANGED <<caller, connected>>

Decline(c, n) ==
  /\ callee[c][n] = "offered"
  /\ callee' = [callee EXCEPT ![c][n] = "declined"]
  /\ UNCHANGED <<caller, connected>>

\* The one answer of an INVITE, after the callee has picked up that very INVITE.
Answer(c, n) ==
  /\ caller[c][n] = "open" /\ callee[c][n] = "pickedUp"
  /\ caller' = [caller EXCEPT ![c][n] = "answered"]
  /\ UNCHANGED <<callee, connected>>

\* The callee declined, or the proxy did; it is the one final response as well.
Refuse(c, n) ==
  /\ caller[c][n] \in {"none", "open"}
  /\ caller' = [caller EXCEPT ![c][n] = "refused"]
  /\ UNCHANGED <<callee, connected>>

Connect(c) ==
  /\ \E n \in Seqs : caller[c][n] = "answered"
  /\ connected' = connected \cup {c}
  /\ UNCHANGED <<caller, callee>>

Disconnect(c) ==
  /\ connected' = connected \ {c}
  /\ UNCHANGED <<caller, callee>>

Next ==
  \E c \in Calls :
    \/ Connect(c) \/ Disconnect(c)
    \/ \E n \in Seqs : \/ Open(c, n) \/ Offer(c, n) \/ PickUp(c, n) \/ Decline(c, n)
                       \/ Answer(c, n) \/ Refuse(c, n)

Spec == Init /\ [][Next]_vars

==============================================================================
