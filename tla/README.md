# A verification project for stuba-kmps-sipproxy (CTRDN Talk)

CTRDN Talk is a SIP proxy in Java: phones register with it, call each other
through it, and may have their media relayed and recorded. Its portal is a web
application with an API for administration and for WebRTC calls between
browsers. The repository has no tests. Almost every class is used by several
threads and almost nothing is synchronized, and that is what this project is
about: TLA+ modules of the concurrent parts, TLC runs on small instances,
and proofs checked by TLAPS of the invariants that the rest leans on.

Source paths below are relative to `src/src/main/java/net/ctrdn/talk/`.

## 1. Inventory

| Component | State | Operations | Works with |
|---|---|---|---|
| SIP listener (`sip/SipProviderListener`) | pool of 16 to 64 threads | `processRequest`, `processResponse` | finds or creates sessions and registrations in the server's lists |
| SIP session (`sip/SipSession`) | `state`, Call-ID, last INVITE, 180, 200 and ACK with their transactions, `algChannel`, DAO | `sessionRequestReceived`, `sessionResponseReceived`, `terminate`, `onCommunicationProcessed` | pool threads, a servlet thread for `terminate`; gateway; DAO |
| SIP server (`sip/SipServer`) | lists of sessions and registrations, watchdog | `start`, `stop`, sending, forwarding, header rewriting | JAIN SIP stack |
| Registration (`sip/SipRegistration`) | `state`, account, contacts, expiry | `registerReceived`, `unregister`, `timedOut` | pool threads, watchdog |
| RTP gateway (`rtp/AlgProvider`, `rtp/AlgChannel`) | list of channels; sockets, `active`, `lastActivityDate` | `newChannel`, `start`, `stop`, RTP and RTCP threads | sessions; server restart |
| Recording (`rtp/RtpAudioRecorder`, `WaveHeader`, `combineAudioTracks`) | sample buffers, first dates of the parties | `process`, combining, writing of three files | RTP thread |
| WebRTC (`webrtc/`, `portal/api/webrtc/`) | lists of presences and sessions; session `state`, flags, dates | offer, answer, candidate, established, terminate, present; cleanup worker | servlet threads, worker, browsers |
| WebRTC client (`webrtc.js` in the pages) | `current_session`, `peer_connection`, its candidates, the timer of the poll | `acknowledge_presence`, invite, answer, terminate, `process_session_info`; callbacks of the browser | the API of WebRTC, one browser per user |
| Extensions and accounts (`portal/api/telephony`, `dao/`) | documents in MongoDB | create, modify, delete | read by listener, server and registration |
| Call history (`CallListMethod`, `dao/SipSessionDao`) | dates of a call | status of a call | written by sessions |
| Portal (`portal/ApiServlet`, `ResourceServlet`, `api/system`, `ProxyController`) | portal sessions | login, logout, timeout, configuration, restart of the server | servlet threads |
| Persistence (`core/common`) | one document per DAO | `store`, `delete`, `find`, `list` | everything |

What is hard, and what makes each component correct:

* **Calls.** A session is written by the threads of the pool and by `terminate`
  with no lock. Messages are lost, copied and reordered; sends fail half way.
  Correct: one open session per Call-ID; no handler uses what has not been
  recorded; an established call was really answered; a session that is over
  leaves the list, stops its channel and has a record with an end date; what
  was accepted (BYE, CANCEL) takes effect.
* **Registrations.** Retransmissions, refreshes, unregistrations and the watchdog
  work on the same object. Correct: INVITEs find a phone exactly while it is
  registered, and a silent phone is dropped.
* **Gateway and recording.** Two sockets, three threads and three ways to stop a
  channel; the files are written by a thread that is ending. Correct: adjacent
  ports, no port leaks, no channel that runs unseen, a recording of whoever was
  heard, with both parties at their time.
* **WebRTC.** Six kinds of requests on unsynchronized sessions, driven by polls of
  pages whose callbacks may be overtaken or end in an exception. Correct:
  established only with everything exchanged and between the connections that
  were described to each other, terminated stays
  terminated, nobody busy for ever, a page that goes on polling.
* **Extensions, portal, DAOs.** Read-modify-write on documents without
  transactions. Correct: one primary extension per account, no lost updates, a
  session that has ended stays so.

The `hazards` of PROJECT.json list the single places, with the properties that
watch them or why none does.

## 2. Plan

Done, in this order:

1. `SipCall` with `SipCallProofs`: the core of the proxy.
2. `Registrar` with `RegistrarProofs`.
3. `AlgPool`, and `Recording`, which extends it by what the RTP thread records.
4. `WebRtcServer`, the state and the decisions of the server, with two modules on top:
   `WebRtc` (concurrent requests, statement by statement) and `WebRtcPage` (whole
   requests against the pages of the browsers).
5. `Extensions` with `ExtensionsProofs`: account and extension documents, with every call
   to the database a step.
6. `CallService`, what the proxy promises of a call, implemented by `SipCall`: checked
   by TLC and proved in `SipServiceProofs`, for its INVITEs and calls of any number.
7. `GatewayProofs`: the ports and the list of `AlgPool`, that `Recording` implements it, and what a
   recording plays.
8. `WebRtcProofs`: what it takes to be ESTABLISHED.
9. `SipListProofs`: one session per call, what leaves the list is closed and recorded, and the history
   that a user sees.
10. `WebRtcPageProofs`: types, polling, who is connected with whom, and what is over, for pages of any number.

Left:

* `Server`: start, stop and restart, composed with the lists of `SipCall` and `AlgPool`.
* `Portal`: login, activity, timeout and logout of portal sessions.
* `Store`: the two-step store of DAOs that threads share, with lost updates.
* An abstract call between two browsers, implemented by `WebRtc`.
* Proofs: `MediaConnected` and `TerminatedIsFinal` of `WebRtcPage` when somebody calls, answers or terminates again.

## 3. How the modules correspond to the code

All modules share some conventions. A handler is cut into steps where it reads or
writes something another thread uses; a variable (`pc`, `watchdog`, `job`, ...)
names the statement a thread is about to run. Local variables of a handler live
only as long as it does. A search through a list is one step. Every bound
is a constant whose comment says *bound*. *Slip* operators are plausible bugs in
one place; TLC refutes each property when one of them takes that place.

### SipCall

`state`, `callId`, `inviteTx`, `last`, `alg`, `dao` and `listed` are the fields of
`SipSession`, what it remembers of 180, 200 and ACK, its DAO and
the server's list; `tx` and `net` are the SIP stack and the network.
Each branch of `sessionRequestReceived`, `sessionResponseReceived` and
`terminate` is a sequence of actions named after it (`OpenTx`, `Sdp`, `Forward`,
`Trying`, ...), which ends in the common clean-up `Close`, `Unlist`, `Store`,
`Write` (`onCommunicationProcessed`); failures go to the same place, or past it,
as the `catch` and `finally` blocks say. `Admit` and `TurnAway` are the listener's
decisions about an INVITE; which of them applies is left to `Verdicts`, except
where it depends on the model's own state. The creation of a session and its
entry in the list are one step; so are 334-337, which set fields one after the
other, 378-379, and 461-462, which nothing reads before the state is ESTABLISHED. The two
assignments of a 180 (451-452) are two steps, `RecordRinging` and `RecordRingTx`, because CANCEL and terminate
look at the first and use the second (`HalfRung`). Storing the record takes three: `Store` looks at `isStored`, `Encode`
copies the fields, `Write` writes them. Every response of a handler and of terminate may fail (`CannotRespond`), on an open
transaction too, and then the code that follows it in the `try` block is left out.

The JAIN stack is not under `src/`. It is modelled as the code relies on it: copies of an
INVITE reach the listener until its server transaction exists; a
transaction takes one final response and refuses a second one with an exception;
CANCEL and BYE reach the listener once. A message that is lost is one that is never
taken. The media are not part of this module: a channel is running or stopped.

### CallService

The service without threads, sessions or lists: an INVITE of the caller is open, answered
or refused; at the callee it is offered, picked up or declined; a call is connected or
not. `SipCall` implements it with this mapping: the caller's side of an INVITE is its server
transaction (`tx`); the callee's side is `AtCallee`, read off the messages of the
network (a 200 that is there or was taken: picked up); connected are the calls with an
ESTABLISHED session (`ConnectedCalls`). It says what no invariant of one session does: an
INVITE is answered at most once, never after it was refused, and only when the callee picked up
*that* INVITE, which a re-INVITE or a late 200 of another transaction could break.

### Registrar

`state`, `username`, `account`, `contacts`, `expire` and `age` are the fields of
`SipRegistration`; `listed` is the server's list. A REGISTER is one of six kinds by
the credentials and the expiry it carries. `registerReceived` begins with `Handle`
(a zero expiry unregisters *and goes on*, as in the code) and `Switch`. `Challenge`
merges username and response, `Fill` the clearing and the filling of the contacts, `Ok`
the response and its date. The From user is taken to be the account's name. The
watchdog walks the list as it was when its round began and calls `timedOut` in
two steps.

### AlgPool

`StartStep` is `start` with its search for ports, `RtpStep` and `RtcpStep` are the
two threads, `Stop` and `StopRemove` a stop by a session, `Kill...` the provider's
`stop` with its iterator (`cursor`, `touched`) over an `ArrayList`. A packet is only
its effect on `lastActivityDate`. A failing `setSoTimeout` (144-145) is not modelled. A search that reaches `MaxPort` is left there:
the model says nothing about it from then on.

### Recording

The actions of `AlgPool` with what they do to a recording: `Hear` is a packet of a
party whose address is known, on a channel that has recorders; `PassOn` any
other packet (until the 200 has been processed those of the callee have no known
sender and are sent back to where they came from, unrecorded). A packet carries one
16-bit sample, `Speech` at its time, as two bytes; `Combined` is `combineAudioTracks`,
which adds the tracks byte by byte. `first` holds the dates of the first packets,
which align the tracks; a packet whose type the recorder does not know
(`kept` is FALSE: one with the marker bit, for instance) sets the date and adds nothing. `Finally` is
the `finally` block of the RTP thread, `WriteFile` and `WriteFails` its three files.
The clock of the packets is finer than that of the inactivity timeout, and independent of it.
`heard` is a history variable: of each party the packets in the order in which they were recorded, each with its
time and whether it was kept.

### WebRtcServer, WebRtc and WebRtcPage

`WebRtcServer` has the fields of `WebRtcSession` (`state`, `age` since `lastUpdateDate`,
`established`, `ended`), the provider's lists `listed` and `present`, and what the API methods decide
from them (`Busy`, `CandidateState`, `Delivery`, `Finished`). The acknowledgement dates have no effect
in the code (`lastUpdateDate` is not read while a session is ESTABLISHED) and are left
out; that `calleeAcknowledge` compares a date with itself is therefore not visible.

`WebRtc` runs requests beside each other. `job[u][k]` is the request of kind `k` under way for
user `u`; a second click on *answer* may be under way beside the first (`MaxClicks`).
Of the browser it has what decides the next request (`view`, `FollowUps`). A
poll does its presence note and its search in one step and its delivery in a second.

`WebRtcPage` has the pages. A request that decides from what it has read is two steps of the server, so
that others come in between: an offer looks for a busy callee (`Begin`) and creates the session (`Serve`, 55-61 of
`OfferMethod`), a confirmation sets its own flag (`Begin`), and then looks at both and writes the state (`Serve`, `WebRtcSession.java:79-81`; since no
flag is reset, a look that saw both is as good as one at the write).
The others are one step. What the server has begun for a page that is loaded anew it finishes (`Abandoned`). `current` is `current_session` (null, an object
without `SessionInfo`, or one that shows a session), `conn` is `peer_connection`, `poll` the
timer of `acknowledge_presence`; `remote[k]` is what connection `k` was given as its remote
description, so that "the two are connected" can be said. `making` are `createOffer` and
`createAnswer` before they call back, `asked` and `replies` the requests and replies under
way. An exception (`Throws`, the second disjuncts of `Poll` and `Described`) leaves what the callback has
assigned before. The cleanup worker may find a session overdue at any time unless it is
ESTABLISHED (`Remove`), so this module has no clock. `Plans` says who may invite and which
mishap may happen, once: a reply overtaken (`late`), a request or its reply lost
(`fail`), a page loaded anew (`reload`), a second click or call (`again`).

### Extensions

`accounts` and `extensions` are the two collections, indexed by ObjectId; `at[t]` is
the next call to the database of thread `t`, and `id`, `dao`, `username`, `other` and `otherDao`
are the DAOs of its method. The methods to create and to modify an extension share
`FindAccount`, `List` (the loop over the account's extensions), `Demote` (the old primary one is
stored) and `Save`; a modify writes back the whole document it read at its start, which
is only an update if the document still exists (`Updated`). `Fail` ends a method at any call, with what it
has written so far. `SipExtensionDeleteMethod` marks a replacement in memory only, so `Replace` writes
nothing. `past` is a history variable: which of the situations that the properties
except have occurred, namely two edits (`edits`) or two creations (`creates`) side by side, and a step that takes the flag
from an account's primary extension with no other one to follow (`lost`, set by `Loses` in `Fail`, `Demote`, `Save` and `Remove`). The pages offer SIP accounts as the only kind of target.

## 4. Runs

| Run | Question | Instance |
|---|---|---|
| `call_concurrent` | one open session per call; established means answered; no null dereference; every call recorded; what left the list is closed | 2 threads, an INVITE with two copies, 2 sessions, CANCEL, 180, 200, error, ACK and the caller's BYE, failing forwards |
| `call_terminate` | an administrator beside two threads: ended sessions leave the list | 1 INVITE with every verdict, 180, 200, error and ACK against terminate; rewriting, forwarding and responding may fail |
| `call_sequential` | the history a user sees is right; the sessions implement the call service | one thread, INVITE and re-INVITE, all ten kinds of messages, every verdict, failures of SDP and responses |
| `call_liveness` | an accepted BYE or CANCEL ends the call | 2 threads, 1 INVITE, fair |
| `registrar_concurrent` | known accounts; what is over leaves the list | 2 threads and the watchdog, 3 REGISTERs with two copies each, failing responses |
| `registrar_sequential` | a user agent is found exactly while it is registered, and dropped when it is silent | one thread and the watchdog, 3 REGISTERs with two copies each, failing responses, fair |
| `alg_ports` | pairs of ports, none leaked | 2 channels, a foreign program, I/O errors, timeouts, restart |
| `recording_calls` | what runs stays in the list; ports come back; what was heard is written, as it was said | 1 channel with recording or without, 3 packets at 3 times, early stop, restart, I/O errors, fair |
| `webrtc_concurrent` | established means everything was exchanged; no session hangs | 2 users, one session, two clicks on answer, timeouts of the session, fair |
| `page_calls` | connected means described to each other; pages poll on; terminated stays so | 2 users, 2 sessions, 3 peer connections, timeouts, one mishap of a page or a user who clicks once more |
| `extensions_methods` | one primary extension per account, never none; unique names; documents keep their identity | 2 threads, 2 accounts, 2 extensions, 2 names of each kind, every call may fail |

All of them pass. One more run ends in a counterexample to what the code says of
itself (`findings` in PROJECT.json quotes the line): in `alg_kill`, *"Killing all ALG
channels"* stops one of two, because each stop shortens the list under the iterator.

**Bounds.** Every race of a session is between two threads or a thread and an
administrator: no handler waits for another one, so a third thread adds orders and
no new pair of statements. One call suffices: calls share only the list, and
a session is found by its Call-ID. All four faults, all verdicts and all kinds of
messages occur, spread over the runs so that each stays within minutes:
`call_concurrent` has no administrator and no failing rewrite, `call_terminate` no
CANCEL and no BYE. `MaxSessions` bounds what the listener can create; when it is
reached, a thread that would admit a further INVITE stays there. In `call_concurrent` and
`call_sequential` it equals the number of INVITEs that can be sent. Three
REGISTERs are enough for challenge, authentication and a refresh or
unregistration, with two copies for a retransmission. Two channels are enough for
collisions and for the iterator; the recording run has one channel because ports are
settled before a channel is active, and channels share nothing else; three packets let either party be first,
overlap with the other one or miss a moment. Two users and one WebRTC session can take every
path; calls that cross need a second session. One mishap of a page already breaks what
can be broken: two of them only combine consequences, and they are excepted by name. `MaxReplies` is 2, for
one reply that overtakes another; three connections are one each and one that is new. Two accounts let an extension move, two
threads are the two sides of every race between methods, and two ids of each kind let a
name be given away again while an old document is still being written; the proofs
cover any number of them.

**Restrictions.** Some properties hold only in part of the runs, because the code has
them only there; the hazards name the lines.

* `OneSessionPerCall` and `UnlistedIsClosed` are checked with one INVITE transaction: two
  of one Call-ID that are handled at once get a session each, and a re-INVITE drops the
  reference to the first channel.
* `HistoryMatchesList` holds as long as no two threads work on one session; it is checked with one thread and proved
  for any number of them that stay apart. It excepts a CANCEL that failed, in its 200 or on its way to the callee, after its date was set:
  the session is listed and its record says CANCELED.
* `EndedLeavesList` allows for terminate failing half way, in the three situations it names.
* `NoNullDereference` excepts, for the client transaction of a 180, the moment between 451 and 452: the code fails there, and so
  `AcceptedCancelEndsCall` excepts a CANCEL that does.
* `OneRegistrationPerUser`, `UnregisteredIsUnreachable` and `AnsweredIsReachable` hold as long as no two threads have
  requests of one user in hand, and are proved for that: two threads create two registrations of one user. They are
  checked with one thread, as `SilentIsDropped` is.
  `SilentIsDropped` is conditional on the watchdog being alive: a registration that is
  refreshed before any 200 was sent has an expiry and no date, and kills it.
* `RunningStaysListed` excepts the second half of a stop that came before its channel was active: the channel
  then runs unseen, until its inactivity timeout (`PortsComeBack`).
* `TerminatedIsFinal` is about sessions that nobody is in the middle of confirming: a confirmation that has seen both
  flags writes ESTABLISHED although the session was terminated meanwhile. It needs one click on answer, too. No property says that a
  callee is free: two concurrent offers both find it so, and the model has them.
* `MediaConnected` excepts a caller that has gone on to another connection and a callee whose answer was
  meant for an earlier call. It and `TerminatedIsFinal` are proved as long as nobody calls, answers or terminates a
  second time (`NobodyAgain`). `page_calls` also checks them when the one caller calls or terminates twice; an answer
  clicked while another one is under way is in neither. `PollingGoesOn` excepts pages with a mishap.
* `PortsComeBack` excepts a channel whose RTP socket fails: its thread ends, nobody else watches the
  timeout, and the RTCP socket stays open until the session ends.
* `CombinedIsTheCall` is about parties without lost packets, where the low bytes do not carry. The run has three
  packets, the proof any number.
* `AtMostOnePrimary` holds until two extensions are created or modified at once,
  `NamesAreUnique` until two documents of a kind are created at once, and `PrimaryIsKept` until the flag is lost in one of
  the ways the code has: a failure or a delete between the two stores, a modify that takes the flag or the extension
  away, a delete, whose replacement is not stored, or a store of an old primary extension that belongs to another account by
  now. With any one of these left out of `Loses`, TLC finds an account without a primary extension.

**Deadlock.** `CHECK_DEADLOCK FALSE` everywhere: when no message is left to take, the
system rests.

**Fairness.** Weak fairness for the steps of threads, worker and watchdog, because
Java schedules runnable threads, and for the clock. None for messages,
clicks, user agents or packets: nobody has to act. In `WebRtc` an open browser
polls for ever, since `acknowledge_presence` rearms its own timer before it processes a
reply; `PollingGoesOn` of `WebRtcPage` shows how far that is true. In `Recording` the RTP
thread is fair up to its last file.

## 5. Proofs

| Theorem | Says |
|---|---|
| `TypeCorrect` | `SipCall`: `Spec => []TypeOK` |
| `EstablishedAnswered` | `SipCall`: `Spec => []EstablishedWasAnswered` |
| `HandlersAreSafe` | `SipCall`: `Spec => []NoNullDereference` |
| `RegistrarTypeCorrect` | `Registrar`: `Spec => []TypeOK` |
| `AccountsAreKnown` | `Registrar`: `Spec => []AccountIsKnown` |
| `DocumentsTyped` | `Extensions`: `Spec => []TypeOK` |
| `IdentityKept` | `Extensions`: `Spec => DocumentsKeepIdentity` |
| `OnePrimary` | `Extensions`: `Spec => []AtMostOnePrimary` |
| `CallsServed` | `SipCall` implements `CallService`: `Spec => CallsAreServed` |
| `CallsRecorded` | `SipCall`: `Spec => []CallIsRecorded` |
| `UnregisteredLeaves` | `Registrar`: `Spec => []UnregisteredLeavesList` |
| `PairsAreServed` | `AlgPool`: `Spec => []ServedByPair` |
| `PortsDoNotLeak` | `AlgPool`: `Spec => []NoPortLeaks` |
| `RecordingIsGateway` | `Recording` implements `AlgPool`: `RecordingSpec => Spec` |
| `SessionsTyped` | `WebRtc`: `Spec => []TypeOK` |
| `EstablishedIsEarned` | `WebRtc`: `Spec => []EstablishedHasAll` |
| `OneSession` | `SipCall`: `Spec => [](NoReinvite => OneSessionPerCall)` |
| `UnlistedClosed` | `SipCall`: `Spec => [](NoReinvite => UnlistedIsClosed)` |
| `UnlistedHasEndDate` | `SipCall`: a session off the list has an end date, re-INVITEs or not |
| `EndedLeave` | `SipCall`: `Spec => []EndedLeavesList` |
| `OneEach` | `Registrar`: `Spec /\ []Apart => []OneRegistrationPerUser` |
| `GoneIsUnreachable` | `Registrar`: `Spec /\ []Apart => []UnregisteredIsUnreachable` |
| `OkIsReachable` | `Registrar`: `Spec /\ []Apart => []AnsweredIsReachable` |
| `NamesGivenOnce` | `Extensions`: `Spec => []NamesAreUnique` |
| `PrimaryStays` | `Extensions`: `Spec => []PrimaryIsKept` |
| `PagesTyped` | `WebRtcPage`: `Spec => []TypeOK` |
| `PagesPollOn` | `WebRtcPage`: `Spec => []PollingGoesOn` |
| `GatewayTyped` | `AlgPool`: `Spec => []TypeOK` |
| `RunningIsListed` | `AlgPool`: `Spec => RunningStaysListed` |
| `RecordingIsTheCall` | `Recording`: `RecordingSpec => []CombinedIsTheCall` |
| `HistoryIsRight` | `SipCall`: `Spec /\ []Apart => []HistoryMatchesList` |
| `ConnectedIsDescribed` | `WebRtcPage`: `Spec => [](NobodyAgain => MediaConnected)` |
| `TerminatedStays` | `WebRtcPage`: `Spec /\ []NobodyAgain => TerminatedIsFinal` |

They hold for every number of calls, threads, administrators, sessions, INVITEs,
copies, users, REGISTERs, accounts, extensions, channels, ports, packets, clicks, connections and
replies, and every set of faults, from nothing but the modules' own assumptions on their constants, with
these exceptions (section 4, *Restrictions*), all but the last of which the code forces:

* `NoReinvite` in `SipListProofs`: no caller has sent a second INVITE after one that got more than
  a challenge. It speaks of the calls so far, so the theorems cover any number of challenged INVITEs
  and every behaviour up to the first re-INVITE.
* `Apart` in three theorems of `RegistrarProofs`: no two threads have requests of the same user in hand at once. Any number of
  threads serve other users meanwhile, and the watchdog runs beside them.
* `Apart` in `HistoryIsRight`: no two threads work on the same session. All faults, administrators, re-INVITEs and any number of calls,
  threads and sessions are covered.
* `NobodyAgain` in `ConnectedIsDescribed` and `TerminatedStays`: every user has called or answered once at most, and
  clicked on terminate only with no such request under way. It speaks of the clicks so far, so the first one covers every behaviour up to
  the first second call, answer or terminate, and, since a behaviour may rest at any point, so does the second. Any number of users,
  calls that cross, refused offers, overtaken replies, failed requests, timeouts and reloads are inside. A user
  who has called twice has two connections, and which of them a late reply describes depends
  on the order of the replies; that case is only model-checked.

For `SipCall` neither invariant is inductive alone: a session becomes ESTABLISHED
several steps after the 200 was sent, by a thread that has been at it for a while.
`IInv` adds three parts. `ThreadInv` is what each program counter knows: a thread inside a
handler has a session and a message of its kind; past `OpenTx` its session has Call-ID and
transaction; between the 200 and the change of state the call is answered and the 200
recorded. `SessionInv` says that an INVITED or ESTABLISHED session has its Call-ID and
transaction and an ESTABLISHED one its answer. `OwnerInv` says that while a session
has no Call-ID at most one thread with a message works on it, so nobody else can
have seen it. What other threads know survives a step because the fields only
grow (`Grow`): a Call-ID, a transaction, an answer or a recorded response is never taken
back. The proof is one lemma per action, and `NextInv` collects them. `HalfInv` follows the 180: a session has one without its
client transaction only while a thread is at the second assignment.

`CallsServed` maps every step of `SipCall` to one of `CallService` or to a stutter. `JInv` of
`SipServiceProofs` adds what that takes. `InviteOK`: the callee answers only an INVITE
that was forwarded, and when an INVITE has been answered its 200 was sent and no thread has it still to
relay. `InTurn`: an INVITE is over for its caller before he sends the next one. `HandlerOK`: a thread
works on a message that has left the network. `RecordInv` is for `CallsRecorded`: a session with
the date of an INVITE has a document, or a thread that is inserting it, or, while nobody has stored it, a
thread that will.

`ListInv` of `SipListProofs` is about sessions that several threads share without a lock. The search for a
session and its creation are not atomic, so it cannot say that one thread creates it; it says who may still
be doing what. `TxInv`: a server transaction belongs to one session. `OpenerInv`: of the threads with a copy of an
INVITE only the one that opened its transaction is at work on the session, so copies cannot open a
second one. `TalkInv`: while the callee has not been sent an INVITE there is no response, ACK or BYE of the
call, in the network or in a thread's hands. From these `EarlyInv` follows: while a thread takes a call's INVITE to the
callee nobody else is ending the session, and it is on the list with no channel running.
Then every channel that runs is the one the session remembers, and `Close` stops it (`ClosedInv`). After a re-INVITE
`EarlyInv` is false: the session may be ended by the threads of the first INVITE.
`EndInv` says that whoever ended a session is still on the way to take it off the list, or was `terminate` in
one of the three situations that `EndedLeavesList` excepts.

For `Registrar`, `WorkerInv` says which threads are past authentication and so have an
account, `RegInv` that a registration that is AUTHENTICATED or has contacts or an expiry has
one, and `DogInv` that the watchdog at `expire` or `evict` suspects a registration.

`ListInv` is for `UnregisteredLeaves`: a registration that is UNREGISTERED is on the list only
while the watchdog is about to take it off, and no thread puts one back.

While the threads stay apart, what is said of a phone can be followed through its transactions. `NameInv`: a user has one
registration in the list, which is the own one of the thread that serves that user. `StageInv`: at each statement the
registration is in the state that the code assumes there, although the watchdog may have changed it.
`MessageInv`: a thread serves the last transaction of a phone, a copy of it at worst, and a transaction has one
kind. `OrderInv`: the registrations are numbered as they are created, and an INVITE looks for the youngest. Then
`GoneInv` and `FoundInv` say that what a phone was told by its last answer is true until it sends the next REGISTER: a copy
of an answered one gets no response, since its transaction had one, and so starts nothing.

For `AlgPool`, `PInv` says which ports a channel holds (`Held`), from how far its start and its two threads
have come: none before the search, the RTP port between the two sockets, both while both threads run, the one
of the thread that is left. Neither the list nor `active` has a part in it, so no stop can break it.
`RecordingIsGateway` has a step for each action of `Recording`, with `Hear` and `PassOn` mapped to the
packets of the RTP thread; with it the ports of a gateway that records are as safe as those of one that does not.

For `WebRtc`, `Has(given, v)` says what must have been delivered for a value of a session's state or flags to be
right. Each request under way, each delivery and each browser's view carries its own part of that
(`SessionOK`, `JobOK`, `Aimed`, `ViewOK`). What was given is never taken back (`Grow`), so a
request that has waited for long still says the truth, although the state it has read may be out of date.

For `Extensions`, `ThreadInv` says that what a method has read of a document has the
document's number or username, if that still exists; it survives because every step keeps the
identity of every document (`Keep`). `OnePrimary` needs two more parts. `Alone`: while
no two edits have overlapped at most one thread is editing. `Sure`: at `demote` the
extension it has found is the only primary one of the account, and at `save` of a primary
extension no other one is left.
`NamesInv` is the same for names: while one document of a kind is created at a time, the name that was looked up is
free until it is stored (`Fresh`). `KeptInv` says that, until a flag was lost, an account with extensions has a
primary one or a thread about to store one (`Served`, `Settles`), and what a thread has seen to before it stores an extension
(`Prepared`): one that is not primary is stored only for an account that is served. `KeptStays` says what a step must show of its own thread; for all
others, `OthersSettle` shows that they go on serving.

For `WebRtcPage`, `PagesTyped` shows that a description is never missing where a page reads one: an OFFERED session
has an offer, an ANSWERED one an answer.
`PagesPollOn` needs to know what a page may be told. `ToldInv`: every session it shows, asks about or is told of is one of
its own. `PollingInv`: along the replies under way, each of which replaces the session the page shows, one
that brings an answer or a candidate comes when there is a session; and when there will be none at the end, the server has nothing
for the page but offers (`Unheard`). It is about pages without a mishap, one by one (`Calm`): what happens to one page
does not stop another.

For the list of `AlgPool`, `TypeInv` and `DropInv`: when the RTP thread is about to take its channel off the list it has made it
inactive, after its start had made it active for good. A session's stop makes the channel inactive at its first step, and a restart as it removes it.
`NextStays` goes through the steps; `RemoveFirst` takes one channel off the list, and lemmas about the first
occurrence, which a well-founded order gives, say that the others are left.

`RecInv` says that a track is a function of the packets handed to its recorder: as long as all were kept it
has what was said in each, in their order, and the first date is that of the first packet. In a recording without
gaps the i-th packet was said i - 1 samples after the first (`Gapless`), and the difference of the first dates is the
shift by which `combineAudioTracks` aligns the tracks. So the mix is the call for recordings of any length.

`HistInv` needs sessions that one thread at a time works on (`Apart`): a listed session whose record has an end, or whose CANCEL was answered,
is one that a thread is closing (`Closing`) or one whose CANCEL cannot be forwarded (`CannotCancel`); and one that is off the list with an open history is one whose record a
thread has yet to write, from a copy that is the record as it is then (`buf`).

For the connections of `WebRtcPage`, `ConnsInv`: a user has one connection, which goes into one offer or one
answer, and a session keeps the two it was given. `Engaged(u, s)`: u has done its part in s, the callee by its
answer, the caller by giving its connection the callee's description. With one connection
a user is engaged in one session (`OneEngagement`). `LinkInv`: a page sends candidates, confirms and is
brought candidates only when it is engaged. `BothInv`: before a session is ESTABLISHED, or a page is told so and can
terminate it, both have confirmed it. `OffersInv`: the offer that a page holds, or has put
into its connection, was made for one of its sessions, none of which came before the one it is about to answer.
From the first two follows one half of `MediaConnected`, although the confirmation may have been sent for a wrong session:
a caller is engaged only in its own. From the last follows the other half.
`BegunInv`: who has begun to confirm has set its flag. `OnceInv`: a user is brought one candidate and confirms once. After a session was terminated both have confirmed, so there is
neither an answer nor a confirmation on its way that the server would take, but one that it had begun to handle: hence `Over`.

Only model-checked:

* `MediaConnected` and `TerminatedIsFinal` when the caller calls or terminates a second time (`page_calls`);
* every liveness property (`AcceptedByeEndsCall`, `AcceptedCancelEndsCall`, `SilentIsDropped`, `PortsComeBack`, `HeardIsWritten`,
  `NoSessionHangs`): fairness and ENABLED are outside what the proof system handles.

## 6. What is not modelled

* Header rewriting, SDP contents, digests, addresses and ports: data that no
  property here tells apart. That rewriting may fail is a fault of the model.
* SIP dialogs and timers of the stack (`external`), beyond what is said above. The
  listener ignores the stack's timeouts, so there is nothing to model on this side.
* Codecs, wave headers, the servlet that plays a recording, and silence other than by its length.
* Passwords, flags and dates of accounts and extensions, and the system user an account
  belongs to.
* Launcher, menu, method registry, lists and dashboards: set up once, or only read.
* The administration pages, and of the WebRTC page its media, ringing and layout.
* jQuery, Bootstrap, moment.js, flot and the other vendored scripts of the portal. They are most of the lines
  that a count of this repository's code finds; nothing here depends on how they work inside, and
  they are used only through callbacks, which `WebRtcPage` models.
* Portal sessions, DAOs as shared objects and the restart of the server: planned (section 2).

## 7. What the models show of the code

Places where the code does something a maintainer may not expect. Only the one about
`alg_kill` contradicts a line of the repository and is a finding; the others are steps of a module, or
exceptions of a property.

* `webrtc.js:204` answers the session that is shown when `createAnswer` calls back, which may be another one
  than the offer came with.
* A poll that fails is not repeated: `acknowledge_presence` rearms its timer only in the callback of a success.
  `process_session_info` throws for an object without `SessionInfo` and for TERMINATED a second time.
* An invite that is refused leaves its peer connection behind. Candidates found after the first
  ones were sent are never sent.
* `OfferMethod` asks whether the callee is busy, not the caller.
* A call in which only one party is heard is not recorded at all. Until the 200 was processed, packets of the callee are
  sent back to it. A packet with the marker bit has an unknown payload type and is not recorded. The two
  tracks are added byte by byte, without a carry.
* `AlgProvider.stop` iterates over a list that each channel's stop shortens (run `alg_kill`).
* An accepted REGISTER with expiry zero unregisters and goes on; `SipExtensionDeleteMethod` does not store the
  extension it makes primary.
