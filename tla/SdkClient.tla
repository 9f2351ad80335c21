------------------------------ MODULE SdkClient ------------------------------
(***************************************************************************)
(* One life of an Sn3dSdkClient over its TcpJsonTransport (q12_client.py): *)
(* from the connection made by ScannerService._start_unlocked to the       *)
(* disconnect of a failed start or of a stop.                              *)
(*                                                                         *)
(* The threads that hold _sdk_command_lock are the Users; the first holder *)
(* is the starting thread.  A Stopper, which does not take that lock, ends *)
(* the life: another thread, or the transport's own receiver when it calls *)
(* back.  A command is answered by message NAME only; its number is kept   *)
(* here as history.  The SDK process is external: it executes commands one *)
(* after the other, and may answer late, badly or never.                   *)
(***************************************************************************)
EXTENDS Naturals, Sequences

CONSTANTS
    Users, Stopper, NoUser,
    Names,        \* commands the users send besides "init" and "release"
    Unbounded,    \* commands sent with timeout_sec = math.inf
    MaxCommands,  \* bound: commands in one life
    MaxInits,     \* SDK_INIT_MAX_ATTEMPTS
    MaxLosses,    \* bound: connections that are lost
    MaxOffline    \* bound: deviceStatus messages that say "offline"

AllNames == Names \cup {"init", "release"}
Threads == Users \cup {Stopper}

ASSUME ThreadAssumption == Stopper \notin Users /\ NoUser \notin Threads /\ Users # {}
ASSUME NameAssumption ==
    /\ Names \cap {"init", "release", "none", "deviceStatus"} = {}
    /\ Unbounded \subseteq Names
ASSUME BoundAssumption ==
    /\ MaxCommands \in Nat /\ MaxInits \in Nat \ {0}
    /\ MaxLosses \in Nat /\ MaxOffline \in Nat

VARIABLES
    sock,         \* transport._socket: none, up, or dead (peer gone, not noticed)
    stopRx,       \* transport._stop_event
    receiver,     \* _receive_loop: off, run, notify, or in a callback
    connected,    \* _is_connected
    initialized,  \* _sdk_initialized
    slot,         \* _command_in_progress ("none" for None)
    event,        \* _command_finished_event
    finish,       \* _last_finish_message
    callbacks,    \* the service's callbacks are set
    stage,        \* where ScannerService is with this client
    inits,        \* attempts of _initialize_sdk_with_retry
    holder,       \* who holds _sdk_command_lock
    th,           \* where each thread is in send_command or disconnect
    toSdk, sdk, fromSdk,  \* commands sent, the one executed, messages to read
    abandoned,    \* history: commands whose caller left without their answer
    sendFailed,   \* history: the command in the slot could not be sent
    commands, losses, offline

linkVars == <<sock, stopRx, receiver, connected>>
slotVars == <<slot, event, finish>>
lifeVars == <<callbacks, stage, inits, holder>>
wireVars == <<toSdk, sdk, fromSdk>>
histVars == <<abandoned, sendFailed>>
countVars == <<commands, losses, offline>>
vars == <<linkVars, initialized, slotVars, lifeVars, th, wireVars, histVars, countVars>>

-----------------------------------------------------------------------------
NoMessage == [kind |-> <<"none", "none">>, id |-> 0, good |-> FALSE]
Idle == [pc |-> "idle", name |-> "none", id |-> 0, got |-> NoMessage, out |-> "none"]

\* The messages that end a command.
Answers(name) ==
    {<<name, "Finish">>} \cup
    (CASE name = "loadFramework" -> {<<"loadP3", "Finish">>}
       [] name = "init"          -> {<<"showMainView", "">>}
       [] name = "startScan"     -> {<<"scanFinish", "">>, <<"scanException", "">>}
       [] OTHER                  -> {})

\* Mutant: any finish message ends the command in progress.
EndsWithAny(kind, name) == kind \in UNION {Answers(n) : n \in AllNames}

\* _handle_incoming_message compares names.
Ends(kind, name) == kind \in Answers(name)

Goto(t, pc) == th' = [th EXCEPT ![t].pc = pc]

\* _command_finished_event.set(): every thread that waits is woken for good.
Woken == [t \in Threads |-> IF th[t].pc = "wait" THEN [th[t] EXCEPT !.pc = "read"] ELSE th[t]]

\* send_command comes back to its caller.
Returns(t, out) ==
    th' = [th EXCEPT ![t].pc = "done", ![t].out = out]

-----------------------------------------------------------------------------
(* send_command *)

TriesLeft == inits < MaxInits

\* A user calls send_command: the starting thread by its stage, the others
\* once the service has the client, under _sdk_command_lock.
MayCall(u, name) ==
    \/ holder = u /\ stage = "release" /\ name = "release"
    \/ holder = u /\ stage = "init" /\ name = "init" /\ TriesLeft
    \/ holder = u /\ stage = "params" /\ name \in Names \ Unbounded
    \/ holder = u /\ stage = "over" /\ name \in Names
    \/ holder \in {u, NoUser} /\ stage = "serving" /\ name \in Names

\* initialize_sdk skips init when _sdk_initialized; the link was just reset.
Calls(u, name) ==
    /\ th[u].pc = "idle" /\ commands < MaxCommands
    /\ MayCall(u, name)
    /\ name = "init" => ~initialized
    /\ holder' = u
    /\ inits' = IF name = "init" THEN inits + 1 ELSE inits
    /\ commands' = commands + 1
    /\ th' = [th EXCEPT ![u] = [Idle EXCEPT !.pc = "check", !.name = name, !.id = commands + 1]]
    /\ UNCHANGED <<linkVars, initialized, slotVars, callbacks, stage, wireVars, histVars, losses, offline>>

LooksAtLink(t) ==
    /\ th[t].pc = "check"
    /\ IF connected THEN Goto(t, "claim") ELSE Returns(t, "unlinked")
    /\ UNCHANGED <<linkVars, initialized, slotVars, lifeVars, wireVars, histVars, countVars>>

\* Mutant: the event of the last command is not cleared.
ClaimKeepsEvent(t) ==
    /\ th[t].pc = "claim" /\ slot = "none"
    /\ slot' = th[t].name /\ finish' = NoMessage /\ UNCHANGED event
    /\ sendFailed' = FALSE
    /\ Goto(t, "send")
    /\ UNCHANGED <<linkVars, initialized, lifeVars, wireVars, abandoned, countVars>>

ClaimsSlot(t) ==
    /\ th[t].pc = "claim" /\ slot = "none"
    /\ slot' = th[t].name /\ event' = FALSE /\ finish' = NoMessage
    /\ sendFailed' = FALSE
    /\ Goto(t, "send")
    /\ UNCHANGED <<linkVars, initialized, lifeVars, wireVars, abandoned, countVars>>

\* "still running"
Refused(t) ==
    /\ th[t].pc = "claim" /\ slot # "none"
    /\ Returns(t, "refused")
    /\ UNCHANGED <<linkVars, initialized, slotVars, lifeVars, wireVars, histVars, countVars>>

\* send_json.  A write to a connection whose peer is gone may still succeed.
Sends(t) ==
    /\ th[t].pc = "send" /\ sock # "none"
    /\ toSdk' = IF sock = "up" THEN Append(toSdk, [name |-> th[t].name, id |-> th[t].id]) ELSE toSdk
    /\ Goto(t, "sent")
    /\ UNCHANGED <<linkVars, initialized, slotVars, lifeVars, sdk, fromSdk, histVars, countVars>>

\* send_json raises: _command_in_progress stays.
SendFails(t) ==
    /\ th[t].pc = "send" /\ sock # "up"
    /\ sendFailed' = (slot # "none")
    /\ Returns(t, "unlinked")
    /\ UNCHANGED <<linkVars, initialized, slotVars, lifeVars, wireVars, abandoned, countVars>>

Waits(t) ==
    /\ th[t].pc = "sent"
    /\ Goto(t, IF event THEN "read" ELSE "wait")
    /\ UNCHANGED <<linkVars, initialized, slotVars, lifeVars, wireVars, histVars, countVars>>

TimesOut(t) ==
    /\ th[t].pc = "wait" /\ th[t].name \notin Unbounded
    /\ Goto(t, "timedOut")
    /\ UNCHANGED <<linkVars, initialized, slotVars, lifeVars, wireVars, histVars, countVars>>

\* Mutant: the command that timed out stays in progress.
GivesUpKeepsSlot(t) ==
    /\ th[t].pc = "timedOut"
    /\ Returns(t, "timeout")
    /\ abandoned' = abandoned \cup {th[t].id}
    /\ UNCHANGED <<linkVars, initialized, slotVars, lifeVars, wireVars, sendFailed, countVars>>

\* The timeout branch, under _state_lock: whatever command is in the slot by now.
GivesUp(t) ==
    /\ th[t].pc = "timedOut"
    /\ slot' = "none" /\ event' = TRUE
    /\ sendFailed' = FALSE
    /\ th' = [Woken EXCEPT ![t].pc = "done", ![t].out = "timeout"]
    /\ abandoned' = abandoned \cup {th[t].id}
    /\ UNCHANGED <<linkVars, initialized, finish, lifeVars, wireVars, countVars>>

\* _sdk_finish_error: no finish message counts as success.
Failed(message) == message # NoMessage /\ ~message.good

\* The result is read under _state_lock.
Reads(t) ==
    /\ th[t].pc = "read"
    /\ th' = [th EXCEPT ![t].got = finish,
                        ![t].pc = IF th[t].name = "init" THEN "mark" ELSE "done",
                        ![t].out = IF Failed(finish) THEN "failed" ELSE "ok"]
    /\ abandoned' = IF finish.id = th[t].id THEN abandoned ELSE abandoned \cup {th[t].id}
    /\ UNCHANGED <<linkVars, initialized, slotVars, lifeVars, wireVars, sendFailed, countVars>>

MarksInit(t) ==
    /\ th[t].pc = "mark"
    /\ initialized' = (initialized \/ th[t].out = "ok")
    /\ Goto(t, "done")
    /\ UNCHANGED <<linkVars, slotVars, lifeVars, wireVars, histVars, countVars>>

-----------------------------------------------------------------------------
(* The starting thread: _release_stale_sdk_session, the retried init, the  *)
(* parameters, the hand-over to the service or the disconnect.             *)

ResetCommandState ==
    /\ slot' = "none" /\ finish' = NoMessage /\ event' = TRUE
    /\ sendFailed' = FALSE

\* release_sdk_best_effort, then reconnect.
StaleReleased(u) ==
    /\ th[u].pc = "done" /\ stage = "release" /\ holder = u
    /\ initialized' = FALSE
    /\ IF th[u].out = "ok" THEN UNCHANGED <<slotVars, sendFailed>> ELSE ResetCommandState
    /\ Goto(u, "close")
    /\ UNCHANGED <<linkVars, lifeVars, wireVars, abandoned, countVars>>

InitSucceeds(u) ==
    /\ th[u].pc = "done" /\ stage = "init" /\ holder = u /\ th[u].out = "ok"
    /\ stage' = "params"
    /\ th' = [th EXCEPT ![u] = Idle]
    /\ UNCHANGED <<linkVars, initialized, slotVars, callbacks, inits, holder, wireVars, histVars, countVars>>

\* _recover_sdk_after_init_failure: after a timeout or a lost connection always,
\* after "still running" unless it was the last attempt.
InitRecovers(u) ==
    /\ th[u].pc = "done" /\ stage = "init" /\ holder = u
    /\ \/ th[u].out \in {"timeout", "unlinked"}
       \/ th[u].out = "refused" /\ TriesLeft
    /\ ResetCommandState
    /\ Goto(u, "close")
    /\ UNCHANGED <<linkVars, initialized, lifeVars, wireVars, abandoned, countVars>>

\* start raises: callbacks off, then disconnect.
StartFails(u) ==
    /\ holder = u
    /\ \/ th[u].pc = "done" /\ stage = "init" /\ th[u].out = "failed"
       \/ th[u].pc = "done" /\ stage = "init" /\ th[u].out = "refused" /\ ~TriesLeft
       \/ th[u].pc = "done" /\ stage = "params" /\ th[u].out # "ok"
       \/ th[u].pc = "idle" /\ stage = "init" /\ ~TriesLeft
       \/ th[u].pc = "redial"
    /\ callbacks' = FALSE
    /\ stage' = "over"
    /\ Goto(u, "close")
    /\ UNCHANGED <<linkVars, initialized, slotVars, inits, holder, wireVars, histVars, countVars>>

Serves(u) ==
    /\ th[u].pc = "idle" /\ stage = "params" /\ holder = u
    /\ stage' = "serving"
    /\ holder' = NoUser
    /\ UNCHANGED <<linkVars, initialized, slotVars, callbacks, inits, th, wireVars, histVars, countVars>>

\* A user reads its result: more commands under the lock (params too), or unlock.
Continues(u) ==
    /\ th[u].pc = "done" /\ holder = u /\ stage \in {"params", "serving", "over"}
    /\ th[u].out = "ok"
    /\ th' = [th EXCEPT ![u] = Idle]
    /\ UNCHANGED <<linkVars, initialized, slotVars, lifeVars, wireVars, histVars, countVars>>

Unlocks(u) ==
    /\ th[u].pc \in {"done", "idle"} /\ holder = u /\ stage \in {"serving", "over"}
    /\ th' = [th EXCEPT ![u] = Idle]
    /\ holder' = NoUser
    /\ UNCHANGED <<linkVars, initialized, slotVars, callbacks, stage, inits, wireVars, histVars, countVars>>

-----------------------------------------------------------------------------
(* Transport: disconnect, connect and the receiver thread. *)

Closes(t) ==
    /\ th[t].pc = "close"
    /\ stopRx' = TRUE
    /\ sock' = "none" /\ toSdk' = <<>> /\ fromSdk' = <<>>
    /\ Goto(t, "join")
    /\ UNCHANGED <<receiver, connected, initialized, slotVars, lifeVars, sdk, histVars, countVars>>

\* The join gives the receiver a second to end, which is more than its handlers
\* take.  A receiver that joins itself gets a RuntimeError: the rest is left out.
Joins(t) ==
    /\ th[t].pc = "join"
    /\ \/ receiver = "callback" /\ t = Stopper /\ UNCHANGED <<connected, initialized>>
          /\ receiver' = "off"
       \/ receiver = "off" /\ connected' = FALSE /\ initialized' = FALSE /\ UNCHANGED receiver
    /\ Goto(t, IF t \in Users /\ stage # "over" THEN "dial" ELSE "gone")
    /\ UNCHANGED <<sock, stopRx, slotVars, lifeVars, wireVars, histVars, countVars>>

\* connect of a reconnect.
Dials(u) ==
    /\ th[u].pc = "dial"
    /\ sock' = "up" /\ stopRx' = FALSE /\ receiver' = "run" /\ connected' = TRUE
    /\ stage' = "init"
    /\ th' = [th EXCEPT ![u] = Idle]
    /\ UNCHANGED <<initialized, slotVars, callbacks, inits, holder, wireVars, histVars, countVars>>

\* The preamble raises; a recovery swallows it and the next init finds no link.
DialFails(u) ==
    /\ th[u].pc = "dial"
    /\ th' = [th EXCEPT ![u] = IF stage = "release" THEN [Idle EXCEPT !.pc = "redial"] ELSE Idle]
    /\ UNCHANGED <<linkVars, initialized, slotVars, lifeVars, wireVars, histVars, countVars>>

RxStops ==
    /\ receiver = "run" /\ stopRx
    /\ receiver' = "off"
    /\ UNCHANGED <<sock, stopRx, connected, initialized, slotVars, lifeVars, th, wireVars, histVars, countVars>>

\* _handle_incoming_message for the next message of the stream.
RxHandles ==
    /\ receiver = "run" /\ sock # "none" /\ fromSdk # <<>>
    /\ Head(fromSdk).kind # <<"deviceStatus", "">>
    /\ fromSdk' = Tail(fromSdk)
    /\ IF slot # "none" /\ Ends(Head(fromSdk).kind, slot)
       THEN /\ finish' = Head(fromSdk)
            /\ slot' = "none" /\ event' = TRUE /\ sendFailed' = FALSE
            /\ th' = Woken
       ELSE UNCHANGED <<slotVars, sendFailed, th>>
    /\ UNCHANGED <<linkVars, initialized, lifeVars, toSdk, sdk, abandoned, countVars>>

\* deviceStatus offline: the service's callback stops the client from this very
\* thread, without a release; while it is starting it ignores the message.
RxOffline ==
    /\ receiver = "run" /\ sock # "none" /\ fromSdk # <<>>
    /\ Head(fromSdk).kind = <<"deviceStatus", "">>
    /\ fromSdk' = Tail(fromSdk)
    /\ IF callbacks /\ stage = "serving" /\ th[Stopper].pc = "idle"
       THEN /\ receiver' = "callback" /\ callbacks' = FALSE /\ stage' = "over"
            /\ Goto(Stopper, "close")
       ELSE UNCHANGED <<receiver, callbacks, stage, th>>
    /\ UNCHANGED <<sock, stopRx, connected, initialized, slotVars, inits, holder, toSdk, sdk, histVars,
                   countVars>>

\* End of the stream, or a socket error.
RxLost ==
    /\ receiver = "run" /\ sock = "dead" /\ fromSdk = <<>> /\ ~stopRx
    /\ receiver' = "notify"
    /\ UNCHANGED <<sock, stopRx, connected, initialized, slotVars, lifeVars, th, wireVars, histVars, countVars>>

\* Mutant: the disconnect leaves a waiting send_command alone.
LostForgetsWaiter ==
    /\ connected' = FALSE /\ initialized' = FALSE
    /\ slot' = "none" /\ sendFailed' = FALSE /\ UNCHANGED <<event, th>>

\* The function wrapped() of set_transport_disconnect_callback.
LostWakes ==
    /\ connected' = FALSE /\ initialized' = FALSE
    /\ slot' = "none" /\ event' = TRUE /\ sendFailed' = FALSE
    /\ th' = Woken

\* The client is told; then the service, whose stop runs in this thread too.
RxNotifies ==
    /\ receiver = "notify"
    /\ IF callbacks THEN LostWakes ELSE UNCHANGED <<connected, initialized, slot, event, sendFailed, th>>
    /\ receiver' = IF callbacks /\ stage = "serving" THEN "told" ELSE "off"
    /\ UNCHANGED <<sock, stopRx, finish, lifeVars, wireVars, abandoned, countVars>>

RxCallsBack ==
    /\ receiver = "told"
    /\ IF callbacks /\ stage = "serving" /\ th[Stopper].pc = "idle"
       THEN /\ receiver' = "callback" /\ callbacks' = FALSE /\ stage' = "over"
            /\ Goto(Stopper, "close")
       ELSE receiver' = "off" /\ UNCHANGED <<callbacks, stage, th>>
    /\ UNCHANGED <<sock, stopRx, connected, initialized, slotVars, inits, holder, wireVars, histVars,
                   countVars>>

-----------------------------------------------------------------------------
(* ScannerService._stop_unlocked from another thread: the callbacks go     *)
(* first, then release (or not), then disconnect, without the command lock.*)

StopBegins ==
    /\ th[Stopper].pc = "idle" /\ stage = "serving" /\ commands < MaxCommands
    /\ stage' = "over" /\ callbacks' = FALSE
    /\ \/ /\ th' = [th EXCEPT ![Stopper] =
                      [Idle EXCEPT !.pc = "check", !.name = "release", !.id = commands + 1]]
          /\ commands' = commands + 1
       \/ Goto(Stopper, "close") /\ UNCHANGED commands
    /\ UNCHANGED <<linkVars, initialized, slotVars, inits, holder, wireVars, histVars, losses, offline>>

StopReleased ==
    /\ th[Stopper].pc = "done"
    /\ initialized' = FALSE
    /\ Goto(Stopper, "close")
    /\ UNCHANGED <<linkVars, slotVars, lifeVars, wireVars, histVars, countVars>>

-----------------------------------------------------------------------------
(* External: the SDK process and the network. *)

SdkTakes ==
    /\ sdk.id = 0 /\ toSdk # <<>>
    /\ sdk' = Head(toSdk) /\ toSdk' = Tail(toSdk)
    /\ UNCHANGED <<linkVars, initialized, slotVars, lifeVars, th, fromSdk, histVars, countVars>>

\* It answers on the connection there is, if there is one, or never.
SdkEnds ==
    /\ sdk.id # 0
    /\ sdk' = [name |-> "none", id |-> 0]
    /\ \/ \E kind \in Answers(sdk.name), good \in BOOLEAN :
             /\ sock = "up"
             /\ fromSdk' = Append(fromSdk, [kind |-> kind, id |-> sdk.id, good |-> good])
       \/ UNCHANGED fromSdk
    /\ UNCHANGED <<linkVars, initialized, slotVars, lifeVars, th, toSdk, histVars, countVars>>

DeviceOffline ==
    /\ sock = "up" /\ offline < MaxOffline
    /\ fromSdk' = Append(fromSdk, [kind |-> <<"deviceStatus", "">>, id |-> 0, good |-> FALSE])
    /\ offline' = offline + 1
    /\ UNCHANGED <<linkVars, initialized, slotVars, lifeVars, th, toSdk, sdk, histVars, commands, losses>>

\* What was not read yet may or may not still arrive.
LoseLink ==
    /\ sock = "up" /\ losses < MaxLosses
    /\ sock' = "dead" /\ toSdk' = <<>>
    /\ fromSdk' \in {fromSdk, <<>>}
    /\ losses' = losses + 1
    /\ UNCHANGED <<stopRx, receiver, connected, initialized, slotVars, lifeVars, th, sdk, histVars,
                   commands, offline>>

-----------------------------------------------------------------------------
\* The starting thread has connected and holds the command lock.
Init ==
    /\ sock = "up" /\ stopRx = FALSE /\ receiver = "run" /\ connected = TRUE
    /\ initialized = FALSE
    /\ slot = "none" /\ event = FALSE /\ finish = NoMessage
    /\ callbacks = TRUE /\ stage = "release" /\ inits = 0 /\ holder \in Users
    /\ th = [t \in Threads |-> Idle]
    /\ toSdk = <<>> /\ sdk = [name |-> "none", id |-> 0] /\ fromSdk = <<>>
    /\ abandoned = {} /\ sendFailed = FALSE
    /\ commands = 0 /\ losses = 0 /\ offline = 0

SendCommand(t) ==
    \/ LooksAtLink(t) \/ ClaimsSlot(t) \/ Refused(t) \/ Sends(t) \/ SendFails(t)
    \/ Waits(t) \/ TimesOut(t) \/ GivesUp(t) \/ Reads(t) \/ MarksInit(t)
Starts(u) ==
    StaleReleased(u) \/ InitSucceeds(u) \/ InitRecovers(u) \/ StartFails(u) \/ Serves(u)
Reconnects(t) == Closes(t) \/ Joins(t)
Receiver == RxStops \/ RxHandles \/ RxOffline \/ RxLost \/ RxNotifies \/ RxCallsBack

Next ==
    \/ \E t \in Threads : SendCommand(t) \/ Reconnects(t)
    \/ \E u \in Users : \/ \E name \in AllNames : Calls(u, name)
                        \/ Starts(u) \/ Continues(u) \/ Unlocks(u) \/ Dials(u) \/ DialFails(u)
    \/ Receiver
    \/ StopBegins \/ StopReleased
    \/ SdkTakes \/ SdkEnds \/ DeviceOffline \/ LoseLink

Spec == Init /\ [][Next]_vars

\* The threads run; a timeout comes in the end.  The SDK owes no answer.
Fairness ==
    /\ \A t \in Threads : WF_vars(SendCommand(t)) /\ WF_vars(Reconnects(t))
    /\ WF_vars(Receiver)
FairSpec == Spec /\ Fairness

-----------------------------------------------------------------------------
(* Properties. *)

Kinds == {<<"none", "none">>, <<"deviceStatus", "">>} \cup UNION {Answers(n) : n \in AllNames}
Messages == [kind : Kinds, id : 0..MaxCommands, good : BOOLEAN]
Requests == [name : AllNames \cup {"none"}, id : 0..MaxCommands]

Places == {"idle", "check", "claim", "send", "sent", "wait", "read", "timedOut",
           "mark", "done", "close", "join", "dial", "redial", "gone"}
Outcomes == {"none", "ok", "failed", "timeout", "refused", "unlinked"}
Locals == [pc : Places, name : AllNames \cup {"none"}, id : 0..MaxCommands,
           got : Messages, out : Outcomes]

LinkTypeOK ==
    /\ sock \in {"none", "up", "dead"} /\ stopRx \in BOOLEAN
    /\ receiver \in {"off", "run", "notify", "told", "callback"}
    /\ connected \in BOOLEAN /\ initialized \in BOOLEAN
SlotTypeOK == slot \in AllNames \cup {"none"} /\ event \in BOOLEAN /\ finish \in Messages
LifeTypeOK ==
    /\ stage \in {"release", "init", "params", "serving", "over"}
    /\ callbacks \in BOOLEAN /\ inits \in 0..MaxInits /\ holder \in Users \cup {NoUser}
ThreadTypeOK == th \in [Threads -> Locals]
WireTypeOK == toSdk \in Seq(Requests) /\ sdk \in Requests /\ fromSdk \in Seq(Messages)
CountTypeOK ==
    /\ commands \in 0..MaxCommands /\ losses \in 0..MaxLosses /\ offline \in 0..MaxOffline
    /\ abandoned \subseteq 0..MaxCommands /\ sendFailed \in BOOLEAN

\* The fields of the client and its transport, the threads' locals and the
\* messages keep their domains; init is tried no more often than configured.
TypeOK ==
    LinkTypeOK /\ SlotTypeOK /\ LifeTypeOK /\ ThreadTypeOK /\ WireTypeOK /\ CountTypeOK

\* A command that is reported done without a finish message: the connection
\* was found lost while it waited, or somebody is stopping the client.
SilentOnlyWhenCut ==
    \A u \in Users :
        th[u].pc \in {"mark", "done"} /\ th[u].out = "ok" /\ th[u].got = NoMessage
          => ~connected \/ th[Stopper].pc # "idle"

\* Until somebody stops the client, send_command reports the outcome of its own
\* command, or of an earlier one of the same name whose caller had left without
\* the answer.  (A release sent by a stop may slip in before the result is read.)
AnswerIsOwnOrLate ==
    \A u \in Users :
        th[Stopper].pc = "idle" /\ th[u].pc \in {"mark", "done"} /\ th[u].got # NoMessage
          => /\ th[u].got.kind \in Answers(th[u].name)
             /\ th[u].got.id \in {th[u].id} \cup abandoned

\* "Still running" is said only while a thread is in that command, or after one
\* whose send failed.
SlotHasUser ==
    slot # "none"
      => \/ sendFailed
         \/ \E t \in Threads : th[t].name = slot /\ th[t].pc \in {"send", "sent", "wait", "timedOut"}

\* A command that waits without a timeout ends too when the connection is lost,
\* if its receiver has yet to say so and nobody stops the client before it does.
\* (One that is sent after the loss was told waits for ever.)
LossEndsWait ==
    [](th[Stopper].pc = "idle" \/ ~connected)
      => \A u \in Users :
            (sock = "dead" /\ receiver \in {"run", "notify"} /\ th[u].pc = "wait")
              ~> th[u].pc # "wait"
=============================================================================
