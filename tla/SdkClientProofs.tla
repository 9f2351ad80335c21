-------------------------- MODULE SdkClientProofs --------------------------
(***************************************************************************)
(* Proofs about SdkClient, for any users, names and bounds.                *)
(*                                                                         *)
(* The command lock keeps the users apart, the Stopper passes it by.  What *)
(* a command reports is therefore claimed only until a stop begins; what   *)
(* the slot says is claimed always.                                        *)
(***************************************************************************)
EXTENDS SdkClient, SequenceTheorems, TLAPS

Commanding == {"check", "claim", "send", "sent", "wait", "read", "timedOut", "mark"}

\* A thread in send_command has a command, and so has every request.
ThreadNamed(t) == th[t].pc \in Commanding => th[t].name \in AllNames /\ th[t].id # 0
Given == [name : AllNames, id : 1..MaxCommands]
Read == {m \in Messages : m.kind # <<"deviceStatus", "">> => m.id # 0}
RequestsNamed == toSdk \in Seq(Given) /\ (sdk.id # 0 => sdk \in Given)
MessagesNamed == fromSdk \in Seq(Read)
NamedOK == (\A t \in Threads : ThreadNamed(t)) /\ RequestsNamed /\ MessagesNamed

TypeInv == TypeOK /\ NamedOK

-----------------------------------------------------------------------------
(* What the steps do to the threads. *)

\* Thread t is now at p; its command is the same.
Now(t, p) ==
    /\ th' \in [Threads -> Locals]
    /\ \A s \in Threads \ {t} : th'[s] = th[s]
    /\ th'[t].pc = p /\ th'[t].name = th[t].name /\ th'[t].id = th[t].id

LEMMA ThreadFacts ==
    /\ Users \subseteq Threads /\ Stopper \in Threads /\ Stopper \notin Users
    /\ Threads \subseteq Users \cup {Stopper} /\ NoUser \notin Threads
    /\ MaxCommands \in Nat /\ MaxInits \in Nat /\ MaxLosses \in Nat /\ MaxOffline \in Nat
BY ThreadAssumption, BoundAssumption DEF Threads

LEMMA NameFacts ==
    "none" \notin AllNames /\ Names \subseteq AllNames /\ "init" \in AllNames /\ "release" \in AllNames
BY NameAssumption DEF AllNames

LEMMA IdleFacts ==
    /\ NoMessage \in Messages /\ Idle \in Locals
    /\ NoMessage.id = 0 /\ NoMessage.kind = <<"none", "none">>
    /\ Idle.pc = "idle" /\ Idle.name = "none" /\ Idle.id = 0 /\ Idle.got = NoMessage /\ Idle.out = "none"
<1>1. NoMessage \in Messages
  BY ThreadFacts DEF NoMessage, Messages, Kinds
<1>2. NoMessage.id = 0 /\ NoMessage.kind = <<"none", "none">>
  BY DEF NoMessage
<1> HIDE DEF NoMessage
<1>3. QED  BY <1>1, <1>2, ThreadFacts DEF Idle, Locals, Places, Outcomes

\* The locals of a thread that begins a command.
LEMMA Begun ==
    ASSUME NEW n \in AllNames, NEW k \in 1..MaxCommands
    PROVE  LET m == [Idle EXCEPT !.pc = "check", !.name = n, !.id = k]
           IN  m \in Locals /\ m.pc = "check" /\ m.name = n /\ m.id = k /\ k # 0 /\ m.got = NoMessage
<1>1. k \in 0..MaxCommands /\ k # 0
  BY ThreadFacts
<1>2. "check" \in Places
  BY DEF Places
<1>3. QED  BY <1>1, <1>2, IdleFacts DEF Locals

LEMMA NowGoto ==
    ASSUME th \in [Threads -> Locals], NEW t \in Threads, NEW p \in Places, Goto(t, p)
    PROVE  Now(t, p) /\ th'[t].got = th[t].got /\ th'[t].out = th[t].out
BY DEF Goto, Now, Locals

LEMMA NowReturns ==
    ASSUME th \in [Threads -> Locals], NEW t \in Threads, NEW out \in Outcomes, Returns(t, out)
    PROVE  Now(t, "done") /\ th'[t].got = th[t].got /\ th'[t].out = out
BY DEF Returns, Now, Locals, Places

LEMMA NowNew ==
    ASSUME th \in [Threads -> Locals], NEW t \in Threads, NEW new \in Locals, th' = [th EXCEPT ![t] = new]
    PROVE  th' \in [Threads -> Locals] /\ th'[t] = new /\ \A s \in Threads \ {t} : th'[s] = th[s]
OBVIOUS

\* A wake moves the waiting threads to the reading of the result.
LEMMA Wakes ==
    ASSUME th \in [Threads -> Locals]
    PROVE  /\ Woken \in [Threads -> Locals]
           /\ \A s \in Threads :
                 /\ Woken[s].pc = IF th[s].pc = "wait" THEN "read" ELSE th[s].pc
                 /\ th[s].pc # "wait" => Woken[s] = th[s]
                 /\ Woken[s].name = th[s].name /\ Woken[s].id = th[s].id
                 /\ Woken[s].got = th[s].got /\ Woken[s].out = th[s].out
<1>1. ASSUME NEW s \in Threads
      PROVE  [th[s] EXCEPT !.pc = "read"] \in Locals
  BY DEF Locals, Places
<1>2. QED  BY <1>1 DEF Woken, Locals

-----------------------------------------------------------------------------
(* The fields and the threads' locals. *)

FieldsTypeOK == LinkTypeOK /\ SlotTypeOK /\ LifeTypeOK /\ CountTypeOK

\* A step that leaves the messages alone.
LEMMA TypeStep ==
    ASSUME TypeInv, FieldsTypeOK', UNCHANGED wireVars, th' \in [Threads -> Locals],
           \A t \in Threads : ThreadNamed(t)'
    PROVE  TypeInv'
BY DEF TypeInv, TypeOK, FieldsTypeOK, NamedOK, RequestsNamed, MessagesNamed, wireVars, WireTypeOK, ThreadTypeOK

\* The thread goes on with the command it has, or has none.
LEMMA NamedStep ==
    ASSUME TypeInv, NEW t \in Threads, NEW p \in Places, Now(t, p),
           p \in Commanding => th[t].pc \in Commanding
    PROVE  th' \in [Threads -> Locals] /\ \A s \in Threads : ThreadNamed(s)'
BY DEF TypeInv, NamedOK, ThreadNamed, Now

LEMMA NamedWoken ==
    ASSUME TypeInv, th' = Woken
    PROVE  th' \in [Threads -> Locals] /\ \A s \in Threads : ThreadNamed(s)'
BY Wakes DEF TypeInv, TypeOK, ThreadTypeOK, NamedOK, ThreadNamed, Commanding

LEMMA TypeCommand ==
    ASSUME TypeInv, NEW t \in Threads, SendCommand(t)
    PROVE  TypeInv'
<1>0. th \in [Threads -> Locals] /\ th[t] \in Locals /\ ThreadNamed(t) /\ FieldsTypeOK
  BY DEF TypeInv, TypeOK, ThreadTypeOK, NamedOK, FieldsTypeOK
<1>1. CASE LooksAtLink(t)
  <2>1. \E p \in {"claim", "done"} : Now(t, p)
    BY <1>0, <1>1, NowGoto, NowReturns DEF LooksAtLink, Places, Outcomes
  <2>2. th' \in [Threads -> Locals] /\ \A s \in Threads : ThreadNamed(s)'
    BY <1>1, <2>1, NamedStep DEF LooksAtLink, Commanding, Places
  <2>3. QED
    BY <1>0, <1>1, <2>2, TypeStep DEF LooksAtLink, FieldsTypeOK, linkVars, LinkTypeOK, slotVars, SlotTypeOK,
       lifeVars, LifeTypeOK, histVars, countVars, CountTypeOK
<1>2. CASE ClaimsSlot(t)
  <2>1. Now(t, "send")
    BY <1>0, <1>2, NowGoto DEF ClaimsSlot, Places
  <2>2. th' \in [Threads -> Locals] /\ \A s \in Threads : ThreadNamed(s)'
    BY <1>2, <2>1, NamedStep DEF ClaimsSlot, Commanding, Places
  <2>3. slot' \in AllNames
    BY <1>0, <1>2 DEF ClaimsSlot, ThreadNamed, Commanding
  <2>4. QED
    BY <1>0, <1>2, <2>2, <2>3, IdleFacts, TypeStep DEF ClaimsSlot, FieldsTypeOK, linkVars, LinkTypeOK, SlotTypeOK,
       lifeVars, LifeTypeOK, countVars, CountTypeOK
<1>3. CASE Refused(t)
  <2>1. Now(t, "done")
    BY <1>0, <1>3, NowReturns DEF Refused, Outcomes
  <2>2. th' \in [Threads -> Locals] /\ \A s \in Threads : ThreadNamed(s)'
    BY <1>3, <2>1, NamedStep DEF Refused, Commanding, Places
  <2>3. QED
    BY <1>0, <1>3, <2>2, TypeStep DEF Refused, FieldsTypeOK, linkVars, LinkTypeOK, slotVars, SlotTypeOK,
       lifeVars, LifeTypeOK, histVars, countVars, CountTypeOK
<1>4. CASE Sends(t)
  <2>1. Now(t, "sent")
    BY <1>0, <1>4, NowGoto DEF Sends, Places
  <2>2. th' \in [Threads -> Locals] /\ \A s \in Threads : ThreadNamed(s)'
    BY <1>4, <2>1, NamedStep DEF Sends, Commanding, Places
  <2> DEFINE e == [name |-> th[t].name, id |-> th[t].id]
  <2>3. e \in Requests /\ e \in Given
    BY <1>0, <1>4, ThreadFacts DEF Sends, Requests, Given, Locals, ThreadNamed, Commanding
  <2>4. toSdk' = toSdk \/ toSdk' = Append(toSdk, e)
    BY <1>4 DEF Sends
  <2> HIDE DEF e
  <2>5. toSdk' \in Seq(Requests) /\ toSdk' \in Seq(Given)
    <3>1. toSdk \in Seq(Requests) /\ toSdk \in Seq(Given)
      BY DEF TypeInv, TypeOK, WireTypeOK, NamedOK, RequestsNamed
    <3>2. Append(toSdk, e) \in Seq(Requests)
      BY <2>3, <3>1, AppendProperties
    <3>3. Append(toSdk, e) \in Seq(Given)
      BY <2>3, <3>1, AppendProperties
    <3>4. QED  BY <2>4, <3>1, <3>2, <3>3
  <2>6. FieldsTypeOK'
    BY <1>0, <1>4 DEF Sends, FieldsTypeOK, linkVars, LinkTypeOK, slotVars, SlotTypeOK,
       lifeVars, LifeTypeOK, histVars, countVars, CountTypeOK
  <2>7. QED
    BY <1>4, <2>2, <2>5, <2>6 DEF Sends, TypeInv, TypeOK, FieldsTypeOK, ThreadTypeOK, WireTypeOK, NamedOK,
       RequestsNamed, MessagesNamed
<1>5. CASE SendFails(t)
  <2>1. Now(t, "done")
    BY <1>0, <1>5, NowReturns DEF SendFails, Outcomes
  <2>2. th' \in [Threads -> Locals] /\ \A s \in Threads : ThreadNamed(s)'
    BY <1>5, <2>1, NamedStep DEF SendFails, Commanding, Places
  <2>3. QED
    BY <1>0, <1>5, <2>2, TypeStep DEF SendFails, FieldsTypeOK, linkVars, LinkTypeOK, slotVars, SlotTypeOK,
       lifeVars, LifeTypeOK, countVars, CountTypeOK
<1>6. CASE Waits(t) \/ TimesOut(t)
  <2>1. th[t].pc \in Commanding /\ \E p \in {"read", "wait", "timedOut"} : Now(t, p)
    BY <1>0, <1>6, NowGoto DEF Waits, TimesOut, Places, Commanding
  <2>2. th' \in [Threads -> Locals] /\ \A s \in Threads : ThreadNamed(s)'
    BY <2>1, NamedStep DEF Places
  <2>3. QED
    <3>1. UNCHANGED <<linkVars, initialized, slotVars, lifeVars, wireVars, histVars, countVars>>
      BY <1>6 DEF Waits, TimesOut
    <3>2. FieldsTypeOK' /\ UNCHANGED wireVars
      BY <1>0, <3>1 DEF FieldsTypeOK, linkVars, LinkTypeOK, slotVars, SlotTypeOK,
         lifeVars, LifeTypeOK, histVars, countVars, CountTypeOK
    <3>3. QED  BY <2>2, <3>2, TypeStep
<1>7. CASE GivesUp(t)
  <2>1. Woken[t] = th[t]
    BY <1>0, <1>7, Wakes DEF GivesUp
  <2>2. th' \in [Threads -> Locals] /\ \A s \in Threads : ThreadNamed(s)'
    BY <1>0, <1>7, <2>1, Wakes DEF GivesUp, TypeInv, NamedOK, ThreadNamed, Commanding, Locals, Places, Outcomes
  <2>3. QED
    BY <1>0, <1>7, <2>2, TypeStep DEF GivesUp, FieldsTypeOK, linkVars, LinkTypeOK, SlotTypeOK,
       lifeVars, LifeTypeOK, countVars, CountTypeOK, Locals
<1>8. CASE Reads(t)
  <2>1. \E p \in {"mark", "done"} : Now(t, p)
    BY <1>0, <1>8 DEF Reads, Now, Locals, Places, Outcomes, FieldsTypeOK, SlotTypeOK
  <2>2. th' \in [Threads -> Locals] /\ \A s \in Threads : ThreadNamed(s)'
    BY <1>8, <2>1, NamedStep DEF Reads, Commanding, Places
  <2>3. QED
    BY <1>0, <1>8, <2>2, TypeStep DEF Reads, FieldsTypeOK, linkVars, LinkTypeOK, slotVars, SlotTypeOK,
       lifeVars, LifeTypeOK, countVars, CountTypeOK, Locals
<1>9. CASE MarksInit(t)
  <2>1. Now(t, "done")
    BY <1>0, <1>9, NowGoto DEF MarksInit, Places
  <2>2. th' \in [Threads -> Locals] /\ \A s \in Threads : ThreadNamed(s)'
    BY <1>9, <2>1, NamedStep DEF MarksInit, Commanding, Places
  <2>3. QED
    BY <1>0, <1>9, <2>2, TypeStep DEF MarksInit, FieldsTypeOK, linkVars, LinkTypeOK, slotVars, SlotTypeOK,
       lifeVars, LifeTypeOK, histVars, countVars, CountTypeOK
<1>10. QED
  BY <1>1, <1>2, <1>3, <1>4, <1>5, <1>6, <1>7, <1>8, <1>9 DEF SendCommand

\* A thread that is given a new command, or none.
LEMMA NamedNew ==
    ASSUME TypeInv, NEW t \in Threads, NEW new \in Locals, th' = [th EXCEPT ![t] = new],
           new.pc \in Commanding => new.name \in AllNames /\ new.id # 0
    PROVE  th' \in [Threads -> Locals] /\ \A s \in Threads : ThreadNamed(s)'
BY NowNew DEF TypeInv, TypeOK, ThreadTypeOK, NamedOK, ThreadNamed

LEMMA TypeCalls ==
    ASSUME TypeInv, NEW u \in Users, NEW name \in AllNames, Calls(u, name)
    PROVE  TypeInv'
<1>0. FieldsTypeOK /\ u \in Threads
  BY ThreadFacts DEF TypeInv, TypeOK, FieldsTypeOK
<1> DEFINE new == [Idle EXCEPT !.pc = "check", !.name = name, !.id = commands + 1]
<1>1. commands + 1 \in 1..MaxCommands
  BY <1>0, ThreadFacts DEF Calls, FieldsTypeOK, CountTypeOK
<1>2. new \in Locals /\ new.name = name /\ new.id # 0
  BY <1>1, Begun
<1>3. th' = [th EXCEPT ![u] = new]
  BY DEF Calls
<1> HIDE DEF new
<1>4. th' \in [Threads -> Locals] /\ \A s \in Threads : ThreadNamed(s)'
  BY <1>0, <1>2, <1>3, NamedNew
<1>5. inits' \in 0..MaxInits
  BY <1>0, ThreadFacts, NameFacts, NameAssumption DEF Calls, MayCall, TriesLeft, FieldsTypeOK, LifeTypeOK
<1>6. QED
  BY <1>0, <1>1, <1>4, <1>5, ThreadFacts, TypeStep DEF Calls, FieldsTypeOK, linkVars, LinkTypeOK, slotVars, SlotTypeOK,
     LifeTypeOK, histVars, CountTypeOK

LEMMA TypeStarts ==
    ASSUME TypeInv, NEW u \in Users, Starts(u)
    PROVE  TypeInv'
<1>0. th \in [Threads -> Locals] /\ th[u] \in Locals /\ FieldsTypeOK /\ u \in Threads
  BY ThreadFacts DEF TypeInv, TypeOK, ThreadTypeOK, FieldsTypeOK
<1>1. CASE StaleReleased(u)
  <2>1. Now(u, "close")
    BY <1>0, <1>1, ThreadFacts, NowGoto DEF StaleReleased, Places
  <2>2. th' \in [Threads -> Locals] /\ \A s \in Threads : ThreadNamed(s)'
    BY <1>1, <2>1, <1>0, NamedStep DEF StaleReleased, Commanding, Places
  <2>3. QED
    BY <1>0, <1>1, <2>2, IdleFacts, TypeStep DEF StaleReleased, FieldsTypeOK, linkVars, LinkTypeOK, SlotTypeOK,
       lifeVars, LifeTypeOK, countVars, CountTypeOK, ResetCommandState, slotVars
<1>2. CASE InitSucceeds(u)
  <2>1. th' \in [Threads -> Locals] /\ \A s \in Threads : ThreadNamed(s)'
    BY <1>2, IdleFacts, <1>0, NamedNew DEF InitSucceeds, Commanding
  <2>2. QED
    BY <1>0, <1>2, <2>1, TypeStep DEF InitSucceeds, FieldsTypeOK, linkVars, LinkTypeOK, slotVars, SlotTypeOK,
       LifeTypeOK, histVars, countVars, CountTypeOK
<1>3. CASE InitRecovers(u)
  <2>1. Now(u, "close")
    BY <1>0, <1>3, ThreadFacts, NowGoto DEF InitRecovers, Places
  <2>2. th' \in [Threads -> Locals] /\ \A s \in Threads : ThreadNamed(s)'
    BY <1>3, <2>1, <1>0, NamedStep DEF InitRecovers, Commanding, Places
  <2>3. QED
    BY <1>0, <1>3, <2>2, IdleFacts, TypeStep DEF InitRecovers, FieldsTypeOK, linkVars, LinkTypeOK, SlotTypeOK,
       lifeVars, LifeTypeOK, countVars, CountTypeOK, ResetCommandState
<1>4. CASE StartFails(u)
  <2>1. Now(u, "close")
    BY <1>0, <1>4, ThreadFacts, NowGoto DEF StartFails, Places
  <2>2. th' \in [Threads -> Locals] /\ \A s \in Threads : ThreadNamed(s)'
    BY <1>4, <2>1, <1>0, NamedStep DEF StartFails, Commanding, Places
  <2>3. QED
    BY <1>0, <1>4, <2>2, TypeStep DEF StartFails, FieldsTypeOK, linkVars, LinkTypeOK, slotVars, SlotTypeOK,
       LifeTypeOK, histVars, countVars, CountTypeOK
<1>5. CASE Serves(u)
  <2>1. th' \in [Threads -> Locals] /\ \A s \in Threads : ThreadNamed(s)'
    BY <1>0, <1>5 DEF Serves, TypeInv, NamedOK, ThreadNamed
  <2>2. QED
    BY <1>0, <1>5, <2>1, TypeStep DEF Serves, FieldsTypeOK, linkVars, LinkTypeOK, slotVars, SlotTypeOK,
       LifeTypeOK, histVars, countVars, CountTypeOK
<1>6. QED  BY <1>1, <1>2, <1>3, <1>4, <1>5 DEF Starts

LEMMA TypeUser ==
    ASSUME TypeInv, NEW u \in Users, Continues(u) \/ Unlocks(u) \/ Dials(u) \/ DialFails(u)
    PROVE  TypeInv'
<1>0. th \in [Threads -> Locals] /\ th[u] \in Locals /\ FieldsTypeOK /\ u \in Threads
  BY ThreadFacts DEF TypeInv, TypeOK, ThreadTypeOK, FieldsTypeOK
<1>1. \E new \in Locals : th' = [th EXCEPT ![u] = new] /\ new.pc \notin Commanding
  <2>1. [Idle EXCEPT !.pc = "redial"] \in Locals /\ [Idle EXCEPT !.pc = "redial"].pc = "redial"
    BY IdleFacts DEF Locals, Places
  <2>2. QED  BY <2>1, IdleFacts DEF Continues, Unlocks, Dials, DialFails, Commanding
<1>2. th' \in [Threads -> Locals] /\ \A s \in Threads : ThreadNamed(s)'
  BY <1>0, <1>1, NamedNew
<1>3. FieldsTypeOK' /\ UNCHANGED wireVars
  <2>1. CASE Continues(u)
    BY <1>0, <2>1 DEF Continues, FieldsTypeOK, linkVars, LinkTypeOK, slotVars, SlotTypeOK, lifeVars, LifeTypeOK,
       histVars, countVars, CountTypeOK
  <2>2. CASE Unlocks(u)
    BY <1>0, <2>2 DEF Unlocks, FieldsTypeOK, linkVars, LinkTypeOK, slotVars, SlotTypeOK, LifeTypeOK,
       histVars, countVars, CountTypeOK
  <2>3. CASE Dials(u)
    BY <1>0, <2>3 DEF Dials, FieldsTypeOK, LinkTypeOK, slotVars, SlotTypeOK, LifeTypeOK, histVars, countVars,
       CountTypeOK
  <2>4. CASE DialFails(u)
    BY <1>0, <2>4 DEF DialFails, FieldsTypeOK, linkVars, LinkTypeOK, slotVars, SlotTypeOK, lifeVars, LifeTypeOK,
       histVars, countVars, CountTypeOK
  <2>5. QED  BY <2>1, <2>2, <2>3, <2>4
<1>4. QED  BY <1>2, <1>3, TypeStep

\* A step that changes the messages.
LEMMA TypeWire ==
    ASSUME TypeInv, FieldsTypeOK', th' \in [Threads -> Locals], \A s \in Threads : ThreadNamed(s)',
           toSdk' \in Seq(Given), fromSdk' \in Seq(Read), sdk' \in Requests, sdk'.id # 0 => sdk' \in Given
    PROVE  TypeInv'
<1>1. Given \subseteq Requests /\ Read \subseteq Messages
  <2>1. ASSUME NEW r \in Given PROVE r \in Requests
    BY ThreadFacts DEF Given, Requests
  <2>2. QED  BY <2>1 DEF Read
<1>2. toSdk' \in Seq(Requests) /\ fromSdk' \in Seq(Messages)
  BY <1>1, SeqMonotonic
<1>3. QED
  BY <1>2 DEF TypeInv, TypeOK, FieldsTypeOK, ThreadTypeOK, WireTypeOK, NamedOK, RequestsNamed, MessagesNamed

LEMMA TypeReconnects ==
    ASSUME TypeInv, NEW t \in Threads, Reconnects(t)
    PROVE  TypeInv'
<1>0. th \in [Threads -> Locals] /\ th[t] \in Locals /\ FieldsTypeOK
  BY ThreadFacts DEF TypeInv, TypeOK, ThreadTypeOK, FieldsTypeOK
<1>1. CASE Closes(t)
  <2>1. Now(t, "join")
    BY <1>0, <1>1, NowGoto DEF Closes, Places
  <2>2. th' \in [Threads -> Locals] /\ \A s \in Threads : ThreadNamed(s)'
    BY <1>1, <2>1, NamedStep DEF Commanding, Places
  <2>3. FieldsTypeOK'
    BY <1>0, <1>1 DEF Closes, FieldsTypeOK, LinkTypeOK, slotVars, SlotTypeOK, lifeVars, LifeTypeOK, histVars,
       countVars, CountTypeOK
  <2>4. toSdk' \in Seq(Given) /\ fromSdk' \in Seq(Read) /\ sdk' = sdk
    BY <1>1, EmptySeq DEF Closes
  <2>5. QED
    BY <2>2, <2>3, <2>4, TypeWire DEF TypeInv, TypeOK, WireTypeOK, NamedOK, RequestsNamed
<1>2. CASE Joins(t)
  <2>1. \E p \in {"dial", "gone"} : Now(t, p)
    BY <1>0, <1>2, NowGoto DEF Joins, Places
  <2>2. th' \in [Threads -> Locals] /\ \A s \in Threads : ThreadNamed(s)'
    BY <1>2, <2>1, NamedStep DEF Commanding, Places
  <2>3. QED
    <3>1. /\ UNCHANGED <<sock, stopRx, slotVars, lifeVars, wireVars, histVars, countVars>>
          /\ receiver' \in {"off", receiver} /\ connected' \in BOOLEAN /\ initialized' \in BOOLEAN
      BY <1>0, <1>2 DEF Joins, FieldsTypeOK, LinkTypeOK
    <3>2. FieldsTypeOK' /\ UNCHANGED wireVars
      BY <1>0, <3>1 DEF FieldsTypeOK, LinkTypeOK, slotVars, SlotTypeOK,
         lifeVars, LifeTypeOK, histVars, countVars, CountTypeOK
    <3>3. QED  BY <2>2, <3>2, TypeStep
<1>3. QED  BY <1>1, <1>2 DEF Reconnects

LEMMA AnswerFacts ==
    ASSUME NEW name \in AllNames, NEW kind \in Answers(name)
    PROVE  kind \in Kinds /\ kind # <<"none", "none">> /\ kind # <<"deviceStatus", "">>
<1>1. kind \in Kinds
  BY DEF Kinds
<1>2. name # "deviceStatus" /\ name # "none"
  BY NameAssumption DEF AllNames
<1>3. kind # <<"none", "none">> /\ kind # <<"deviceStatus", "">>
  <2>1. kind \in {<<name, "Finish">>, <<"loadP3", "Finish">>, <<"showMainView", "">>, <<"scanFinish", "">>,
                  <<"scanException", "">>}
    <3>1. CASE name = "loadFramework"  BY <3>1 DEF Answers
    <3>2. CASE name = "init"  BY <3>2 DEF Answers
    <3>3. CASE name = "startScan"  BY <3>3 DEF Answers
    <3>4. CASE name \notin {"loadFramework", "init", "startScan"}  BY <3>4 DEF Answers
    <3>5. QED  BY <3>1, <3>2, <3>3, <3>4
  <2>2. <<name, "Finish">> # <<"none", "none">> /\ <<name, "Finish">> # <<"deviceStatus", "">>
    BY <1>2
  <2>3. /\ <<"loadP3", "Finish">> # <<"none", "none">> /\ <<"loadP3", "Finish">> # <<"deviceStatus", "">>
        /\ <<"showMainView", "">> # <<"none", "none">> /\ <<"showMainView", "">> # <<"deviceStatus", "">>
        /\ <<"scanFinish", "">> # <<"none", "none">> /\ <<"scanFinish", "">> # <<"deviceStatus", "">>
        /\ <<"scanException", "">> # <<"none", "none">> /\ <<"scanException", "">> # <<"deviceStatus", "">>
    OBVIOUS
  <2>4. QED  BY <2>1, <2>2, <2>3
<1>4. QED  BY <1>1, <1>3

LEMMA TypeReceiver ==
    ASSUME TypeInv, Receiver
    PROVE  TypeInv'
<1>0. /\ th \in [Threads -> Locals] /\ FieldsTypeOK /\ Stopper \in Threads /\ \A t \in Threads : ThreadNamed(t)
      /\ toSdk \in Seq(Given) /\ fromSdk \in Seq(Read) /\ sdk \in Requests /\ (sdk.id # 0 => sdk \in Given)
  BY ThreadFacts DEF TypeInv, TypeOK, ThreadTypeOK, FieldsTypeOK, NamedOK, RequestsNamed, MessagesNamed, WireTypeOK
<1>a. fromSdk # <<>> => Head(fromSdk) \in Read /\ Tail(fromSdk) \in Seq(Read)
  BY <1>0, HeadTailProperties
<1>b. Read \subseteq Messages
  BY DEF Read
<1>1. CASE RxStops \/ RxLost
  <2>1. \A s \in Threads : ThreadNamed(s)'
    BY <1>0, <1>1 DEF RxStops, RxLost, ThreadNamed
  <2>2. FieldsTypeOK' /\ UNCHANGED <<th, wireVars>>
    <3>1. CASE RxStops
      BY <1>0, <3>1 DEF RxStops, FieldsTypeOK, LinkTypeOK, slotVars, SlotTypeOK, lifeVars, LifeTypeOK, histVars,
         countVars, CountTypeOK
    <3>2. CASE RxLost
      BY <1>0, <3>2 DEF RxLost, FieldsTypeOK, LinkTypeOK, slotVars, SlotTypeOK, lifeVars, LifeTypeOK, histVars,
         countVars, CountTypeOK
    <3>3. QED  BY <1>1, <3>1, <3>2
  <2>3. QED  BY <1>0, <2>1, <2>2, TypeStep
<1>2. CASE RxHandles
  <2>1. th' \in [Threads -> Locals] /\ \A s \in Threads : ThreadNamed(s)'
    BY <1>0, <1>2, NamedWoken DEF RxHandles, ThreadNamed
  <2>2. FieldsTypeOK'
    BY <1>0, <1>2, <1>a, <1>b DEF RxHandles, FieldsTypeOK, linkVars, LinkTypeOK, slotVars, SlotTypeOK, lifeVars,
       LifeTypeOK, countVars, CountTypeOK
  <2>3. QED
    BY <1>0, <1>2, <1>a, <2>1, <2>2, TypeWire DEF RxHandles
<1>3. CASE RxOffline
  <2>1. th' = th \/ Now(Stopper, "close")
    BY <1>0, <1>3, NowGoto DEF RxOffline, Places
  <2>2. th' \in [Threads -> Locals] /\ \A s \in Threads : ThreadNamed(s)'
    BY <1>0, <2>1, NamedStep DEF Commanding, Places, ThreadNamed
  <2>3. FieldsTypeOK'
    BY <1>0, <1>3 DEF RxOffline, FieldsTypeOK, LinkTypeOK, slotVars, SlotTypeOK, LifeTypeOK, histVars, countVars,
       CountTypeOK
  <2>4. QED
    BY <1>0, <1>3, <1>a, <2>2, <2>3, TypeWire DEF RxOffline
<1>4. CASE RxNotifies
  <2>1. th' \in [Threads -> Locals] /\ \A s \in Threads : ThreadNamed(s)'
    BY <1>0, <1>4, NamedWoken DEF RxNotifies, LostWakes, ThreadNamed
  <2>2. FieldsTypeOK' /\ UNCHANGED wireVars
    BY <1>0, <1>4 DEF RxNotifies, LostWakes, FieldsTypeOK, LinkTypeOK, slotVars, SlotTypeOK, lifeVars, LifeTypeOK,
       histVars, countVars, CountTypeOK
  <2>3. QED  BY <2>1, <2>2, TypeStep
<1>5. CASE RxCallsBack
  <2>1. th' = th \/ Now(Stopper, "close")
    BY <1>0, <1>5, NowGoto DEF RxCallsBack, Places
  <2>2. th' \in [Threads -> Locals] /\ \A s \in Threads : ThreadNamed(s)'
    BY <1>0, <2>1, NamedStep DEF Commanding, Places, ThreadNamed
  <2>3. /\ UNCHANGED <<sock, stopRx, connected, initialized, slotVars, inits, holder, wireVars, histVars, countVars>>
        /\ receiver' \in {"callback", "off"} /\ callbacks' \in {callbacks, FALSE} /\ stage' \in {stage, "over"}
    BY <1>5 DEF RxCallsBack
  <2>4. FieldsTypeOK' /\ UNCHANGED wireVars
    <3>1. LinkTypeOK'
      BY <1>0, <2>3 DEF FieldsTypeOK, LinkTypeOK
    <3>2. SlotTypeOK' /\ CountTypeOK'
      BY <1>0, <2>3 DEF FieldsTypeOK, slotVars, SlotTypeOK, histVars, countVars, CountTypeOK
    <3>3. LifeTypeOK'
      BY <1>0, <2>3 DEF FieldsTypeOK, LifeTypeOK
    <3>4. QED  BY <2>3, <3>1, <3>2, <3>3 DEF FieldsTypeOK
  <2>5. QED  BY <2>2, <2>4, TypeStep
<1>6. QED  BY <1>1, <1>2, <1>3, <1>4, <1>5 DEF Receiver

LEMMA TypeStops ==
    ASSUME TypeInv, StopBegins \/ StopReleased
    PROVE  TypeInv'
<1>0. th \in [Threads -> Locals] /\ FieldsTypeOK /\ Stopper \in Threads
  BY ThreadFacts DEF TypeInv, TypeOK, ThreadTypeOK, FieldsTypeOK
<1>1. CASE StopReleased
  <2>1. Now(Stopper, "close")
    BY <1>0, <1>1, NowGoto DEF StopReleased, Places
  <2>2. th' \in [Threads -> Locals] /\ \A s \in Threads : ThreadNamed(s)'
    BY <1>0, <2>1, NamedStep DEF Commanding, Places
  <2>3. UNCHANGED <<linkVars, slotVars, lifeVars, wireVars, histVars, countVars>> /\ initialized' = FALSE
    BY <1>1 DEF StopReleased
  <2>4. FieldsTypeOK' /\ UNCHANGED wireVars
    <3>1. LinkTypeOK'
      BY <1>0, <2>3 DEF FieldsTypeOK, linkVars, LinkTypeOK
    <3>2. SlotTypeOK' /\ CountTypeOK'
      BY <1>0, <2>3 DEF FieldsTypeOK, slotVars, SlotTypeOK, histVars, countVars, CountTypeOK
    <3>3. LifeTypeOK'
      BY <1>0, <2>3 DEF FieldsTypeOK, lifeVars, LifeTypeOK
    <3>4. QED  BY <2>3, <3>1, <3>2, <3>3 DEF FieldsTypeOK
  <2>5. QED  BY <2>2, <2>4, TypeStep
<1>2. CASE StopBegins
  <2> DEFINE new == [Idle EXCEPT !.pc = "check", !.name = "release", !.id = commands + 1]
  <2>1. commands + 1 \in 1..MaxCommands
    BY <1>0, <1>2, ThreadFacts DEF StopBegins, FieldsTypeOK, CountTypeOK
  <2>2. new \in Locals /\ new.name \in AllNames /\ new.id # 0
    <3>1. "release" \in AllNames
      BY NameFacts
    <3>2. QED  BY <2>1, <3>1, Begun
  <2>3. \/ th' = [th EXCEPT ![Stopper] = new] /\ commands' = commands + 1
        \/ Goto(Stopper, "close") /\ commands' = commands
    BY <1>2 DEF StopBegins
  <2> HIDE DEF new
  <2>4. th' \in [Threads -> Locals] /\ \A s \in Threads : ThreadNamed(s)'
    <3>1. CASE th' = [th EXCEPT ![Stopper] = new]
      BY <1>0, <2>2, <3>1, NamedNew
    <3>2. CASE Goto(Stopper, "close")
      <4>1. Now(Stopper, "close")
        BY <1>0, <3>2, NowGoto DEF Places
      <4>2. QED  BY <1>0, <4>1, NamedStep DEF Commanding, Places
    <3>3. QED  BY <2>3, <3>1, <3>2
  <2>5. commands' \in 0..MaxCommands
    BY <1>0, <2>1, <2>3 DEF FieldsTypeOK, CountTypeOK
  <2>6. FieldsTypeOK' /\ UNCHANGED wireVars
    BY <1>0, <1>2, <2>5 DEF StopBegins, FieldsTypeOK, linkVars, LinkTypeOK, slotVars, SlotTypeOK, LifeTypeOK,
       histVars, CountTypeOK
  <2>7. QED  BY <2>4, <2>6, TypeStep
<1>3. QED  BY <1>1, <1>2

LEMMA TypeSdk ==
    ASSUME TypeInv, SdkTakes \/ SdkEnds \/ DeviceOffline \/ LoseLink
    PROVE  TypeInv'
<1>0. /\ th \in [Threads -> Locals] /\ FieldsTypeOK /\ \A t \in Threads : ThreadNamed(t)
      /\ toSdk \in Seq(Given) /\ fromSdk \in Seq(Read) /\ sdk \in Requests /\ (sdk.id # 0 => sdk \in Given)
  BY DEF TypeInv, TypeOK, ThreadTypeOK, FieldsTypeOK, NamedOK, RequestsNamed, MessagesNamed, WireTypeOK
<1>a. Given \subseteq Requests
  BY ThreadFacts DEF Given, Requests
<1>b. UNCHANGED th => \A s \in Threads : ThreadNamed(s)'
  BY <1>0 DEF ThreadNamed
<1>1. CASE SdkTakes
  <2>1. Head(toSdk) \in Given /\ Tail(toSdk) \in Seq(Given)
    BY <1>0, <1>1, HeadTailProperties DEF SdkTakes
  <2>2. FieldsTypeOK'
    BY <1>0, <1>1 DEF SdkTakes, FieldsTypeOK, linkVars, LinkTypeOK, slotVars, SlotTypeOK, lifeVars, LifeTypeOK,
       histVars, countVars, CountTypeOK
  <2>3. QED  BY <1>0, <1>1, <1>a, <1>b, <2>1, <2>2, TypeWire DEF SdkTakes
<1>2. CASE SdkEnds
  <2>1. FieldsTypeOK'
    BY <1>0, <1>2 DEF SdkEnds, FieldsTypeOK, linkVars, LinkTypeOK, slotVars, SlotTypeOK, lifeVars, LifeTypeOK,
       histVars, countVars, CountTypeOK
  <2>2. sdk' \in Requests /\ sdk'.id = 0
    BY <1>2, ThreadFacts DEF SdkEnds, Requests
  <2>3. fromSdk' \in Seq(Read)
    <3>1. SUFFICES ASSUME NEW kind \in Answers(sdk.name), NEW good \in BOOLEAN,
                          fromSdk' = Append(fromSdk, [kind |-> kind, id |-> sdk.id, good |-> good])
                   PROVE  fromSdk' \in Seq(Read)
      BY <1>0, <1>2 DEF SdkEnds
    <3>2. sdk.name \in AllNames /\ sdk.id \in 1..MaxCommands
      BY <1>0, <1>2 DEF SdkEnds, Given
    <3>3. [kind |-> kind, id |-> sdk.id, good |-> good] \in Read
      <4>0. kind \in Kinds
        BY <3>1, <3>2, AnswerFacts
      <4>1. kind \in Kinds /\ sdk.id \in 0..MaxCommands /\ sdk.id # 0
        BY <3>2, <4>0, ThreadFacts
      <4>2. QED  BY <4>1 DEF Read, Messages
    <3>4. QED  BY <1>0, <3>1, <3>3, AppendProperties
  <2>4. QED  BY <1>0, <1>2, <1>b, <2>1, <2>2, <2>3, TypeWire DEF SdkEnds
<1>3. CASE DeviceOffline
  <2>1. FieldsTypeOK'
    <3>1. UNCHANGED <<linkVars, initialized, slotVars, lifeVars, histVars, commands, losses>> /\ offline' = offline + 1
          /\ offline < MaxOffline
      BY <1>3 DEF DeviceOffline
    <3>2. offline' \in 0..MaxOffline
      BY <1>0, <3>1, ThreadFacts DEF FieldsTypeOK, CountTypeOK
    <3>3. QED
      BY <1>0, <3>1, <3>2 DEF FieldsTypeOK, linkVars, LinkTypeOK, slotVars, SlotTypeOK, lifeVars, LifeTypeOK,
         histVars, CountTypeOK
  <2> DEFINE m == [kind |-> <<"deviceStatus", "">>, id |-> 0, good |-> FALSE]
  <2>2. m \in Read
    <3>1. <<"deviceStatus", "">> \in Kinds /\ 0 \in 0..MaxCommands
      BY ThreadFacts DEF Kinds
    <3>2. QED  BY <3>1 DEF Read, Messages
  <2>3. fromSdk' = Append(fromSdk, m)
    BY <1>3 DEF DeviceOffline
  <2> HIDE DEF m
  <2>4. fromSdk' \in Seq(Read)
    BY <1>0, <2>2, <2>3, AppendProperties
  <2>5. QED  BY <1>0, <1>3, <1>b, <2>1, <2>4, TypeWire DEF DeviceOffline
<1>4. CASE LoseLink
  <2>1. FieldsTypeOK'
    BY <1>0, <1>4, ThreadFacts DEF LoseLink, FieldsTypeOK, LinkTypeOK, slotVars, SlotTypeOK, lifeVars,
       LifeTypeOK, histVars, CountTypeOK
  <2>2. toSdk' \in Seq(Given) /\ fromSdk' \in Seq(Read)
    BY <1>0, <1>4, EmptySeq DEF LoseLink
  <2>3. QED  BY <1>0, <1>4, <1>b, <2>1, <2>2, TypeWire DEF LoseLink
<1>5. QED  BY <1>1, <1>2, <1>3, <1>4

LEMMA TypeInit == Init => TypeInv
<1> SUFFICES ASSUME Init PROVE TypeInv  OBVIOUS
<1>1. FieldsTypeOK
  <2>1. 0 \in 0..MaxCommands /\ 0 \in 0..MaxInits /\ 0 \in 0..MaxLosses /\ 0 \in 0..MaxOffline
    BY ThreadFacts
  <2>2. QED  BY <2>1, IdleFacts DEF Init, FieldsTypeOK, LinkTypeOK, SlotTypeOK, LifeTypeOK, CountTypeOK
<1>2. ThreadTypeOK /\ \A t \in Threads : ThreadNamed(t)
  BY IdleFacts DEF Init, ThreadTypeOK, ThreadNamed, Commanding
<1>3. WireTypeOK /\ RequestsNamed /\ MessagesNamed
  BY EmptySeq, ThreadFacts DEF Init, WireTypeOK, RequestsNamed, MessagesNamed, Requests
<1>4. QED  BY <1>1, <1>2, <1>3 DEF TypeInv, TypeOK, FieldsTypeOK, NamedOK

LEMMA TypeInvariance == Spec => []TypeInv
<1>1. TypeInv /\ [Next]_vars => TypeInv'
  <2> SUFFICES ASSUME TypeInv, [Next]_vars PROVE TypeInv'  OBVIOUS
  <2>1. CASE Next
    BY <2>1, TypeCommand, TypeCalls, TypeStarts, TypeUser, TypeReconnects, TypeReceiver, TypeStops, TypeSdk DEF Next
  <2>2. CASE UNCHANGED vars
    BY <2>2 DEF vars, linkVars, slotVars, lifeVars, wireVars, histVars, countVars, TypeInv, TypeOK, LinkTypeOK,
       SlotTypeOK, LifeTypeOK, ThreadTypeOK, WireTypeOK, CountTypeOK, NamedOK, ThreadNamed, RequestsNamed,
       MessagesNamed
  <2>3. QED  BY <2>1, <2>2
<1>2. QED  BY <1>1, TypeInit, PTL DEF Spec

\* The fields of the client and its transport, the threads' locals and the messages
\* keep their domains, and init is tried no more often than configured.
THEOREM TypeCorrect == Spec => []TypeOK
<1>1. TypeInv => TypeOK
  BY DEF TypeInv
<1>2. QED  BY <1>1, TypeInvariance, PTL

-----------------------------------------------------------------------------
(* The slot. *)

Busy == {"send", "sent", "wait", "timedOut"}

\* The event is set only with the slot emptied: who finds it set has not the slot.
SlotInv == (slot # "none" => ~event) /\ SlotHasUser

\* The command lock: a user that is not idle holds it.
Alone == \A u \in Users : th[u].pc # "idle" => holder = u

LEMMA AloneStep ==
    ASSUME Alone, holder' = holder, \A u \in Users : th'[u].pc # "idle" => th[u].pc # "idle"
    PROVE  Alone'
BY DEF Alone

\* The receiver wakes the users or leaves them alone; so does who stops the client.
LEMMA ReceiverThreads ==
    ASSUME th \in [Threads -> Locals], Receiver \/ StopBegins \/ StopReleased
    PROVE  (\A s \in Users : th'[s] = th[s]) \/ th' = Woken
<1>1. CASE RxStops \/ RxLost
  BY <1>1 DEF RxStops, RxLost
<1>2. CASE RxHandles \/ RxNotifies
  BY <1>2 DEF RxHandles, RxNotifies, LostWakes
<1>3. CASE RxOffline \/ RxCallsBack \/ StopReleased
  <2>1. th' = th \/ Goto(Stopper, "close")
    BY <1>3 DEF RxOffline, RxCallsBack, StopReleased
  <2>2. QED  BY <2>1, ThreadFacts DEF Goto
<1>4. CASE StopBegins
  <2>1. th' = [th EXCEPT ![Stopper] = [Idle EXCEPT !.pc = "check", !.name = "release", !.id = commands + 1]]
        \/ Goto(Stopper, "close")
    BY <1>4 DEF StopBegins
  <2>2. QED  BY <2>1, ThreadFacts DEF Goto
<1>5. QED  BY <1>1, <1>2, <1>3, <1>4 DEF Receiver

LEMMA AloneNext ==
    ASSUME TypeInv, Alone, Next
    PROVE  Alone'
<1>0. th \in [Threads -> Locals] /\ \A t \in Threads : th[t] \in Locals
  BY DEF TypeInv, TypeOK, ThreadTypeOK
<1>1. ASSUME NEW t \in Threads, SendCommand(t) PROVE Alone'
  <2>1. CASE GivesUp(t)
    <3>1. \A s \in Threads : th'[s].pc # "idle" => th[s].pc # "idle"
      BY <1>0, <2>1, Wakes DEF GivesUp, Locals
    <3>2. QED  BY <2>1, <3>1, AloneStep, ThreadFacts DEF GivesUp, lifeVars
  <2>2. CASE ~GivesUp(t)
    <3>1. th[t].pc # "idle" /\ (\A s \in Threads \ {t} : th'[s] = th[s]) /\ holder' = holder
      BY <1>0, <1>1, <2>2 DEF SendCommand, LooksAtLink, ClaimsSlot, Refused, Sends, SendFails, Waits, TimesOut, Reads,
         MarksInit, Goto, Returns, lifeVars
    <3>2. QED  BY <3>1, AloneStep, ThreadFacts
  <2>3. QED  BY <2>1, <2>2
<1>2. ASSUME NEW t \in Threads, Reconnects(t) PROVE Alone'
  <2>1. th[t].pc # "idle" /\ (\A s \in Threads \ {t} : th'[s] = th[s]) /\ holder' = holder
    BY <1>0, <1>2 DEF Reconnects, Closes, Joins, Goto, lifeVars
  <2>2. QED  BY <2>1, AloneStep, ThreadFacts
<1>3. ASSUME NEW u \in Users, NEW name \in AllNames, Calls(u, name) PROVE Alone'
  <2>1. holder' = u /\ holder \in {u, NoUser} /\ \A s \in Threads \ {u} : th'[s] = th[s]
    BY <1>0, <1>3 DEF Calls, MayCall
  <2>2. QED  BY <2>1, ThreadFacts DEF Alone
<1>4. ASSUME NEW u \in Users, Starts(u) PROVE Alone'
  <2>1. holder = u /\ \A s \in Threads \ {u} : th'[s] = th[s]
    BY <1>0, <1>4 DEF Starts, StaleReleased, InitSucceeds, InitRecovers, StartFails, Serves, Goto
  <2>2. CASE Serves(u)
    <3>1. th'[u].pc = "idle"
      BY <2>2 DEF Serves
    <3>2. QED  BY <2>1, <3>1, ThreadFacts DEF Alone
  <2>3. CASE ~Serves(u)
    <3>1. holder' = holder
      BY <1>4, <2>3 DEF Starts, StaleReleased, InitSucceeds, InitRecovers, StartFails, lifeVars
    <3>2. QED  BY <2>1, <3>1, ThreadFacts DEF Alone
  <2>4. QED  BY <2>2, <2>3
<1>5. ASSUME NEW u \in Users, Continues(u) \/ Dials(u) \/ DialFails(u) PROVE Alone'
  <2>1. th[u].pc # "idle" /\ holder' = holder /\ \A s \in Threads \ {u} : th'[s] = th[s]
    BY <1>0, <1>5 DEF Continues, Dials, DialFails, lifeVars
  <2>2. QED  BY <2>1, AloneStep, ThreadFacts
<1>6. ASSUME NEW u \in Users, Unlocks(u) PROVE Alone'
  <2>1. holder = u /\ th'[u] = Idle /\ \A s \in Threads \ {u} : th'[s] = th[s]
    BY <1>0, <1>6, ThreadFacts DEF Unlocks
  <2>2. QED  BY <2>1, ThreadFacts, IdleFacts DEF Alone
<1>7. ASSUME Receiver \/ StopBegins \/ StopReleased PROVE Alone'
  <2>1. holder' = holder
    BY <1>7 DEF Receiver, RxStops, RxHandles, RxOffline, RxLost, RxNotifies, RxCallsBack, StopBegins, StopReleased,
       lifeVars
  <2>2. (\A s \in Users : th'[s] = th[s]) \/ th' = Woken
    BY <1>0, <1>7, ReceiverThreads
  <2>3. \A u \in Users : th'[u].pc # "idle" => th[u].pc # "idle"
    BY <1>0, <2>2, Wakes, ThreadFacts
  <2>4. QED  BY <2>1, <2>3, AloneStep
<1>8. ASSUME SdkTakes \/ SdkEnds \/ DeviceOffline \/ LoseLink PROVE Alone'
  BY <1>8 DEF SdkTakes, SdkEnds, DeviceOffline, LoseLink, lifeVars, Alone
<1>9. QED
  BY <1>1, <1>2, <1>3, <1>4, <1>5, <1>6, <1>7, <1>8 DEF Next

LEMMA AloneAlways == Spec => []Alone
<1>1. Init => Alone
  BY IdleFacts, ThreadFacts DEF Init, Alone
<1>2. TypeInv /\ Alone /\ [Next]_vars => Alone'
  <2> SUFFICES ASSUME TypeInv, Alone, [Next]_vars PROVE Alone'  OBVIOUS
  <2>1. CASE UNCHANGED vars
    BY <2>1 DEF vars, lifeVars, Alone
  <2>2. QED  BY <2>1, AloneNext
<1>3. QED  BY <1>1, <1>2, TypeInvariance, PTL DEF Spec

\* The slot stays as it is, and so does the thread that is in its command.
LEMMA SlotKept ==
    ASSUME SlotInv, UNCHANGED <<slot, event, sendFailed>>,
           \A t \in Threads : th[t].pc \in Busy => th'[t].pc \in Busy /\ th'[t].name = th[t].name
    PROVE  SlotInv'
BY DEF SlotInv, SlotHasUser, Busy

LEMMA SlotEmpty == ASSUME slot' = "none" PROVE SlotInv'
BY DEF SlotInv, SlotHasUser

\* A step of a thread that is in no command.
LEMMA SlotOthers ==
    ASSUME SlotInv, UNCHANGED <<slot, event, sendFailed>>, NEW t \in Threads, th[t].pc \notin Busy,
           \A s \in Threads \ {t} : th'[s] = th[s]
    PROVE  SlotInv'
BY SlotKept

LEMMA SlotCommand ==
    ASSUME TypeInv, SlotInv, NEW t \in Threads, SendCommand(t)
    PROVE  SlotInv'
<1>0. th \in [Threads -> Locals] /\ th[t] \in Locals
  BY DEF TypeInv, TypeOK, ThreadTypeOK
<1>1. CASE LooksAtLink(t) \/ Refused(t) \/ Reads(t) \/ MarksInit(t)
  <2>1. th[t].pc \notin Busy /\ UNCHANGED <<slot, event, sendFailed>> /\ \A s \in Threads \ {t} : th'[s] = th[s]
    BY <1>0, <1>1 DEF LooksAtLink, Refused, Reads, MarksInit, Busy, Goto, Returns, slotVars, histVars
  <2>2. QED  BY <2>1, SlotOthers
<1>2. CASE ClaimsSlot(t)
  <2>1. Now(t, "send")
    BY <1>0, <1>2, NowGoto DEF ClaimsSlot, Places
  <2>2. QED  BY <1>2, <2>1 DEF ClaimsSlot, Now, SlotInv, SlotHasUser
<1>3. CASE Sends(t) \/ TimesOut(t)
  <2>1. \E p \in {"sent", "timedOut"} : Now(t, p)
    BY <1>0, <1>3, NowGoto DEF Sends, TimesOut, Places
  <2>2. UNCHANGED <<slot, event, sendFailed>>
    BY <1>3 DEF Sends, TimesOut, slotVars, histVars
  <2>3. QED  BY <2>1, <2>2, SlotKept DEF Now, Busy
<1>4. CASE SendFails(t)
  BY <1>4 DEF SendFails, SlotInv, SlotHasUser, slotVars
<1>5. CASE Waits(t)
  <2>1. \E p \in {"read", "wait"} : Now(t, p) /\ (event \/ p = "wait")
    BY <1>0, <1>5, NowGoto DEF Waits, Places
  <2>2. UNCHANGED <<slot, event, sendFailed>>
    BY <1>5 DEF Waits, slotVars, histVars
  <2>3. CASE event
    <3>1. slot' = "none"
      BY <2>2, <2>3 DEF SlotInv
    <3>2. QED  BY <3>1, SlotEmpty
  <2>4. CASE ~event
    BY <2>1, <2>2, <2>4, SlotKept DEF Now, Busy
  <2>5. QED  BY <2>3, <2>4
<1>6. CASE GivesUp(t)
  BY <1>6, SlotEmpty DEF GivesUp
<1>7. QED  BY <1>1, <1>2, <1>3, <1>4, <1>5, <1>6 DEF SendCommand

LEMMA SlotUsers ==
    ASSUME TypeInv, SlotInv, NEW u \in Users,
           (\E name \in AllNames : Calls(u, name)) \/ Starts(u) \/ Continues(u) \/ Unlocks(u) \/ Dials(u) \/ DialFails(u)
    PROVE  SlotInv'
<1>0. th \in [Threads -> Locals] /\ th[u] \in Locals /\ u \in Threads
  BY ThreadFacts DEF TypeInv, TypeOK, ThreadTypeOK
<1>1. CASE \E name \in AllNames : Calls(u, name)
  <2>1. th[u].pc \notin Busy /\ UNCHANGED <<slot, event, sendFailed>> /\ \A s \in Threads \ {u} : th'[s] = th[s]
    BY <1>0, <1>1 DEF Calls, Busy, slotVars, histVars
  <2>2. QED  BY <1>0, <2>1, SlotOthers
<1>2. CASE Starts(u)
  <2>1. CASE slot' = "none"
    BY <2>1, SlotEmpty
  <2>2. CASE slot' # "none"
    <3>1. th[u].pc \notin Busy /\ UNCHANGED <<slot, event, sendFailed>> /\ \A s \in Threads \ {u} : th'[s] = th[s]
      BY <1>0, <1>2, <2>2 DEF Starts, StaleReleased, InitSucceeds, InitRecovers, StartFails, Serves, ResetCommandState,
         Goto, Busy, slotVars, histVars
    <3>2. QED  BY <1>0, <3>1, SlotOthers
  <2>3. QED  BY <2>1, <2>2
<1>3. CASE Continues(u) \/ Unlocks(u) \/ Dials(u) \/ DialFails(u)
  <2>1. th[u].pc \notin Busy /\ UNCHANGED <<slot, event, sendFailed>> /\ \A s \in Threads \ {u} : th'[s] = th[s]
    BY <1>0, <1>3 DEF Continues, Unlocks, Dials, DialFails, Busy, slotVars, histVars
  <2>2. QED  BY <1>0, <2>1, SlotOthers
<1>4. QED  BY <1>1, <1>2, <1>3

LEMMA SlotReceiver ==
    ASSUME TypeInv, SlotInv, Receiver \/ StopBegins \/ StopReleased
    PROVE  SlotInv'
<1>0. th \in [Threads -> Locals] /\ th[Stopper] \in Locals /\ Stopper \in Threads
  BY ThreadFacts DEF TypeInv, TypeOK, ThreadTypeOK
<1>1. CASE RxStops \/ RxLost
  BY <1>1, SlotKept DEF RxStops, RxLost, slotVars, histVars
<1>2. CASE RxHandles
  BY <1>2, SlotKept, SlotEmpty DEF RxHandles, slotVars
<1>3. CASE RxNotifies
  BY <1>3, SlotKept, SlotEmpty DEF RxNotifies, LostWakes
<1>4. CASE RxOffline \/ RxCallsBack
  <2>1. th' = th \/ (th[Stopper].pc = "idle" /\ Goto(Stopper, "close"))
    BY <1>4 DEF RxOffline, RxCallsBack
  <2>2. UNCHANGED <<slot, event, sendFailed>>
    BY <1>4 DEF RxOffline, RxCallsBack, slotVars, histVars
  <2>3. QED  BY <1>0, <2>1, <2>2, SlotKept DEF Goto, Busy
<1>5. CASE StopBegins
  <2>1. th' = [th EXCEPT ![Stopper] = [Idle EXCEPT !.pc = "check", !.name = "release", !.id = commands + 1]]
        \/ Goto(Stopper, "close")
    BY <1>5 DEF StopBegins
  <2>2. UNCHANGED <<slot, event, sendFailed>> /\ th[Stopper].pc \notin Busy
    BY <1>5 DEF StopBegins, slotVars, histVars, Busy
  <2>3. QED  BY <1>0, <2>1, <2>2, SlotOthers DEF Goto
<1>6. CASE StopReleased
  <2>1. UNCHANGED <<slot, event, sendFailed>> /\ th[Stopper].pc \notin Busy /\ Goto(Stopper, "close")
    BY <1>6 DEF StopReleased, slotVars, histVars, Busy
  <2>2. QED  BY <1>0, <2>1, SlotOthers DEF Goto
<1>7. QED  BY <1>1, <1>2, <1>3, <1>4, <1>5, <1>6 DEF Receiver

\* "Still running" is said only while a thread is in that command, or after one
\* whose send failed.
THEOREM SlotHasUserCorrect == Spec => []SlotHasUser
<1>1. Init => SlotInv
  BY DEF Init, SlotInv, SlotHasUser
<1>2. TypeInv /\ SlotInv /\ [Next]_vars => SlotInv'
  <2> SUFFICES ASSUME TypeInv, SlotInv, [Next]_vars PROVE SlotInv'  OBVIOUS
  <2>0. th \in [Threads -> Locals]
    BY DEF TypeInv, TypeOK, ThreadTypeOK
  <2>1. ASSUME NEW t \in Threads, Reconnects(t) PROVE SlotInv'
    <3>1. th[t].pc \notin Busy /\ UNCHANGED <<slot, event, sendFailed>> /\ \A s \in Threads \ {t} : th'[s] = th[s]
      BY <2>0, <2>1 DEF Reconnects, Closes, Joins, Busy, Goto, slotVars, histVars
    <3>2. QED  BY <3>1, SlotOthers
  <2>2. ASSUME SdkTakes \/ SdkEnds \/ DeviceOffline \/ LoseLink PROVE SlotInv'
    BY <2>2, SlotKept DEF SdkTakes, SdkEnds, DeviceOffline, LoseLink, slotVars, histVars
  <2>3. CASE UNCHANGED vars
    BY <2>3, SlotKept DEF vars, slotVars, histVars
  <2>4. QED  BY <2>1, <2>2, <2>3, SlotCommand, SlotUsers, SlotReceiver DEF Next
<1>3. SlotInv => SlotHasUser
  BY DEF SlotInv
<1>4. QED  BY <1>1, <1>2, <1>3, TypeInvariance, PTL DEF Spec

-----------------------------------------------------------------------------
(* What a command reports, until somebody stops the client. *)

Unsent == {"check", "claim", "send"}
InFlight == {"sent", "wait", "read", "timedOut"}

Ids(s) == {s[i].id : i \in 1..Len(s)}
OnceEach(s) == \A i, j \in 1..Len(s) : s[i].id # 0 /\ s[i].id = s[j].id => i = j
OnTheWay == Ids(toSdk) \cup {sdk.id} \cup Ids(fromSdk)

\* The message, if there is one, ends a command called name with that number, or
\* an abandoned one of that name.
Fits(message, name, id) ==
    message # NoMessage => message.kind \in Answers(name) /\ message.id \in {id} \cup abandoned

\* From its claim to its return a command of a user finds in the slot itself or
\* nothing, and as finish message what fits it; without one it has been cut off.
UserOK(u) ==
    /\ th[u].pc \in Unsent \cup InFlight => th[u].got = NoMessage
    /\ th[u].pc \in Unsent => th[u].id \notin abandoned
    /\ th[u].pc \in {"send"} \cup InFlight
         => slot \in {th[u].name, "none"} /\ Fits(finish, th[u].name, th[u].id)
    /\ th[u].pc = "send" => finish.id # th[u].id
    /\ th[u].pc \in {"send", "sent"} /\ event /\ finish = NoMessage => ~connected
    /\ th[u].pc = "read" /\ finish = NoMessage => ~connected
    /\ th[u].pc \in {"mark", "done"}
         => /\ Fits(th[u].got, th[u].name, th[u].id)
            /\ th[u].out = "ok" /\ th[u].got = NoMessage => ~connected

\* Whatever is on its way is a command in flight or an abandoned one, and is there once.
WireInv ==
    /\ \A i \in OnTheWay \ {0} :
          i \in abandoned \/ \E u \in Users : th[u].id = i /\ th[u].pc \in InFlight
    /\ finish.id # 0 => finish.id \notin OnTheWay
    /\ OnceEach(toSdk) /\ OnceEach(fromSdk)
    /\ Ids(toSdk) \cap Ids(fromSdk) = {}
    /\ sdk.id # 0 => sdk.id \notin Ids(toSdk) \cup Ids(fromSdk)
NumbersInv ==
    /\ OnTheWay \subseteq 0..commands /\ abandoned \subseteq 0..commands
    /\ \A u \in Users : th[u].id <= commands

ResultInv == th[Stopper].pc = "idle" => (\A u \in Users : UserOK(u)) /\ WireInv /\ NumbersInv

LEMMA IdsEmpty == Ids(<<>>) = {} /\ OnceEach(<<>>)
BY DEF Ids, OnceEach

LEMMA IdsAppend ==
    ASSUME NEW S, NEW s \in Seq(S), NEW e \in S
    PROVE  /\ Ids(Append(s, e)) = Ids(s) \cup {e.id}
           /\ OnceEach(s) /\ (e.id \notin Ids(s) \/ e.id = 0) => OnceEach(Append(s, e))
<1> DEFINE a == Append(s, e)
<1>1. Len(s) \in Nat /\ Len(a) = Len(s) + 1
      /\ (\A i \in 1..Len(s) : a[i] = s[i]) /\ a[Len(s) + 1] = e
  BY AppendProperties, LenProperties
<1> HIDE DEF a
<1>2. Ids(a) = Ids(s) \cup {e.id}
  BY <1>1 DEF Ids
<1>3. ASSUME OnceEach(s), e.id \notin Ids(s) \/ e.id = 0 PROVE OnceEach(a)
  BY <1>1, <1>3 DEF Ids, OnceEach
<1>4. QED  BY <1>2, <1>3 DEF a

LEMMA IdsHeadTail ==
    ASSUME NEW S, NEW s \in Seq(S), s # <<>>
    PROVE  /\ Ids(s) = {Head(s).id} \cup Ids(Tail(s))
           /\ OnceEach(s) => OnceEach(Tail(s)) /\ (Head(s).id # 0 => Head(s).id \notin Ids(Tail(s)))
<1> DEFINE q == Tail(s)
<1>1. Len(s) \in Nat \ {0} /\ Len(q) = Len(s) - 1 /\ Head(s) = s[1] /\ \A i \in 1..Len(q) : q[i] = s[i + 1]
  BY HeadTailProperties, EmptySeq
<1> HIDE DEF q
<1>2. \A i \in 1..Len(s) : i = 1 \/ (i - 1 \in 1..Len(q) /\ q[i - 1] = s[i])
  BY <1>1
<1>3. Ids(s) = {Head(s).id} \cup Ids(q)
  BY <1>1, <1>2 DEF Ids
<1>4. ASSUME OnceEach(s) PROVE OnceEach(q) /\ (Head(s).id # 0 => Head(s).id \notin Ids(q))
  <2>1. \A i \in 1..Len(q) : i + 1 \in 1..Len(s) /\ q[i] = s[i + 1] /\ i + 1 # 1
    BY <1>1
  <2>2. OnceEach(q)
    <3>1. SUFFICES ASSUME NEW i \in 1..Len(q), NEW j \in 1..Len(q), q[i].id # 0, q[i].id = q[j].id
                   PROVE  i = j
      BY DEF OnceEach
    <3>2. i + 1 = j + 1
      BY <1>4, <2>1, <3>1 DEF OnceEach
    <3>3. QED  BY <1>1, <3>2
  <2>3. ASSUME NEW i \in 1..Len(q), Head(s).id # 0, Head(s).id = q[i].id PROVE FALSE
    <3>1. 1 \in 1..Len(s) /\ i + 1 \in 1..Len(s) /\ s[1].id # 0 /\ s[1].id = s[i + 1].id /\ i + 1 # 1
      BY <1>1, <2>1, <2>3
    <3>2. QED  BY <1>4, <3>1 DEF OnceEach
  <2>4. QED  BY <2>2, <2>3 DEF Ids
<1>5. QED  BY <1>3, <1>4 DEF q

LEMMA UserIdle == ASSUME NEW u \in Users, th'[u].pc \in {"idle", "close", "join", "dial", "redial", "gone"}
                  PROVE  UserOK(u)'
BY DEF UserOK, Unsent, InFlight

\* The messages stay, and no command leaves but answered or abandoned.
LEMMA WireKept ==
    ASSUME WireInv, UNCHANGED wireVars, finish' \in {finish, NoMessage}, abandoned \subseteq abandoned',
           \A u \in Users : th[u].pc \in InFlight
              => \/ th'[u].pc \in InFlight /\ th'[u].id = th[u].id
                 \/ th[u].id \in abandoned' \/ th[u].id \notin OnTheWay
    PROVE  WireInv' /\ OnTheWay' = OnTheWay
<1>1. OnTheWay' = OnTheWay
  BY DEF OnTheWay, wireVars
<1>2. finish'.id # 0 => finish'.id \notin OnTheWay'
  BY <1>1, IdleFacts DEF WireInv
<1>3. \A i \in OnTheWay' \ {0} : i \in abandoned' \/ \E u \in Users : th'[u].id = i /\ th'[u].pc \in InFlight
  BY <1>1 DEF WireInv
<1>4. QED  BY <1>1, <1>2, <1>3 DEF WireInv, wireVars

LEMMA NumbersKept ==
    ASSUME NumbersInv, commands \in Nat, commands' \in {commands, commands + 1},
           OnTheWay' \subseteq OnTheWay \cup 0..commands, abandoned' \subseteq abandoned \cup 0..commands,
           \A u \in Users : th[u].id \in Nat /\ (th'[u].id = th[u].id \/ th'[u].id \in 0..commands')
    PROVE  NumbersInv'
<1>1. commands' \in Nat /\ commands <= commands' /\ 0..commands \subseteq 0..commands'
  OBVIOUS
<1>2. \A u \in Users : th'[u].id <= commands'
  BY <1>1 DEF NumbersInv
<1>3. QED  BY <1>1, <1>2 DEF NumbersInv

\* The step of a user, which the others sit out.
LEMMA UserStep ==
    ASSUME TypeInv, Alone, NEW u \in Users, th[u].pc # "idle", \A s \in Threads \ {u} : th'[s] = th[s],
           UserOK(u)'
    PROVE  \A s \in Users : UserOK(s)'
BY UserIdle, ThreadFacts DEF Alone

Result == (\A u \in Users : UserOK(u)) /\ WireInv /\ NumbersInv

LEMMA ResultFacts ==
    ASSUME TypeInv
    PROVE  /\ th \in [Threads -> Locals] /\ commands \in 0..MaxCommands /\ commands \in Nat
           /\ \A t \in Threads : th[t] \in Locals /\ th[t].id \in Nat /\ th[t].id \in 0..MaxCommands
           /\ \A t \in Threads : th[t].pc \in Commanding => th[t].name \in AllNames /\ th[t].id # 0
           /\ toSdk \in Seq(Given) /\ fromSdk \in Seq(Read) /\ sdk \in Requests /\ (sdk.id # 0 => sdk \in Given)
           /\ finish \in Messages /\ slot \in AllNames \cup {"none"}
<1>1. \A l \in Locals : l.id \in Nat /\ l.id \in 0..MaxCommands
  BY ThreadFacts DEF Locals
<1>2. th \in [Threads -> Locals] /\ commands \in 0..MaxCommands /\ finish \in Messages /\ slot \in AllNames \cup {"none"}
  BY DEF TypeInv, TypeOK, ThreadTypeOK, CountTypeOK, SlotTypeOK
<1>3. QED
  BY <1>1, <1>2, ThreadFacts DEF TypeInv, TypeOK, WireTypeOK, NamedOK, ThreadNamed, RequestsNamed, MessagesNamed

\* Abandoning more commands does not hurt a result.
LEMMA FitsMore ==
    ASSUME NEW m, NEW n, NEW i, Fits(m, n, i), abandoned \subseteq abandoned'
    PROVE  m # NoMessage => m.kind \in Answers(n) /\ m.id \in {i} \cup abandoned'
BY DEF Fits

LEMMA ResultCommand ==
    ASSUME TypeInv, Alone, Result, NEW u \in Users, SendCommand(u)
    PROVE  Result'
<1>0. th \in [Threads -> Locals] /\ th[u] \in Locals /\ u \in Threads /\ UserOK(u) /\ WireInv /\ NumbersInv
  BY ResultFacts, ThreadFacts DEF Result
<1>a. commands \in Nat /\ \A s \in Users : th[s].id \in Nat
  BY ResultFacts, ThreadFacts
<1>b. \A s \in Users \ {u} : th[u].pc # "idle" => th[s].pc = "idle"
  BY DEF Alone
<1>1. ASSUME NEW p \in Places, Now(u, p), UNCHANGED <<wireVars, abandoned, commands>>, finish' \in {finish, NoMessage},
             th[u].pc \in InFlight => p \in InFlight \/ th[u].id \notin OnTheWay, th[u].pc # "idle", UserOK(u)'
      PROVE  Result'
  <2>1. WireInv' /\ OnTheWay' = OnTheWay
    BY <1>0, <1>1, WireKept, ThreadFacts DEF Now
  <2>2. NumbersInv'
    BY <1>0, <1>1, <1>a, <2>1, NumbersKept, ThreadFacts DEF Now
  <2>3. \A s \in Users : UserOK(s)'
    BY <1>1, UserStep DEF Now
  <2>4. QED  BY <2>1, <2>2, <2>3 DEF Result
<1>2. CASE LooksAtLink(u)
  <2>1. \E p \in {"claim", "done"} : Now(u, p) /\ th'[u].got = th[u].got /\ (p = "done" => th'[u].out = "unlinked")
    BY <1>0, <1>2, NowGoto, NowReturns DEF LooksAtLink, Places, Outcomes
  <2>2. UserOK(u)'
    BY <1>0, <1>2, <2>1 DEF LooksAtLink, Now, UserOK, Unsent, InFlight, Fits, histVars
  <2>3. QED
    BY <1>1, <1>2, <2>1, <2>2 DEF LooksAtLink, Places, InFlight, slotVars, histVars, countVars
<1>3. CASE ClaimsSlot(u)
  <2>1. Now(u, "send") /\ th'[u].got = th[u].got
    BY <1>0, <1>3, NowGoto DEF ClaimsSlot, Places
  <2>2. th[u].id # 0
    BY <1>0, <1>3, ResultFacts DEF ClaimsSlot, Commanding
  <2>3. UserOK(u)'
    BY <1>0, <1>3, <2>1, <2>2, IdleFacts DEF ClaimsSlot, Now, UserOK, Unsent, InFlight, Fits
  <2>4. QED
    BY <1>1, <1>3, <2>1, <2>3 DEF ClaimsSlot, Places, InFlight, countVars
<1>4. CASE Refused(u)
  <2>1. Now(u, "done") /\ th'[u].got = th[u].got /\ th'[u].out = "refused"
    BY <1>0, <1>4, NowReturns DEF Refused, Outcomes
  <2>2. UserOK(u)'
    BY <1>0, <1>4, <2>1 DEF Refused, Now, UserOK, Unsent, InFlight, Fits
  <2>3. QED
    BY <1>1, <1>4, <2>1, <2>2 DEF Refused, Places, InFlight, slotVars, histVars, countVars
<1>5. CASE Sends(u)
  <2>1. Now(u, "sent") /\ th'[u].got = th[u].got
    BY <1>0, <1>5, NowGoto DEF Sends, Places
  <2>2. UserOK(u)'
    BY <1>0, <1>5, <2>1 DEF Sends, Now, UserOK, Unsent, InFlight, Fits, slotVars, histVars, linkVars
  <2>3. th[u].id # 0 /\ th[u].id \notin abandoned /\ finish.id # th[u].id
    BY <1>0, <1>5, ResultFacts DEF Sends, Commanding, UserOK, Unsent
  <2>4. th[u].id \notin OnTheWay
    BY <1>0, <1>5, <1>b, <2>3 DEF Sends, WireInv, InFlight
  <2>5. WireInv' /\ OnTheWay' \subseteq OnTheWay \cup {th[u].id}
    <3>1. CASE toSdk' = toSdk
      <4>1. UNCHANGED <<wireVars, finish, abandoned>>
        BY <1>5, <3>1 DEF Sends, wireVars, slotVars, histVars
      <4>2. \A s \in Users : th[s].pc \in InFlight => th'[s] = th[s]
        BY <1>5, <2>1, ThreadFacts DEF Sends, InFlight, Now
      <4>3. QED  BY <1>0, <4>1, <4>2, WireKept
    <3>2. CASE toSdk' # toSdk
      <4> DEFINE e == [name |-> th[u].name, id |-> th[u].id]
      <4>1. toSdk' = Append(toSdk, e) /\ e.id = th[u].id
        BY <1>5, <3>2 DEF Sends
      <4>2. e \in Given /\ toSdk \in Seq(Given)
        BY <1>0, <1>5, <2>3, ResultFacts, ThreadFacts DEF Sends, Given, Commanding
      <4> HIDE DEF e
      <4>3. Ids(toSdk)' = Ids(toSdk) \cup {th[u].id} /\ (OnceEach(toSdk) /\ th[u].id \notin Ids(toSdk) => OnceEach(toSdk)')
        <5>1. /\ Ids(Append(toSdk, e)) = Ids(toSdk) \cup {e.id}
              /\ OnceEach(toSdk) /\ (e.id \notin Ids(toSdk) \/ e.id = 0) => OnceEach(Append(toSdk, e))
          BY <4>2, IdsAppend
        <5>2. Ids(toSdk)' = Ids(Append(toSdk, e)) /\ (OnceEach(toSdk)' <=> OnceEach(Append(toSdk, e)))
          BY <4>1 DEF Ids, OnceEach
        <5>3. QED  BY <4>1, <5>1, <5>2
      <4>4. UNCHANGED <<fromSdk, sdk, finish, abandoned>> /\ Ids(fromSdk)' = Ids(fromSdk) /\ OnceEach(fromSdk)' = OnceEach(fromSdk)
        BY <1>5 DEF Sends, slotVars, histVars, Ids, OnceEach
      <4>5. OnTheWay' = OnTheWay \cup {th[u].id}
        BY <4>3, <4>4 DEF OnTheWay
      <4>6. \A i \in OnTheWay' \ {0} : i \in abandoned' \/ \E s \in Users : th'[s].id = i /\ th'[s].pc \in InFlight
        <5>1. SUFFICES ASSUME NEW i \in OnTheWay \ {0}
                       PROVE  i \in abandoned \/ \E s \in Users : th'[s].id = i /\ th'[s].pc \in InFlight
          BY <2>1, <4>4, <4>5 DEF Now, InFlight
        <5>2. \A s \in Users : th[s].pc \in InFlight => th'[s] = th[s]
          BY <1>5, <2>1, ThreadFacts DEF Sends, InFlight, Now
        <5>3. QED  BY <1>0, <5>2 DEF WireInv
      <4>7. QED
        BY <1>0, <2>3, <2>4, <4>3, <4>4, <4>5, <4>6 DEF WireInv, OnTheWay
    <3>3. QED  BY <3>1, <3>2
  <2>6. NumbersInv'
    <3>1. th[u].id \in 0..commands /\ UNCHANGED <<commands, abandoned>>
      BY <1>0, <1>5, <1>a DEF Sends, NumbersInv, countVars, histVars
    <3>2. \A s \in Users : th'[s].id = th[s].id
      BY <2>1, ThreadFacts DEF Now
    <3>3. QED  BY <1>0, <1>a, <2>5, <3>1, <3>2, NumbersKept
  <2>7. \A s \in Users : UserOK(s)'
    BY <1>5, <2>1, <2>2, UserStep DEF Sends, Now
  <2>8. QED  BY <2>5, <2>6, <2>7 DEF Result
<1>6. CASE SendFails(u)
  <2>1. Now(u, "done") /\ th'[u].got = th[u].got /\ th'[u].out = "unlinked"
    BY <1>0, <1>6, NowReturns DEF SendFails, Outcomes
  <2>2. UserOK(u)'
    BY <1>0, <1>6, <2>1 DEF SendFails, Now, UserOK, Unsent, InFlight, Fits
  <2>3. QED
    BY <1>1, <1>6, <2>1, <2>2 DEF SendFails, Places, InFlight, slotVars, countVars
<1>7. CASE Waits(u)
  <2>1. \E p \in {"read", "wait"} : Now(u, p) /\ th'[u].got = th[u].got /\ (p = "read" => event)
    BY <1>0, <1>7, NowGoto DEF Waits, Places
  <2>2. UserOK(u)'
    BY <1>0, <1>7, <2>1 DEF Waits, Now, UserOK, Unsent, InFlight, Fits, slotVars, histVars, linkVars
  <2>3. QED
    BY <1>1, <1>7, <2>1, <2>2 DEF Waits, Places, InFlight, slotVars, histVars, countVars
<1>8. CASE TimesOut(u)
  <2>1. Now(u, "timedOut") /\ th'[u].got = th[u].got
    BY <1>0, <1>8, NowGoto DEF TimesOut, Places
  <2>2. UserOK(u)'
    BY <1>0, <1>8, <2>1 DEF TimesOut, Now, UserOK, Unsent, InFlight, Fits, slotVars, histVars, linkVars
  <2>3. QED
    BY <1>1, <1>8, <2>1, <2>2 DEF TimesOut, Places, InFlight, slotVars, histVars, countVars
<1>9. CASE GivesUp(u) \/ Reads(u)
  <2>1. /\ th[u].pc \in {"timedOut", "read"} /\ th'[u].pc \in {"mark", "done"} /\ th'[u].id = th[u].id
        /\ th'[u].name = th[u].name /\ \A s \in Users \ {u} : th'[s] = th[s]
    <3>1. CASE GivesUp(u)
      <4>1. \A s \in Users \ {u} : th[s].pc # "wait"
        BY <1>b, <3>1 DEF GivesUp
      <4>2. QED
        BY <1>0, <3>1, <4>1, Wakes, ThreadFacts DEF GivesUp, Locals
    <3>2. CASE Reads(u)
      BY <1>0, <3>2, ThreadFacts DEF Reads, Locals
    <3>3. QED  BY <1>9, <3>1, <3>2
  <2>2. /\ abandoned \subseteq abandoned' /\ abandoned' \subseteq abandoned \cup {th[u].id}
        /\ finish' = finish /\ UNCHANGED <<wireVars, commands, connected>>
    BY <1>9 DEF GivesUp, Reads, slotVars, countVars, linkVars
  <2>3. th[u].id \in abandoned' \/ th[u].id \notin OnTheWay
    <3>1. CASE GivesUp(u)
      BY <3>1 DEF GivesUp
    <3>2. CASE Reads(u)
      <4>1. th[u].id # 0
        BY <1>0, <3>2, ResultFacts DEF Reads, Commanding
      <4>2. QED  BY <1>0, <3>2, <4>1 DEF Reads, WireInv
    <3>3. QED  BY <1>9, <3>1, <3>2
  <2>4. WireInv' /\ OnTheWay' = OnTheWay
    BY <1>0, <2>1, <2>2, <2>3, WireKept, <1>b DEF InFlight
  <2>5. NumbersInv'
    <3>1. th[u].id \in 0..commands
      BY <1>0, <1>a DEF NumbersInv
    <3>2. QED  BY <1>0, <1>a, <2>1, <2>2, <2>4, <3>1, NumbersKept
  <2>6. UserOK(u)'
    <3>1. CASE GivesUp(u)
      <4>1. th'[u].got = NoMessage /\ th'[u].out = "timeout"
        BY <1>0, <3>1, Wakes DEF GivesUp, Locals, UserOK, InFlight
      <4>2. QED  BY <2>1, <4>1 DEF UserOK, Fits, Unsent, InFlight
    <3>2. CASE Reads(u)
      <4>1. th'[u].got = finish
        BY <1>0, <3>2 DEF Reads, Locals
      <4>2. Fits(finish, th[u].name, th[u].id) /\ (finish = NoMessage => ~connected)
        BY <1>0, <3>2 DEF Reads, UserOK, InFlight
      <4>3. finish # NoMessage => finish.kind \in Answers(th[u].name) /\ finish.id \in {th[u].id} \cup abandoned'
        BY <2>2, <4>2, FitsMore
      <4>4. QED  BY <2>1, <2>2, <4>1, <4>2, <4>3 DEF UserOK, Fits, Unsent, InFlight
    <3>3. QED  BY <1>9, <3>1, <3>2
  <2>7. \A s \in Users \ {u} : UserOK(s)'
    BY <1>b, <2>1, UserIdle
  <2>8. QED  BY <2>4, <2>5, <2>6, <2>7 DEF Result
<1>10. CASE MarksInit(u)
  <2>1. Now(u, "done") /\ th'[u].got = th[u].got /\ th'[u].out = th[u].out
    BY <1>0, <1>10, NowGoto DEF MarksInit, Places
  <2>2. UserOK(u)'
    BY <1>0, <1>10, <2>1 DEF MarksInit, Now, UserOK, Unsent, InFlight, Fits, histVars, linkVars
  <2>3. QED
    BY <1>1, <1>10, <2>1, <2>2 DEF MarksInit, Places, InFlight, slotVars, histVars, countVars
<1>11. QED
  BY <1>2, <1>3, <1>4, <1>5, <1>6, <1>7, <1>8, <1>9, <1>10 DEF SendCommand

\* A step of a user that is in no command, before or after, and of nobody else.
LEMMA ResultOutside ==
    ASSUME TypeInv, Alone, Result, NEW u \in Users, holder = u \/ th[u].pc # "idle",
           \A s \in Threads \ {u} : th'[s] = th[s],
           th[u].pc \notin InFlight, th'[u].pc \in {"idle", "close", "join", "dial", "redial", "gone"},
           th'[u].id \in {0, th[u].id},
           finish' \in {finish, NoMessage}, UNCHANGED <<abandoned, commands>>,
           UNCHANGED wireVars \/ (toSdk' = <<>> /\ fromSdk' = <<>> /\ sdk' = sdk)
    PROVE  Result'
<1>0. WireInv /\ NumbersInv
  BY ThreadFacts DEF Result
<1>1. \A s \in Users : UserOK(s)'
  BY UserIdle, ThreadFacts DEF Alone
<1>2. \A s \in Users : th[s].pc \in InFlight => th'[s] = th[s]
  BY ThreadFacts
<1>3. WireInv' /\ OnTheWay' \subseteq OnTheWay \cup {0}
  <2>1. CASE UNCHANGED wireVars
    BY <1>0, <1>2, <2>1, WireKept
  <2>2. CASE toSdk' = <<>> /\ fromSdk' = <<>> /\ sdk' = sdk
    <3>1. Ids(toSdk)' = {} /\ Ids(fromSdk)' = {} /\ OnceEach(toSdk)' /\ OnceEach(fromSdk)'
      BY <2>2, IdsEmpty DEF Ids, OnceEach
    <3>2. OnTheWay' = {sdk.id} /\ sdk.id \in OnTheWay
      BY <2>2, <3>1 DEF OnTheWay
    <3>3. finish'.id # 0 => finish'.id \notin OnTheWay'
      BY <1>0, <3>2, IdleFacts DEF WireInv
    <3>4. \A i \in OnTheWay' \ {0} : i \in abandoned' \/ \E s \in Users : th'[s].id = i /\ th'[s].pc \in InFlight
      BY <1>0, <1>2, <3>2 DEF WireInv
    <3>5. QED  BY <3>1, <3>2, <3>3, <3>4 DEF WireInv
  <2>3. QED  BY <2>1, <2>2
<1>4. NumbersInv'
  <2>1. commands \in Nat /\ \A s \in Users : th[s].id \in Nat
    BY ResultFacts, ThreadFacts
  <2>2. \A s \in Users : th'[s].id = th[s].id \/ th'[s].id \in 0..commands'
    BY <2>1, ThreadFacts
  <2>3. 0 \in 0..commands
    BY <2>1
  <2>4. QED  BY <1>0, <1>3, <2>1, <2>2, <2>3, NumbersKept
<1>5. QED  BY <1>1, <1>3, <1>4 DEF Result

LEMMA ResultUsers ==
    ASSUME TypeInv, Alone, Alone', Result, NEW u \in Users,
           \/ (\E name \in AllNames : Calls(u, name)) \/ Starts(u) \/ Continues(u) \/ Unlocks(u)
           \/ Dials(u) \/ DialFails(u) \/ Reconnects(u)
    PROVE  Result'
<1>0. th \in [Threads -> Locals] /\ th[u] \in Locals /\ u \in Threads
  BY ResultFacts, ThreadFacts
<1>1. ASSUME NEW name \in AllNames, Calls(u, name) PROVE Result'
  <2>0. commands \in Nat /\ commands < MaxCommands /\ MaxCommands \in Nat
    BY <1>1, ResultFacts, ThreadFacts DEF Calls
  <2>1. commands + 1 \in 1..MaxCommands /\ commands \in Nat
    BY <2>0
  <2> DEFINE new == [Idle EXCEPT !.pc = "check", !.name = name, !.id = commands + 1]
  <2>2. new \in Locals /\ new.pc = "check" /\ new.id = commands + 1 /\ new.got = NoMessage
    <3>1. new \in Locals
      BY <2>1, Begun
    <3>2. new.pc = "check" /\ new.id = commands + 1 /\ new.got = NoMessage
      BY IdleFacts DEF Locals
    <3>3. QED  BY <3>1, <3>2
  <2>3. th' = [th EXCEPT ![u] = new]
    BY <1>1 DEF Calls
  <2> HIDE DEF new
  <2>4. /\ th'[u] = new /\ (\A s \in Threads \ {u} : th'[s] = th[s]) /\ th[u].pc = "idle"
        /\ UNCHANGED <<wireVars, finish, abandoned>> /\ commands' = commands + 1
    BY <1>0, <1>1, <2>2, <2>3 DEF Calls, slotVars, histVars
  <2>5. WireInv' /\ OnTheWay' = OnTheWay
    BY <2>4, WireKept, ThreadFacts DEF Result, InFlight
  <2>6. NumbersInv'
    <3>1. \A s \in Users : th[s].id \in Nat /\ (th'[s].id = th[s].id \/ th'[s].id \in 0..commands')
      BY <2>1, <2>2, <2>4, ResultFacts, ThreadFacts
    <3>2. QED  BY <2>1, <2>4, <2>5, <3>1, NumbersKept DEF Result
  <2>7. UserOK(u)'
    <3>1. commands + 1 \notin abandoned
      BY <2>1 DEF Result, NumbersInv
    <3>2. QED  BY <2>2, <2>4, <3>1 DEF UserOK, Unsent, InFlight
  <2>8. \A s \in Users \ {u} : th'[s].pc = "idle"
    BY <2>2, <2>4 DEF Alone
  <2>9. QED  BY <2>5, <2>6, <2>7, <2>8, UserIdle DEF Result
<1>2. CASE Starts(u)
  <2>1. /\ holder = u /\ (\A s \in Threads \ {u} : th'[s] = th[s]) /\ th[u].pc \notin InFlight
        /\ finish' \in {finish, NoMessage} /\ UNCHANGED <<abandoned, commands, wireVars>>
    BY <1>0, <1>2 DEF Starts, StaleReleased, InitSucceeds, InitRecovers, StartFails, Serves, ResetCommandState, Goto,
       slotVars, histVars, countVars, InFlight
  <2>2. th'[u].pc \in {"idle", "close"} /\ th'[u].id \in {0, th[u].id}
    BY <1>0, <1>2, IdleFacts DEF Starts, StaleReleased, InitSucceeds, InitRecovers, StartFails, Serves, Goto, Locals
  <2>3. QED  BY <2>1, <2>2, ResultOutside
<1>3. CASE Continues(u) \/ Unlocks(u) \/ Dials(u) \/ DialFails(u)
  <2>1. /\ holder = u \/ th[u].pc # "idle"
        /\ (\A s \in Threads \ {u} : th'[s] = th[s]) /\ th[u].pc \notin InFlight
        /\ UNCHANGED <<abandoned, commands, wireVars, finish>>
    BY <1>0, <1>3 DEF Continues, Unlocks, Dials, DialFails, slotVars, histVars, countVars, InFlight
  <2>2. th'[u].pc \in {"idle", "redial"} /\ th'[u].id = 0
    <3>1. [Idle EXCEPT !.pc = "redial"].pc = "redial" /\ [Idle EXCEPT !.pc = "redial"].id = 0
      BY IdleFacts DEF Locals
    <3>2. QED  BY <1>0, <1>3, <3>1, IdleFacts DEF Continues, Unlocks, Dials, DialFails
  <2>3. QED  BY <2>1, <2>2, ResultOutside
<1>4. CASE Reconnects(u)
  <2>1. /\ th[u].pc \in {"close", "join"} /\ (\A s \in Threads \ {u} : th'[s] = th[s])
        /\ th'[u].pc \in {"join", "dial", "gone"} /\ th'[u].id = th[u].id
    BY <1>0, <1>4 DEF Reconnects, Closes, Joins, Goto, Locals
  <2>2. /\ UNCHANGED <<abandoned, commands, finish>>
        /\ UNCHANGED wireVars \/ (toSdk' = <<>> /\ fromSdk' = <<>> /\ sdk' = sdk)
    BY <1>4 DEF Reconnects, Closes, Joins, slotVars, histVars, countVars
  <2>3. QED  BY <2>1, <2>2, ResultOutside DEF InFlight
<1>5. QED
  BY <1>1, <1>2, <1>3, <1>4

\* The messages are what they were, or fewer, and no user has moved.
LEMMA ResultFewer ==
    ASSUME TypeInv, Result, UNCHANGED <<th, finish, slot, event, abandoned, commands, connected>>,
           WireInv', OnTheWay' \subseteq OnTheWay \cup {0}
    PROVE  Result'
<1>1. \A u \in Users : UserOK(u)'
  BY DEF Result, UserOK, Fits
<1>2. NumbersInv'
  BY ResultFacts DEF Result, NumbersInv
<1>3. QED  BY <1>1, <1>2 DEF Result

LEMMA ResultReceiver ==
    ASSUME TypeInv, Alone, Result, Receiver, th'[Stopper].pc = "idle"
    PROVE  Result'
<1>0. th \in [Threads -> Locals] /\ WireInv /\ NumbersInv /\ Stopper \in Threads
  BY ResultFacts, ThreadFacts DEF Result
<1>1. CASE RxStops \/ RxLost
  <2>1. UNCHANGED <<th, finish, slot, event, abandoned, commands, connected, wireVars>>
    BY <1>1 DEF RxStops, RxLost, slotVars, histVars, countVars
  <2>2. QED  BY <1>0, <2>1, WireKept, ResultFewer
<1>2. CASE RxOffline \/ RxCallsBack
  <2>1. UNCHANGED <<finish, slot, event, abandoned, commands, connected, toSdk, sdk>>
    BY <1>2 DEF RxOffline, RxCallsBack, slotVars, histVars, countVars, wireVars
  <2>2. th' = th
    <3>1. th' = th \/ Goto(Stopper, "close")
      BY <1>2 DEF RxOffline, RxCallsBack
    <3>2. ~Goto(Stopper, "close")
      BY <1>0 DEF Goto, Locals
    <3>3. QED  BY <3>1, <3>2
  <2>3. CASE RxCallsBack
    BY <1>0, <2>1, <2>2, <2>3, WireKept, ResultFewer DEF RxCallsBack
  <2>4. CASE RxOffline
    <3>1. fromSdk \in Seq(Read) /\ fromSdk # <<>> /\ fromSdk' = Tail(fromSdk)
      BY <2>4, ResultFacts DEF RxOffline
    <3>2. Ids(fromSdk)' \subseteq Ids(fromSdk) /\ (OnceEach(fromSdk) => OnceEach(fromSdk)')
      <4>1. /\ Ids(fromSdk) = {Head(fromSdk).id} \cup Ids(Tail(fromSdk))
            /\ OnceEach(fromSdk) => OnceEach(Tail(fromSdk))
        BY <3>1, IdsHeadTail
      <4>2. Ids(fromSdk)' = Ids(Tail(fromSdk)) /\ (OnceEach(fromSdk)' <=> OnceEach(Tail(fromSdk)))
        BY <3>1 DEF Ids, OnceEach
      <4>3. QED  BY <4>1, <4>2
    <3>3. OnTheWay' \subseteq OnTheWay
      BY <2>1, <3>2 DEF OnTheWay, Ids
    <3>4. Ids(toSdk)' = Ids(toSdk) /\ (OnceEach(toSdk)' <=> OnceEach(toSdk))
      BY <2>1 DEF Ids, OnceEach
    <3>5. WireInv'
      BY <1>0, <2>1, <2>2, <3>2, <3>3, <3>4 DEF WireInv
    <3>6. QED  BY <2>1, <2>2, <3>3, <3>5, ResultFewer
  <2>5. QED  BY <1>2, <2>3, <2>4
<1>3. CASE RxHandles
  <2> DEFINE m == Head(fromSdk)
  <2>1. /\ fromSdk \in Seq(Read) /\ fromSdk # <<>> /\ fromSdk' = Tail(fromSdk)
        /\ m \in Read /\ m.kind # <<"deviceStatus", "">>
    BY <1>3, ResultFacts, HeadTailProperties DEF RxHandles
  <2>2. m.id # 0
    BY <2>1 DEF Read
  <2>3. /\ Ids(fromSdk) = {m.id} \cup Ids(fromSdk)'
        /\ OnceEach(fromSdk)' /\ m.id \notin Ids(fromSdk)'
    <3>1. /\ Ids(fromSdk) = {Head(fromSdk).id} \cup Ids(Tail(fromSdk))
          /\ OnceEach(fromSdk) => OnceEach(Tail(fromSdk))
                /\ (Head(fromSdk).id # 0 => Head(fromSdk).id \notin Ids(Tail(fromSdk)))
      BY <2>1, IdsHeadTail
    <3>2. Ids(fromSdk)' = Ids(Tail(fromSdk)) /\ (OnceEach(fromSdk)' <=> OnceEach(Tail(fromSdk)))
      BY <2>1 DEF Ids, OnceEach
    <3>3. QED  BY <1>0, <2>2, <3>1, <3>2 DEF WireInv
  <2>4. UNCHANGED <<toSdk, sdk, abandoned, commands, connected>>
    BY <1>3 DEF RxHandles, linkVars, countVars
  <2>5. Ids(toSdk)' = Ids(toSdk) /\ (OnceEach(toSdk)' <=> OnceEach(toSdk))
    BY <2>4 DEF Ids, OnceEach
  <2>6. OnTheWay = OnTheWay' \cup {m.id} /\ m.id \notin OnTheWay'
    BY <1>0, <2>2, <2>3, <2>4, <2>5 DEF OnTheWay, WireInv
  <2>7. m.id \in abandoned \/ \E u \in Users : th[u].id = m.id /\ th[u].pc \in InFlight
    BY <1>0, <2>2, <2>6 DEF WireInv
  <2> HIDE DEF m
  <2>8. CASE UNCHANGED <<slot, event, finish, th>>
    <3>1. WireInv'
      BY <1>0, <2>3, <2>4, <2>5, <2>6, <2>8 DEF WireInv
    <3>2. QED  BY <2>4, <2>6, <2>8, <3>1, ResultFewer
  <2>9. CASE ~UNCHANGED <<slot, event, finish, th>>
    <3>1. finish' = m /\ slot' = "none" /\ event' = TRUE /\ th' = Woken /\ slot # "none" /\ m.kind \in Answers(slot)
      BY <1>3, <2>9 DEF RxHandles, Ends, slotVars, m
    <3>2. m # NoMessage
      BY <2>2, IdleFacts
    <3>3. ASSUME NEW u \in Users PROVE UserOK(u)'
      <4>1. /\ th'[u].pc = IF th[u].pc = "wait" THEN "read" ELSE th[u].pc
            /\ th'[u].name = th[u].name /\ th'[u].id = th[u].id /\ th'[u].got = th[u].got /\ th'[u].out = th[u].out
        BY <1>0, <3>1, <3>3, Wakes, ThreadFacts
      <4>2. UserOK(u)
        BY DEF Result
      <4>3. th[u].pc \in {"send"} \cup InFlight => m.kind \in Answers(th[u].name)
        BY <3>1, <4>2 DEF UserOK
      <4>4. th[u].pc \in {"send"} \cup InFlight => m.id \in {th[u].id} \cup abandoned
        BY <2>7 DEF Alone, InFlight
      <4>5. th[u].pc = "send" => m.id # th[u].id
        BY <2>7, <4>2 DEF Alone, InFlight, UserOK, Unsent
      <4>6. QED
        BY <2>4, <3>1, <3>2, <4>1, <4>2, <4>3, <4>4, <4>5 DEF UserOK, Unsent, InFlight, Fits
    <3>4. WireInv'
      <4>1. \A i \in OnTheWay' \ {0} : i \in abandoned' \/ \E s \in Users : th'[s].id = i /\ th'[s].pc \in InFlight
        <5>1. \A s \in Users : th[s].pc \in InFlight => th'[s].pc \in InFlight /\ th'[s].id = th[s].id
          BY <1>0, <3>1, Wakes, ThreadFacts DEF InFlight
        <5>2. QED  BY <1>0, <2>4, <2>6, <5>1 DEF WireInv
      <4>2. QED
        BY <1>0, <2>3, <2>4, <2>5, <2>6, <3>1, <4>1 DEF WireInv
    <3>5. NumbersInv'
      <4>1. \A s \in Users : th'[s].id = th[s].id
        BY <1>0, <3>1, Wakes, ThreadFacts
      <4>2. QED  BY <1>0, <2>4, <2>6, <4>1 DEF NumbersInv
    <3>6. QED  BY <3>3, <3>4, <3>5 DEF Result
  <2>10. QED  BY <2>8, <2>9
<1>4. CASE RxNotifies
  <2>1. UNCHANGED <<finish, abandoned, commands, wireVars>>
    BY <1>4 DEF RxNotifies, countVars
  <2>2. CASE UNCHANGED <<connected, slot, event, th>>
    BY <1>0, <2>1, <2>2, WireKept, ResultFewer
  <2>3. CASE ~UNCHANGED <<connected, slot, event, th>>
    <3>1. connected' = FALSE /\ slot' = "none" /\ event' = TRUE /\ th' = Woken
      BY <1>4, <2>3 DEF RxNotifies, LostWakes
    <3>2. \A u \in Users : /\ th'[u].pc = IF th[u].pc = "wait" THEN "read" ELSE th[u].pc
                           /\ th'[u].name = th[u].name /\ th'[u].id = th[u].id /\ th'[u].got = th[u].got
                           /\ th'[u].out = th[u].out
      BY <1>0, <3>1, Wakes, ThreadFacts
    <3>3. \A u \in Users : UserOK(u)'
      BY <2>1, <3>1, <3>2 DEF Result, UserOK, Unsent, InFlight, Fits
    <3>4. WireInv' /\ OnTheWay' = OnTheWay
      BY <1>0, <2>1, <3>2, WireKept DEF InFlight
    <3>5. NumbersInv'
      BY <1>0, <2>1, <3>2, <3>4 DEF NumbersInv
    <3>6. QED  BY <3>3, <3>4, <3>5 DEF Result
  <2>4. QED  BY <2>2, <2>3
<1>5. QED  BY <1>1, <1>2, <1>3, <1>4 DEF Receiver

\* A message is put at the end of those to read: from the SDK, or of no command.
LEMMA ResultArrives ==
    ASSUME TypeInv, Result, UNCHANGED <<th, finish, slot, event, abandoned, commands, connected, toSdk>>,
           NEW m \in Read, fromSdk' = Append(fromSdk, m), sdk'.id \in {0, sdk.id},
           m.id = 0 \/ (m.id = sdk.id /\ sdk'.id = 0)
    PROVE  Result'
<1>0. WireInv /\ fromSdk \in Seq(Read) /\ toSdk \in Seq(Given)
  BY ResultFacts DEF Result
<1>1. /\ Ids(fromSdk)' = Ids(fromSdk) \cup {m.id}
      /\ OnceEach(fromSdk) /\ (m.id \notin Ids(fromSdk) \/ m.id = 0) => OnceEach(fromSdk)'
  <2>1. /\ Ids(Append(fromSdk, m)) = Ids(fromSdk) \cup {m.id}
        /\ OnceEach(fromSdk) /\ (m.id \notin Ids(fromSdk) \/ m.id = 0) => OnceEach(Append(fromSdk, m))
    BY <1>0, IdsAppend
  <2>2. Ids(fromSdk)' = Ids(Append(fromSdk, m)) /\ (OnceEach(fromSdk)' <=> OnceEach(Append(fromSdk, m)))
    BY DEF Ids, OnceEach
  <2>3. QED  BY <2>1, <2>2
<1>2. Ids(toSdk)' = Ids(toSdk) /\ (OnceEach(toSdk)' <=> OnceEach(toSdk))
  BY DEF Ids, OnceEach
<1>3. 0 \notin Ids(toSdk)
  <2>1. \A i \in 1..Len(toSdk) : toSdk[i] \in Given
    BY <1>0, ElementOfSeq
  <2>2. \A r \in Given : r.id # 0
    BY DEF Given
  <2>3. QED  BY <2>1, <2>2 DEF Ids
<1>4. OnTheWay' \subseteq OnTheWay \cup {0}
  BY <1>1, <1>2 DEF OnTheWay
<1>5. WireInv'
  BY <1>0, <1>1, <1>2, <1>3, <1>4 DEF WireInv
<1>6. QED  BY <1>4, <1>5, ResultFewer

LEMMA ResultSdk ==
    ASSUME TypeInv, Result, SdkTakes \/ SdkEnds \/ DeviceOffline \/ LoseLink
    PROVE  Result'
<1>0. WireInv
  BY DEF Result
<1>1. UNCHANGED <<th, finish, slot, event, abandoned, commands, connected>>
  BY DEF SdkTakes, SdkEnds, DeviceOffline, LoseLink, slotVars, histVars, linkVars, countVars
<1>2. CASE SdkTakes
  <2> DEFINE r == Head(toSdk)
  <2>1. /\ toSdk \in Seq(Given) /\ toSdk # <<>> /\ sdk' = r /\ toSdk' = Tail(toSdk) /\ fromSdk' = fromSdk
        /\ r \in Given
    BY <1>2, ResultFacts, HeadTailProperties DEF SdkTakes
  <2>2. r.id # 0
    BY <2>1 DEF Given
  <2>3. /\ Ids(toSdk) = {r.id} \cup Ids(toSdk)'
        /\ OnceEach(toSdk)' /\ r.id \notin Ids(toSdk)'
    <3>1. /\ Ids(toSdk) = {Head(toSdk).id} \cup Ids(Tail(toSdk))
          /\ OnceEach(toSdk) => OnceEach(Tail(toSdk))
                /\ (Head(toSdk).id # 0 => Head(toSdk).id \notin Ids(Tail(toSdk)))
      BY <2>1, IdsHeadTail
    <3>2. Ids(toSdk)' = Ids(Tail(toSdk)) /\ (OnceEach(toSdk)' <=> OnceEach(Tail(toSdk)))
      BY <2>1 DEF Ids, OnceEach
    <3>3. QED  BY <1>0, <2>2, <3>1, <3>2 DEF WireInv
  <2>4. Ids(fromSdk)' = Ids(fromSdk) /\ (OnceEach(fromSdk)' <=> OnceEach(fromSdk))
    BY <2>1 DEF Ids, OnceEach
  <2> HIDE DEF r
  <2>5. OnTheWay' \subseteq OnTheWay
    BY <2>1, <2>3, <2>4 DEF OnTheWay
  <2>6. WireInv'
    BY <1>0, <1>1, <2>1, <2>3, <2>4, <2>5 DEF WireInv
  <2>7. QED  BY <1>1, <2>5, <2>6, ResultFewer
<1>3. CASE SdkEnds
  <2>1. sdk.id # 0 /\ sdk'.id = 0 /\ toSdk' = toSdk
    BY <1>3 DEF SdkEnds
  <2>2. CASE fromSdk' = fromSdk
    <3>1. OnTheWay' \subseteq OnTheWay \cup {0}
      BY <2>1, <2>2 DEF OnTheWay, Ids
    <3>2. WireInv'
      <4>1. /\ Ids(toSdk)' = Ids(toSdk) /\ (OnceEach(toSdk)' <=> OnceEach(toSdk))
            /\ Ids(fromSdk)' = Ids(fromSdk) /\ (OnceEach(fromSdk)' <=> OnceEach(fromSdk))
        BY <2>1, <2>2 DEF Ids, OnceEach
      <4>2. QED  BY <1>0, <1>1, <2>1, <3>1, <4>1 DEF WireInv
    <3>3. QED  BY <1>1, <3>1, <3>2, ResultFewer
  <2>3. CASE fromSdk' # fromSdk
    <3>1. PICK kind \in Answers(sdk.name), good \in BOOLEAN :
             fromSdk' = Append(fromSdk, [kind |-> kind, id |-> sdk.id, good |-> good])
      BY <1>3, <2>3 DEF SdkEnds
    <3>2. sdk \in Given
      BY <2>1, ResultFacts
    <3> DEFINE m == [kind |-> kind, id |-> sdk.id, good |-> good]
    <3>3. m \in Read
      <4>1. sdk.name \in AllNames /\ sdk.id \in 0..MaxCommands
        BY <3>2, ThreadFacts DEF Given
      <4>2. kind \in Kinds
        BY <4>1, AnswerFacts
      <4>3. QED  BY <2>1, <4>1, <4>2 DEF Read, Messages
    <3>4. fromSdk' = Append(fromSdk, m) /\ m.id = sdk.id
      BY <3>1
    <3> HIDE DEF m
    <3>5. QED  BY <1>1, <2>1, <3>3, <3>4, ResultArrives
  <2>4. QED  BY <2>2, <2>3
<1>4. CASE DeviceOffline
  <2> DEFINE m == [kind |-> <<"deviceStatus", "">>, id |-> 0, good |-> FALSE]
  <2>1. m \in Read /\ m.id = 0
    <3>1. <<"deviceStatus", "">> \in Kinds /\ 0 \in 0..MaxCommands
      BY ThreadFacts DEF Kinds
    <3>2. QED  BY <3>1 DEF Read, Messages
  <2>2. fromSdk' = Append(fromSdk, m) /\ UNCHANGED <<toSdk, sdk>>
    BY <1>4 DEF DeviceOffline
  <2> HIDE DEF m
  <2>3. QED  BY <1>1, <2>1, <2>2, ResultArrives
<1>5. CASE LoseLink
  <2>1. toSdk' = <<>> /\ fromSdk' \in {fromSdk, <<>>} /\ sdk' = sdk
    BY <1>5 DEF LoseLink
  <2>2. Ids(toSdk)' = {} /\ OnceEach(toSdk)'
    BY <2>1, IdsEmpty DEF Ids, OnceEach
  <2>3. (Ids(fromSdk)' = {} /\ OnceEach(fromSdk)') \/ (fromSdk' = fromSdk /\ Ids(fromSdk)' = Ids(fromSdk))
    BY <2>1, IdsEmpty DEF Ids, OnceEach
  <2>4. OnTheWay' \subseteq OnTheWay
    BY <2>1, <2>2, <2>3 DEF OnTheWay
  <2>5. OnceEach(fromSdk)'
    BY <1>0, <2>3 DEF WireInv, OnceEach
  <2>6. WireInv'
    BY <1>0, <1>1, <2>1, <2>2, <2>3, <2>4, <2>5 DEF WireInv
  <2>7. QED  BY <1>1, <2>4, <2>6, ResultFewer
<1>6. QED  BY <1>2, <1>3, <1>4, <1>5

\* Who has begun to stop the client goes on, and never starts anew.
LEMMA StopperOnce ==
    ASSUME TypeInv, Next, th'[Stopper].pc = "idle"
    PROVE  /\ th[Stopper].pc = "idle" /\ ~StopBegins /\ ~StopReleased
           /\ ~SendCommand(Stopper) /\ ~Reconnects(Stopper)
<1>0. th \in [Threads -> Locals] /\ th[Stopper] \in Locals /\ Stopper \in Threads
  BY ResultFacts, ThreadFacts
<1>1. ASSUME SendCommand(Stopper) PROVE FALSE
  <2>1. CASE GivesUp(Stopper)
    BY <1>0, <2>1, Wakes DEF GivesUp, Locals
  <2>2. CASE ~GivesUp(Stopper)
    BY <1>0, <1>1, <2>2 DEF SendCommand, LooksAtLink, ClaimsSlot, Refused, Sends, SendFails, Waits, TimesOut, Reads,
       MarksInit, Goto, Returns, Locals
  <2>3. QED  BY <2>1, <2>2
<1>2. ASSUME Reconnects(Stopper) PROVE FALSE
  BY <1>0, <1>2 DEF Reconnects, Closes, Joins, Goto, Locals
<1>3. ASSUME StopBegins \/ StopReleased PROVE FALSE
  <2>1. th' = [th EXCEPT ![Stopper] = [Idle EXCEPT !.pc = "check", !.name = "release", !.id = commands + 1]]
        \/ Goto(Stopper, "close")
    BY <1>3 DEF StopBegins, StopReleased
  <2>2. [Idle EXCEPT !.pc = "check", !.name = "release", !.id = commands + 1].pc = "check"
    BY IdleFacts DEF Locals
  <2>3. QED  BY <1>0, <2>1, <2>2 DEF Goto, Locals
<1>4. th[Stopper].pc = "idle"
  <2>1. ASSUME NEW t \in Users, SendCommand(t) PROVE th[Stopper].pc = "idle"
    <3>1. CASE GivesUp(t)
      BY <1>0, <3>1, Wakes, ThreadFacts DEF GivesUp
    <3>2. CASE ~GivesUp(t)
      BY <1>0, <2>1, <3>2, ThreadFacts DEF SendCommand, LooksAtLink, ClaimsSlot, Refused, Sends, SendFails, Waits,
         TimesOut, Reads, MarksInit, Goto, Returns
    <3>3. QED  BY <3>1, <3>2
  <2>2. ASSUME NEW t \in Users, Reconnects(t) PROVE th[Stopper].pc = "idle"
    BY <1>0, <2>2, ThreadFacts DEF Reconnects, Closes, Joins, Goto
  <2>3. ASSUME NEW u \in Users, NEW name \in AllNames, Calls(u, name) PROVE th[Stopper].pc = "idle"
    BY <1>0, <2>3, ThreadFacts DEF Calls
  <2>4. ASSUME NEW u \in Users, Starts(u) \/ Continues(u) \/ Unlocks(u) \/ Dials(u) \/ DialFails(u)
        PROVE  th[Stopper].pc = "idle"
    BY <1>0, <2>4, ThreadFacts DEF Starts, StaleReleased, InitSucceeds, InitRecovers, StartFails, Serves, Continues,
       Unlocks, Dials, DialFails, Goto
  <2>5. ASSUME Receiver PROVE th[Stopper].pc = "idle"
    <3>1. th' = th \/ th' = Woken \/ Goto(Stopper, "close")
      BY <2>5 DEF Receiver, RxStops, RxHandles, RxOffline, RxLost, RxNotifies, LostWakes, RxCallsBack
    <3>2. QED  BY <1>0, <3>1, Wakes DEF Goto, Locals
  <2>6. ASSUME SdkTakes \/ SdkEnds \/ DeviceOffline \/ LoseLink PROVE th[Stopper].pc = "idle"
    BY <2>6 DEF SdkTakes, SdkEnds, DeviceOffline, LoseLink
  <2>7. QED
    BY <1>1, <1>2, <1>3, <2>1, <2>2, <2>3, <2>4, <2>5, <2>6, ThreadFacts DEF Next
<1>5. QED  BY <1>1, <1>2, <1>3, <1>4

LEMMA ResultNext ==
    ASSUME TypeInv, Alone, Alone', ResultInv, Next
    PROVE  ResultInv'
<1> SUFFICES ASSUME th'[Stopper].pc = "idle" PROVE Result'
  BY DEF ResultInv, Result
<1>1. /\ th[Stopper].pc = "idle" /\ ~StopBegins /\ ~StopReleased
      /\ ~SendCommand(Stopper) /\ ~Reconnects(Stopper)
  BY StopperOnce
<1>2. Result
  BY <1>1 DEF ResultInv, Result
<1>3. QED
  BY <1>1, <1>2, ResultCommand, ResultUsers, ResultReceiver, ResultSdk, ThreadFacts DEF Next

LEMMA ResultAlways == Spec => []ResultInv
<1>1. Init => ResultInv
  <2> SUFFICES ASSUME Init PROVE Result
    BY DEF ResultInv, Result
  <2>1. \A u \in Users : UserOK(u)
    BY IdleFacts, ThreadFacts DEF Init, UserOK, Unsent, InFlight
  <2>2. Ids(toSdk) = {} /\ Ids(fromSdk) = {} /\ OnceEach(toSdk) /\ OnceEach(fromSdk) /\ OnTheWay = {0}
    BY IdsEmpty DEF Init, OnTheWay
  <2>3. WireInv
    BY <2>2, IdleFacts DEF Init, WireInv
  <2>4. NumbersInv
    BY <2>2, IdleFacts, ThreadFacts DEF Init, NumbersInv
  <2>5. QED  BY <2>1, <2>3, <2>4 DEF Result
<1>2. TypeInv /\ Alone /\ Alone' /\ ResultInv /\ [Next]_vars => ResultInv'
  <2> SUFFICES ASSUME TypeInv, Alone, Alone', ResultInv, [Next]_vars PROVE ResultInv'  OBVIOUS
  <2>1. CASE UNCHANGED vars
    <3>1. UNCHANGED <<th, finish, slot, event, abandoned, commands, connected, wireVars>>
      BY <2>1 DEF vars, slotVars, histVars, countVars, linkVars
    <3>2. SUFFICES ASSUME Result PROVE Result'
      BY <3>1 DEF ResultInv, Result
    <3>3. WireInv' /\ OnTheWay' = OnTheWay
      BY <3>1, <3>2, WireKept DEF Result
    <3>4. QED  BY <3>1, <3>2, <3>3, ResultFewer
  <2>2. QED  BY <2>1, ResultNext
<1>3. QED  BY <1>1, <1>2, TypeInvariance, AloneAlways, PTL DEF Spec

\* A command that is reported done without a finish message: the connection was
\* found lost while it waited, or somebody is stopping the client.
THEOREM SilentOnlyWhenCutCorrect == Spec => []SilentOnlyWhenCut
<1>1. ResultInv => SilentOnlyWhenCut
  BY DEF ResultInv, UserOK, SilentOnlyWhenCut
<1>2. QED  BY <1>1, ResultAlways, PTL

\* Until somebody stops the client, a command reports its own outcome, or that of an
\* earlier one of its name whose caller had left without the answer.
THEOREM AnswerIsOwnOrLateCorrect == Spec => []AnswerIsOwnOrLate
<1>1. ResultInv => AnswerIsOwnOrLate
  BY DEF ResultInv, UserOK, Fits, AnswerIsOwnOrLate
<1>2. QED  BY <1>1, ResultAlways, PTL

=============================================================================
