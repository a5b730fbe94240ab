-------------------------- MODULE EventDeliveryProofs ---------------------------
(***************************************************************************)
(* Proofs about EventDelivery: TypeOK and DeliveryExplained hold for any   *)
(* requests, any loads and any bounds.                                     *)
(***************************************************************************)
EXTENDS EventDelivery, TLAPS, FiniteSetTheorems

(* A record was handed out, and what became of it is known. *)
Accounted ==
  \A m \in Records : HandedOut(m) => m \in ended \cup dropped \cup {hand}

(* Each interruption drops the record in hand at most. *)
FewDropped == IsFiniteSet(dropped) /\ Cardinality(dropped) <= breaks

(* A record that was not given back is handed out once: no mail before it   *)
(* is in hand, and one from there on.                                       *)
MailedOnce ==
  \A m \in Records : m \notin replayed =>
    /\ mailed[m] <= 1
    /\ ~HandedOut(m) => mailed[m] = 0
    /\ hand = m => HandedOut(m)
    /\ hand = m /\ unsent => mailed[m] = 0

(* Every interruption gives a record back once at most: one that is to be   *)
(* handed out again has at most a mail for each, the one a handler still    *)
(* has to send included, and one that stays handed out has one more.        *)
Pending(m) == IF hand = m /\ unsent THEN 1 ELSE 0
Keeps(m) == HandedOut(m) /\ phase # "closing"
MailsOf(m) ==
  /\ mailed[m] + Pending(m) <= breaks + 1
  /\ ~Keeps(m) => mailed[m] + Pending(m) <= breaks

FewMails == \A m \in Records : MailsOf(m)

(* While nothing has failed, the events a request has published are in the  *)
(* log once and the others are not.                                         *)
Told(r, k) ==
  IF k < next[r] THEN \E i \in 1..Len(log[Event(r, k)]) : Copies(Event(r, k), r) = {i}
                 ELSE Copies(Event(r, k), r) = {}

InStep ==
  faults = 0 =>
    /\ linked
    /\ \A r \in Requests :
         /\ pc[r] = "committed" => next[r] \notin Events(r)
         /\ \A k \in Events(r) : Told(r, k)

IInv == TypeOK /\ Accounted /\ FewDropped /\ MailedOnce /\ FewMails /\ InStep

------------------------------------------------------------------------------
(* Routes and their events *)

(* A route publishes the events of a login, those and an alert, or one. *)
LEMMA RouteShape ==
  ASSUME NEW x \in DOMAIN Published
  PROVE  \/ Published[x] = Append(<<"auth.login", "auth.new_login">>, "auth.suspicious")
         \/ Published[x] = <<"auth.login", "auth.new_login">>
         \/ \E t \in Topics : Published[x] = <<t>>
  <1>1. CASE x = "suspicious"
    BY <1>1 DEF Published, LoginEvents
  <1>2. CASE x = "login"
    BY <1>2 DEF Published, LoginEvents
  <1>3. CASE x \notin {"suspicious", "login"}
    BY <1>3 DEF Published, Topics, Consumed
  <1> QED
    BY <1>1, <1>2, <1>3

(* At most three events, to topics that exist. *)
LEMMA RouteTopics ==
  ASSUME NEW x \in DOMAIN Published
  PROVE  /\ Len(Published[x]) \in 1..3
         /\ \A k \in 1..Len(Published[x]) : Published[x][k] \in Topics
  <1>1. {"auth.login", "auth.new_login", "auth.suspicious"} \subseteq Topics
    BY DEF Topics, Consumed
  <1>2. CASE Published[x] = Append(<<"auth.login", "auth.new_login">>, "auth.suspicious")
    BY <1>1, <1>2
  <1>3. CASE Published[x] = <<"auth.login", "auth.new_login">>
    BY <1>1, <1>3
  <1>4. CASE \E t \in Topics : Published[x] = <<t>>
    BY <1>4
  <1> QED
    BY RouteShape, <1>2, <1>3, <1>4

(* No route publishes to one topic twice. *)
LEMMA RouteTopicsDiffer ==
  ASSUME NEW x \in DOMAIN Published,
         NEW j \in 1..Len(Published[x]), NEW k \in 1..Len(Published[x]),
         Published[x][j] = Published[x][k]
  PROVE  j = k
  BY RouteShape

(* So the events of a request have topics, and there are at most three. *)
LEMMA EventTopics ==
  ASSUME TypeOK, NEW r \in Requests
  PROVE  /\ Events(r) \subseteq 1..3
         /\ \A k \in Events(r) : Event(r, k) \in Topics
         /\ \A j, k \in Events(r) : Event(r, j) = Event(r, k) => j = k
  <1>1. call[r] \in DOMAIN Published
    BY LoadsAssumption DEF TypeOK
  <1> QED
    BY <1>1, RouteTopics, RouteTopicsDiffer DEF Events, Event

------------------------------------------------------------------------------
(* Types *)

(* TypeOK in parts: the log, the places in it, and the rest. *)
LogOK ==
  /\ log \in [Topics -> Seq(Requests)]
  /\ \A t \in Topics : Len(log[t]) \in 0..MaxRecord

PlaceOK ==
  /\ position \in [Topics -> 0..MaxRecord]
  /\ committed \in [Topics -> 0..MaxRecord]
  /\ \A t \in Topics : committed[t] <= position[t] /\ position[t] <= Len(log[t])
  /\ phase \in {"down", "joining"} => position = committed

PublisherOK ==
  /\ call \in Loads
  /\ pc \in [Requests -> {"ready", "publish", "committed", "undone"}]
  /\ next \in [Requests -> 1..4]
  /\ linked \in BOOLEAN
  /\ faults \in 0..MaxFaults

ConsumerOK ==
  /\ phase \in {"down", "joining", "open", "closing"}
  /\ hand \in Records \cup {None}
  /\ unsent \in BOOLEAN
  /\ hand # None => phase = "open"
  /\ breaks \in 0..MaxBreaks
  /\ ended \subseteq Records /\ dropped \subseteq Records /\ replayed \subseteq Records
  /\ mailed \in [Records -> Nat]

(* The length of a topic is a number. *)
LEMMA LengthsAreNumbers ==
  ASSUME NEW S, NEW f \in [Topics -> Seq(S)]
  PROVE  \A t \in Topics : Len(f[t]) \in Nat
  OBVIOUS

(* TypeOK is the conjunction of its parts. *)
LEMMA TypeParts == TypeOK <=> LogOK /\ PlaceOK /\ PublisherOK /\ ConsumerOK
  <1>1. log \in [Topics -> Seq(Requests)] => \A t \in Topics : Len(log[t]) \in Nat
    BY LengthsAreNumbers
  <1>2. LogOK <=> log \in [Topics -> Seq(Requests)] /\ \A t \in Topics : Len(log[t]) <= MaxRecord
    BY <1>1, BoundsAssumption DEF LogOK
  <1> QED
    BY <1>2 DEF TypeOK, PlaceOK, PublisherOK, ConsumerOK

(* The initial states have their types. *)
LEMMA TypeInit == Init => TypeOK
  <1> SUFFICES ASSUME Init PROVE TypeOK
    OBVIOUS
  <1> USE BoundsAssumption DEF Init
  <1>1. LogOK /\ \A t \in Topics : Len(log[t]) = 0
    BY DEF LogOK
  <1>2. PlaceOK
    BY <1>1 DEF PlaceOK
  <1>3. PublisherOK
    BY DEF PublisherOK
  <1>4. ConsumerOK
    <2>1. mailed \in [Records -> Nat]
      OBVIOUS
    <2>2. breaks \in 0..MaxBreaks /\ hand = None
      OBVIOUS
    <2>3. unsent \in BOOLEAN
      OBVIOUS
    <2>4. ended = {} /\ dropped = {} /\ replayed = {} /\ phase = "down"
      OBVIOUS
    <2> QED
      BY ONLY <2>1, <2>2, <2>3, <2>4 DEF ConsumerOK
  <1> QED
    BY <1>1, <1>2, <1>3, <1>4, TypeParts

(* The log grows, and to its bound at most. *)
LEMMA LogStep ==
  ASSUME LogOK, PublisherOK, TypeOK, [Next]_vars
  PROVE  LogOK' /\ \A t \in Topics : Len(log[t]) <= Len(log'[t])
  <1>1. ASSUME NEW r \in Requests, Publish(r)
        PROVE  LogOK' /\ \A t \in Topics : Len(log[t]) <= Len(log'[t])
    <2> DEFINE t == Event(r, next[r])
    <2>1. t \in Topics
      BY <1>1, EventTopics DEF Publish
    <2>2. /\ log \in [Topics -> Seq(Requests)] /\ log[t] \in Seq(Requests)
          /\ Append(log[t], r) \in Seq(Requests) /\ log[t] \o <<r, r>> \in Seq(Requests)
      BY <2>1 DEF LogOK
    <2>3. /\ Len(log[t]) <= Len(Append(log[t], r))
          /\ Len(log[t]) <= Len(log[t] \o <<r, r>>)
      BY <2>2
    <2>4. PICK s \in {log[t], Append(log[t], r), log[t] \o <<r, r>>} : log' = [log EXCEPT ![t] = s]
      <3>1. log = [log EXCEPT ![t] = log[t]]
        BY <2>2
      <3> QED
        BY <1>1, <3>1 DEF Publish, Sends
    <2>5. log' \in [Topics -> Seq(Requests)]
      BY <2>1, <2>2, <2>4
    <2>6. \A x \in Topics : Len(log[x]) <= Len(log'[x])
      BY <2>1, <2>2, <2>3, <2>4, LengthsAreNumbers
    <2>7. \A x \in Topics : Len(log'[x]) <= MaxRecord
      BY <1>1 DEF Publish
    <2> QED
      BY <2>5, <2>6, <2>7, LengthsAreNumbers, BoundsAssumption DEF LogOK
  <1>2. CASE UNCHANGED log
    BY <1>2 DEF LogOK
  <1> QED
    BY <1>1, <1>2
    DEF Next, RequestStep, TakeAny, Listen, Disturb, Begin, Commit, Undo, Restart, Boot, Join,
        Take, Send, Finish, GiveUp, EndHandler, Close, AutoCommit, Rejoin, Break, Cancel, Kill,
        vars

(* auth-service: requests, and the link to the log. *)
LEMMA PublisherStep ==
  ASSUME PublisherOK, TypeOK, [Next]_vars
  PROVE  PublisherOK'
  <1> USE BoundsAssumption
  <1>1. ASSUME NEW r \in Requests, Begin(r) \/ Commit(r) \/ Undo(r) PROVE PublisherOK'
    BY <1>1 DEF PublisherOK, Begin, Commit, Undo, Fault
  <1>2. ASSUME NEW r \in Requests, Publish(r) PROVE PublisherOK'
    <2>1. next[r] \in 1..3 /\ faults' \in 0..MaxFaults
      BY <1>2, EventTopics DEF Publish, Sends, Fault, PublisherOK
    <2> QED
      BY <1>2, <2>1 DEF PublisherOK, Publish
  <1>3. CASE Restart
    BY <1>3 DEF PublisherOK, Restart, Fault
  <1>4. ASSUME UNCHANGED publisherVars, UNCHANGED faults \/ Fault PROVE PublisherOK'
    BY <1>4 DEF PublisherOK, publisherVars, Fault
  <1> QED
    BY <1>1, <1>2, <1>3, <1>4
    DEF Next, RequestStep, TakeAny, Listen, Disturb, Boot, Join, Take, Send, Finish, GiveUp,
        EndHandler, Close, AutoCommit, Rejoin, Break, Cancel, Kill, CommitLast, vars

(* A place never passes the end of the log, nor a commit the position. *)
LEMMA PlaceStep ==
  ASSUME LogOK, PlaceOK, ConsumerOK, TypeOK, [Next]_vars
  PROVE  PlaceOK'
  <1>1. \A t \in Topics : Len(log[t]) \in Nat /\ Len(log'[t]) \in Nat /\ Len(log[t]) <= Len(log'[t])
    BY LogStep, TypeParts DEF LogOK
  <1>2. CASE UNCHANGED <<phase, position, committed>>
    <2>1. \A t \in Topics : position[t] \in Nat /\ position[t] <= Len(log'[t])
      BY <1>1 DEF PlaceOK
    <2> QED
      BY <1>2, <2>1 DEF PlaceOK
  <1>3. CASE UNCHANGED log /\ committed' = position /\ position' = position
    BY <1>3 DEF PlaceOK
  <1>4. CASE CommitLast /\ FallBack /\ UNCHANGED log
    <2>1. committed' \in [Topics -> 0..MaxRecord] /\ \A t \in Topics : committed'[t] <= position[t]
      BY <1>4 DEF CommitLast, PlaceOK
    <2>2. \A t \in Topics : committed'[t] <= Len(log[t])
      BY <1>1, <2>1 DEF PlaceOK
    <2> QED
      BY <1>4, <2>1, <2>2 DEF FallBack, PlaceOK
  <1>5. CASE UNCHANGED <<log, committed>> /\ FallBack
    BY <1>1, <1>5 DEF FallBack, PlaceOK
  <1>6. ASSUME NEW t \in Consumed, Take(t) PROVE PlaceOK'
    <2>1. t \in Topics
      BY DEF Topics
    <2>2. position[t] \in Nat /\ Len(log[t]) \in 0..MaxRecord /\ position[t] < Len(log[t])
      BY <1>6, <2>1 DEF Take, PlaceOK, LogOK
    <2>3. position[t] + 1 \in 0..MaxRecord /\ position[t] + 1 <= Len(log[t])
      BY <2>2, BoundsAssumption
    <2> QED
      BY <1>6, <2>1, <2>3 DEF Take, PlaceOK
  <1>7. CASE Boot \/ Join \/ Break
    BY <1>7 DEF Boot, Join, Break, placeVars, PlaceOK
  <1> QED
    BY <1>2, <1>3, <1>4, <1>5, <1>6, <1>7
    DEF Next, RequestStep, TakeAny, Listen, Disturb, Begin, Publish, Commit, Undo, Restart,
        Send, Finish, GiveUp, EndHandler, Close, AutoCommit, Rejoin, Cancel, Kill,
        consumerVars, placeVars, vars

(* email-service: the consumer and the record in hand. *)
LEMMA ConsumerStep ==
  ASSUME LogOK, PlaceOK, ConsumerOK, [Next]_vars
  PROVE  ConsumerOK'
  <1> USE BoundsAssumption
  <1>1. CASE UNCHANGED consumerVars
    BY <1>1 DEF ConsumerOK, consumerVars, deliveryVars, placeVars
  <1>2. CASE Boot \/ Join
    BY <1>2 DEF ConsumerOK, Boot, Join, deliveryVars, placeVars
  <1>3. ASSUME NEW t \in Consumed, Take(t) PROVE ConsumerOK'
    <2>1. t \in Topics /\ position[t] + 1 \in 1..MaxRecord
      BY <1>3 DEF Take, Topics, PlaceOK, LogOK
    <2>2. hand' \in Records
      BY <1>3, <2>1 DEF Take, Records
    <2> QED
      BY <1>3, <2>2 DEF ConsumerOK, Take
  <1>4. CASE Send
    <2>1. mailed' \in [Records -> Nat]
      BY <1>4 DEF ConsumerOK, Send
    <2> QED
      BY <1>4, <2>1 DEF ConsumerOK, Send, placeVars
  <1>5. CASE EndHandler
    BY <1>5 DEF ConsumerOK, EndHandler, placeVars
  <1>6. CASE AutoCommit
    BY <1>6 DEF ConsumerOK, AutoCommit, deliveryVars
  <1>7. CASE Break
    BY <1>7 DEF ConsumerOK, Break, MayBreak, deliveryVars
  <1>8. ASSUME FallBack PROVE replayed' \subseteq Records
    BY <1>8 DEF FallBack, ConsumerOK
  <1>9. CASE Rejoin
    BY <1>8, <1>9 DEF ConsumerOK, Rejoin, MayBreak, deliveryVars
  <1>10. CASE Close
    BY <1>8, <1>10 DEF ConsumerOK, Close, deliveryVars
  <1>11. ASSUME CutOff PROVE dropped' \subseteq Records
    BY <1>11 DEF CutOff, ConsumerOK
  <1>12. CASE Cancel
    <2>1. breaks' \in 0..MaxBreaks /\ phase' = "down" /\ CutOff /\ FallBack
      BY <1>12 DEF ConsumerOK, Cancel, MayBreak
    <2>2. hand' = None /\ unsent' = FALSE /\ UNCHANGED <<ended, mailed>>
      BY <2>1 DEF CutOff
    <2> QED
      BY <1>8, <1>11, <2>1, <2>2 DEF ConsumerOK
  <1>13. CASE Kill
    <2>1. breaks' \in 0..MaxBreaks /\ phase' = "down" /\ CutOff /\ FallBack
      BY <1>13 DEF ConsumerOK, Kill, MayBreak
    <2>2. hand' = None /\ unsent' = FALSE /\ UNCHANGED <<ended, mailed>>
      BY <2>1 DEF CutOff
    <2> QED
      BY <1>8, <1>11, <2>1, <2>2 DEF ConsumerOK
  <1> QED
    BY <1>1, <1>2, <1>3, <1>4, <1>5, <1>6, <1>7, <1>9, <1>10, <1>12, <1>13
    DEF Next, RequestStep, TakeAny, Listen, Disturb, Begin, Publish, Commit, Undo, Restart,
        Finish, GiveUp, vars

(* Every step keeps the types. *)
LEMMA TypeStep == TypeOK /\ [Next]_vars => TypeOK'
  <1> SUFFICES ASSUME TypeOK, [Next]_vars PROVE TypeOK'
    OBVIOUS
  <1>1. LogOK /\ PlaceOK /\ PublisherOK /\ ConsumerOK
    BY TypeParts
  <1>2. LogOK' /\ PlaceOK' /\ PublisherOK' /\ ConsumerOK'
    BY <1>1, LogStep, PlaceStep, PublisherStep, ConsumerStep
  <1>3. TypeOK' <=> LogOK' /\ PlaceOK' /\ PublisherOK' /\ ConsumerOK'
    BY TypeParts, PTL
  <1> QED
    BY <1>2, <1>3

------------------------------------------------------------------------------
(* What becomes of a record *)

(* When the consumer falls back, what it handed out before the committed    *)
(* offset stays handed out, and the rest is given back.                     *)
LEMMA FallBackKeeps ==
  ASSUME TypeOK, FallBack, CommitLast \/ committed' = committed
  PROVE  \A m \in Records :
           /\ HandedOut(m)' => HandedOut(m)
           /\ m \notin replayed' => m \notin replayed /\ (HandedOut(m)' <=> HandedOut(m))
  <1> TAKE m \in Records
  <1>1. m[1] \in Topics /\ m[2] \in Nat
    BY DEF Records
  <1>2. committed'[m[1]] \in Nat /\ position[m[1]] \in Nat /\ committed'[m[1]] <= position[m[1]]
    BY <1>1 DEF TypeOK, CommitLast
  <1>3. position'[m[1]] = committed'[m[1]]
    BY DEF FallBack
  <1>4. m \notin replayed' => m \notin replayed /\ ~(HandedOut(m) /\ m[2] > committed'[m[1]])
    BY DEF FallBack
  <1> QED
    BY <1>1, <1>2, <1>3, <1>4 DEF HandedOut

(* A record that is taken was not handed out, and it is the only change.    *)
LEMMA TakeHandsOut ==
  ASSUME TypeOK, NEW t \in Consumed, Take(t)
  PROVE  /\ hand' \in Records /\ hand' # None /\ hand = None /\ ~HandedOut(hand')
         /\ \A m \in Records : HandedOut(m)' <=> HandedOut(m) \/ m = hand'
  <1>1. t \in Topics
    BY DEF Topics
  <1>2. /\ log[t] \in Seq(Requests) /\ position[t] \in Nat /\ Len(log[t]) <= MaxRecord
        /\ position[t] < Len(log[t])
    BY <1>1 DEF TypeOK, Take
  <1>3. position[t] + 1 \in 1..MaxRecord
    BY <1>2, BoundsAssumption
  <1>4. hand' = <<t, position[t] + 1>> /\ hand = None
    BY DEF Take
  <1>5. hand' \in Records /\ hand' # None /\ ~HandedOut(hand')
    BY <1>1, <1>2, <1>3, <1>4, NoneAssumption DEF Records, HandedOut
  <1>6. ASSUME NEW m \in Records PROVE HandedOut(m)' <=> HandedOut(m) \/ m = hand'
    <2>1. PICK x \in Topics, n \in 1..MaxRecord : m = <<x, n>>
      BY DEF Records
    <2>2. position' = [position EXCEPT ![t] = @ + 1] /\ position \in [Topics -> 0..MaxRecord]
      BY DEF Take, TypeOK
    <2>3. CASE x = t
      <3>1. position'[x] = position[t] + 1
        BY <1>1, <2>2, <2>3
      <3>2. HandedOut(m)' <=> n <= position[t] + 1
        BY <2>1, <3>1 DEF HandedOut
      <3>3. HandedOut(m) <=> n <= position[t]
        BY <2>1, <2>3 DEF HandedOut
      <3>4. m = hand' <=> n = position[t] + 1
        BY <1>4, <2>1, <2>3
      <3> QED
        BY <1>2, <2>1, <3>2, <3>3, <3>4
    <2>4. CASE x # t
      <3>1. position'[x] = position[x] /\ m # hand'
        BY <1>4, <2>1, <2>2, <2>4
      <3> QED
        BY <2>1, <3>1 DEF HandedOut
    <2> QED
      BY <2>3, <2>4
  <1> QED
    BY <1>4, <1>5, <1>6

(* The steps of auth-service, the commits and the errors change nothing of  *)
(* what Accounted, FewDropped and MailedOnce are about.                     *)
OtherStep ==
  /\ UNCHANGED <<position, hand, unsent, ended, mailed, dropped, replayed>>
  /\ breaks' \in {breaks, breaks + 1}

(* Every step is one of five kinds for the records handed out. *)
LEMMA StepKinds ==
  ASSUME TypeOK, [Next]_vars
  PROVE  \/ OtherStep
         \/ \E t \in Consumed : Take(t)
         \/ Send \/ EndHandler
         \/ FallBack /\ CommitLast /\ UNCHANGED <<hand, unsent, ended, mailed, dropped>>
            /\ breaks' \in {breaks, breaks + 1}
         \/ FallBack /\ (CommitLast \/ committed' = committed) /\ CutOff /\ MayBreak
  <1>1. CASE Close \/ Rejoin \/ Cancel \/ Kill
    BY <1>1 DEF Close, Rejoin, Cancel, Kill, MayBreak, deliveryVars
  <1>2. CASE Break \/ AutoCommit \/ Boot \/ Join
    BY <1>2 DEF OtherStep, Break, AutoCommit, Boot, Join, MayBreak, deliveryVars, placeVars
  <1>3. CASE UNCHANGED consumerVars
    BY <1>3 DEF OtherStep, consumerVars, deliveryVars, placeVars
  <1> QED
    BY <1>1, <1>2, <1>3
    DEF Next, RequestStep, TakeAny, Listen, Disturb, Begin, Publish, Commit, Undo, Restart,
        Finish, GiveUp, vars

(* Every step knows what became of the records handed out. *)
LEMMA AccountedStep ==
  ASSUME TypeOK, Accounted, [Next]_vars
  PROVE  Accounted'
  <1> SUFFICES ASSUME NEW m \in Records, HandedOut(m)'
               PROVE  m \in ended' \cup dropped' \cup {hand'}
    BY DEF Accounted, Records
  <1>0. m # None
    BY NoneAssumption DEF Records
  <1>1. CASE OtherStep
    BY <1>1 DEF OtherStep, Accounted, HandedOut
  <1>2. ASSUME NEW t \in Consumed, Take(t) PROVE m \in ended' \cup dropped' \cup {hand'}
    <2>1. HandedOut(m) \/ m = hand'
      BY <1>2, TakeHandsOut
    <2> QED
      BY <1>0, <1>2, <2>1 DEF Take, Accounted
  <1>3. CASE Send
    BY <1>3 DEF Send, placeVars, Accounted, HandedOut
  <1>4. CASE EndHandler
    BY <1>4 DEF EndHandler, placeVars, Accounted, HandedOut
  <1>5. CASE FallBack /\ CommitLast /\ UNCHANGED <<hand, unsent, ended, mailed, dropped>>
    BY <1>5, FallBackKeeps DEF Accounted
  <1>6. CASE FallBack /\ (CommitLast \/ committed' = committed) /\ CutOff
    <2>1. HandedOut(m) /\ m[2] <= committed'[m[1]]
      BY <1>6, FallBackKeeps DEF FallBack, HandedOut
    <2> QED
      BY <1>0, <1>6, <2>1 DEF Accounted, CutOff
  <1> QED
    BY <1>1, <1>2, <1>3, <1>4, <1>5, <1>6, StepKinds

(* A step that drops the record in hand is counted in breaks. *)
LEMMA FewDroppedStep ==
  ASSUME TypeOK, FewDropped, [Next]_vars
  PROVE  FewDropped'
  <1>1. breaks \in Nat /\ Cardinality(dropped) \in Nat
    BY FS_CardinalityType DEF TypeOK, FewDropped
  <1>2. CASE UNCHANGED dropped /\ breaks' \in {breaks, breaks + 1}
    BY <1>1, <1>2 DEF FewDropped
  <1>3. CASE CutOff /\ MayBreak
    <2>1. IsFiniteSet(dropped \cup {hand}) /\ Cardinality(dropped \cup {hand}) <= breaks + 1
      BY <1>1, FS_AddElement DEF FewDropped
    <2>2. dropped' \subseteq dropped \cup {hand}
      BY <1>3 DEF CutOff
    <2>3. IsFiniteSet(dropped') /\ Cardinality(dropped') <= Cardinality(dropped \cup {hand})
      BY <2>1, <2>2, FS_Subset
    <2>4. Cardinality(dropped') \in Nat /\ Cardinality(dropped \cup {hand}) \in Nat
      BY <2>1, <2>3, FS_CardinalityType
    <2> QED
      BY <1>1, <1>3, <2>1, <2>3, <2>4 DEF FewDropped, MayBreak
  <1> QED
    BY <1>2, <1>3, StepKinds DEF OtherStep, Take, Send, EndHandler, placeVars

(* A mail is sent for the record in hand, which comes once unless given back. *)
LEMMA MailedOnceStep ==
  ASSUME TypeOK, MailedOnce, [Next]_vars
  PROVE  MailedOnce'
  <1> DEFINE Good(m) ==
        /\ mailed[m] <= 1
        /\ ~HandedOut(m) => mailed[m] = 0
        /\ hand = m => HandedOut(m)
        /\ hand = m /\ unsent => mailed[m] = 0
  <1> SUFFICES ASSUME NEW m \in Records, m \notin replayed'
               PROVE  Good(m)'
    BY DEF MailedOnce, Records
  <1>0. m # None /\ mailed[m] \in Nat /\ (m \notin replayed => Good(m))
    BY NoneAssumption DEF Records, TypeOK, MailedOnce
  <1>1. CASE OtherStep
    BY <1>0, <1>1 DEF OtherStep, HandedOut
  <1>2. ASSUME NEW t \in Consumed, Take(t) PROVE Good(m)'
    <2>1. m \notin replayed /\ mailed' = mailed
      BY <1>2 DEF Take
    <2>2. hand = None /\ ~HandedOut(hand') /\ (HandedOut(m)' <=> HandedOut(m) \/ m = hand')
      BY <1>2, TakeHandsOut
    <2> QED
      BY <1>0, <2>1, <2>2
  <1>3. CASE Send
    <2>1. m \notin replayed /\ (HandedOut(m)' <=> HandedOut(m)) /\ unsent /\ hand' = hand /\ ~unsent'
      BY <1>3 DEF Send, placeVars, HandedOut
    <2>2. mailed'[m] = IF m = hand THEN mailed[m] + 1 ELSE mailed[m]
      BY <1>3 DEF Send, TypeOK
    <2> QED
      BY <1>0, <2>1, <2>2
  <1>4. CASE EndHandler
    <2>1. m \notin replayed /\ (HandedOut(m)' <=> HandedOut(m)) /\ hand' = None /\ mailed' = mailed
      BY <1>4 DEF EndHandler, placeVars, HandedOut
    <2> QED
      BY <1>0, <2>1
  <1>5. CASE FallBack /\ CommitLast /\ UNCHANGED <<hand, unsent, ended, mailed, dropped>>
    BY <1>0, <1>5, FallBackKeeps
  <1>6. CASE FallBack /\ (CommitLast \/ committed' = committed) /\ CutOff
    <2>1. m \notin replayed /\ (HandedOut(m)' <=> HandedOut(m))
      BY <1>6, FallBackKeeps
    <2> QED
      BY <1>0, <1>6, <2>1 DEF CutOff
  <1> QED
    BY <1>1, <1>2, <1>3, <1>4, <1>5, <1>6, StepKinds

(* An interruption gives a record back once, and pays for one mail more.    *)
LEMMA FewMailsStep ==
  ASSUME TypeOK, FewMails, [Next]_vars
  PROVE  FewMails'
  <1> SUFFICES ASSUME NEW m \in Records
               PROVE  MailsOf(m)'
    BY DEF FewMails, Records
  <1>0. /\ m # None /\ mailed[m] \in Nat /\ breaks \in Nat /\ MailsOf(m)
        /\ Pending(m) \in {0, 1}
    BY NoneAssumption DEF Records, TypeOK, FewMails, Pending
  <1>1. CASE Boot \/ Join \/ UNCHANGED consumerVars
    <2>1. /\ UNCHANGED <<hand, unsent, mailed, breaks, position>>
          /\ phase' = "closing" => phase = "closing"
      BY <1>1 DEF Boot, Join, consumerVars, deliveryVars, placeVars
    <2>2. Pending(m)' = Pending(m) /\ mailed'[m] = mailed[m]
          /\ breaks' = breaks /\ (~Keeps(m)' => ~Keeps(m))
      BY <2>1 DEF Pending, Keeps, HandedOut
    <2> QED
      BY <1>0, <2>2 DEF MailsOf
  <1>2. ASSUME NEW t \in Consumed, Take(t) PROVE MailsOf(m)'
    <2>1. /\ hand = None /\ ~HandedOut(hand') /\ mailed' = mailed /\ breaks' = breaks
          /\ (HandedOut(m)' <=> HandedOut(m) \/ m = hand') /\ phase = "open" /\ phase' = phase
      BY <1>2, TakeHandsOut DEF Take
    <2>2. CASE m = hand'
      <3>1. mailed[m] <= breaks /\ Keeps(m)' /\ Pending(m)' \in {0, 1}
        BY <1>0, <2>1, <2>2 DEF MailsOf, Keeps, Pending
      <3> QED
        BY <1>0, <2>1, <3>1 DEF MailsOf
    <2>3. CASE m # hand'
      <3>1. Pending(m)' = Pending(m) /\ (Keeps(m)' <=> Keeps(m))
        BY <1>0, <2>1, <2>3 DEF Pending, Keeps
      <3> QED
        BY <1>0, <2>1, <3>1 DEF MailsOf
    <2> QED
      BY <2>2, <2>3
  <1>3. CASE Send
    <2>1. /\ mailed'[m] + Pending(m)' = mailed[m] + Pending(m)
          /\ breaks' = breaks /\ (Keeps(m)' <=> Keeps(m))
      <3>1. /\ unsent /\ ~unsent' /\ UNCHANGED <<hand, phase, position, breaks>>
            /\ mailed'[m] = IF m = hand THEN mailed[m] + 1 ELSE mailed[m]
        BY <1>3 DEF Send, placeVars, TypeOK
      <3> QED
        BY <1>0, <3>1 DEF Pending, Keeps, HandedOut
    <2> QED
      BY <1>0, <2>1 DEF MailsOf
  <1>4. CASE EndHandler \/ AutoCommit
    <2>1. /\ UNCHANGED <<phase, position, breaks, mailed>>
          /\ ~unsent' \/ UNCHANGED <<hand, unsent>>
      BY <1>4 DEF EndHandler, AutoCommit, placeVars, deliveryVars
    <2>2. Pending(m)' <= Pending(m) /\ Pending(m)' \in {0, 1} /\ (Keeps(m)' <=> Keeps(m))
      BY <1>0, <2>1 DEF Pending, Keeps, HandedOut
    <2> QED
      BY <1>0, <2>1, <2>2 DEF MailsOf
  <1>5. CASE MayBreak /\ (CutOff \/ UNCHANGED deliveryVars)
    <2>1. /\ breaks' = breaks + 1 /\ mailed' = mailed
          /\ ~unsent' \/ UNCHANGED <<hand, unsent>>
      BY <1>5 DEF MayBreak, CutOff, deliveryVars
    <2>2. Pending(m)' <= Pending(m) /\ Pending(m)' \in {0, 1}
      BY <1>0, <2>1 DEF Pending
    <2> QED
      BY <1>0, <2>1, <2>2 DEF MailsOf
  <1>6. CASE Close
    <2>1. UNCHANGED <<hand, unsent, mailed, breaks>> /\ ~Keeps(m)
      BY <1>6 DEF Close, deliveryVars, Keeps
    <2> QED
      BY <1>0, <2>1 DEF MailsOf, Pending
  <1> QED
    BY <1>1, <1>2, <1>3, <1>4, <1>5, <1>6
    DEF Next, RequestStep, TakeAny, Listen, Disturb, Begin, Publish, Commit, Undo, Restart,
        Finish, GiveUp, Rejoin, Break, Cancel, Kill, vars

------------------------------------------------------------------------------
(* The events of a request in the log *)

(* One more record about r at the end of topic t: it is the only new copy.  *)
LEMMA CopiesAppended ==
  ASSUME LogOK, NEW t \in Topics, NEW r \in Requests, log' = [log EXCEPT ![t] = Append(@, r)]
  PROVE  /\ Copies(t, r) = {} => Copies(t, r)' = {Len(log'[t])} /\ Len(log'[t]) >= 1
         /\ \A x \in Topics, q \in Requests :
              x # t \/ q # r => Copies(x, q)' = Copies(x, q) /\ Len(log[x]) <= Len(log'[x])
  <1>1. /\ log[t] \in Seq(Requests) /\ log'[t] = Append(log[t], r)
        /\ \A x \in Topics \ {t} : log'[x] = log[x]
        /\ \A x \in Topics : Len(log[x]) \in Nat
    BY DEF LogOK
  <1> DEFINE n == Len(log[t])
  <1>2. /\ n \in Nat /\ Len(log'[t]) = n + 1 /\ log'[t][n + 1] = r
        /\ \A i \in 1..n : log'[t][i] = log[t][i]
    BY <1>1
  <1>3. Copies(t, r) = {} => Copies(t, r)' = {n + 1}
    <2> SUFFICES ASSUME Copies(t, r) = {} PROVE Copies(t, r)' = {n + 1}
      OBVIOUS
    <2>1. \A i \in 1..n : log[t][i] # r
      BY DEF Copies
    <2>2. \A i \in 1..(n + 1) : log'[t][i] = r <=> i = n + 1
      BY <1>2, <2>1
    <2>3. Copies(t, r)' = {i \in 1..(n + 1) : log'[t][i] = r}
      BY <1>2 DEF Copies
    <2> QED
      BY <1>2, <2>2, <2>3
  <1>4. ASSUME NEW x \in Topics, NEW q \in Requests, x # t \/ q # r
        PROVE  Copies(x, q)' = Copies(x, q) /\ Len(log[x]) <= Len(log'[x])
    <2>1. CASE x # t
      BY <1>1, <2>1 DEF Copies
    <2>2. CASE x = t /\ q # r
      <3>1. \A i \in 1..(n + 1) : log'[t][i] = q <=> i \in 1..n /\ log[t][i] = q
        BY <1>2, <2>2
      <3>2. Copies(t, q)' = {i \in 1..(n + 1) : log'[t][i] = q}
        BY <1>2 DEF Copies
      <3>3. Copies(t, q) = {i \in 1..n : log[t][i] = q}
        BY DEF Copies
      <3>4. 1..n \subseteq 1..(n + 1)
        BY <1>2
      <3>5. Copies(t, q)' = Copies(t, q)
        BY <3>1, <3>2, <3>3, <3>4
      <3> QED
        BY <1>2, <2>2, <3>5
    <2> QED
      BY <1>4, <2>1, <2>2
  <1> QED
    BY <1>2, <1>3, <1>4

(* While nothing has failed, a request publishes its events in order, once. *)
LEMMA InStepStep ==
  ASSUME TypeOK, TypeOK', InStep, [Next]_vars
  PROVE  InStep'
  <1> SUFFICES ASSUME faults' = 0
               PROVE  /\ linked'
                      /\ \A r \in Requests :
                           /\ pc'[r] = "committed" => next'[r] \notin Events(r)'
                           /\ \A k \in Events(r)' : Told(r, k)'
    BY DEF InStep
  <1>1. faults \in Nat /\ ~Fault
    BY DEF TypeOK, Fault
  <1>2. CASE UNCHANGED <<publisherVars, log>>
    <2>1. faults = 0
      BY <1>1, <1>2
      DEF Next, RequestStep, TakeAny, Listen, Disturb, Begin, Publish, Commit, Undo, Restart, Boot,
          Join, Take, Send, Finish, GiveUp, EndHandler, Close, AutoCommit, Rejoin, Break, Cancel,
          Kill, CommitLast, Sends, vars
    <2> QED
      BY <1>2, <2>1 DEF InStep, publisherVars, Events, Event, Told, Copies
  <1>3. ASSUME NEW q \in Requests, Begin(q) \/ Commit(q)
        PROVE  InStep'
    <2>1. /\ faults = 0 /\ UNCHANGED <<call, next, linked, log>>
          /\ \A r \in Requests : pc'[r] = "committed" => pc[r] = "committed" \/ next[r] \notin Events(r)
      BY <1>3 DEF Begin, Commit, TypeOK
    <2>2. \A r \in Requests : /\ Events(r)' = Events(r)
                              /\ \A k \in Events(r) : Told(r, k)' <=> Told(r, k)
      BY <2>1 DEF Events, Event, Told, Copies
    <2> QED
      BY <2>1, <2>2 DEF InStep
  <1>4. ASSUME NEW q \in Requests, Publish(q)
        PROVE  InStep'
    <2>0. PICK k, t : k = next[q] /\ t = Event(q, k)
      OBVIOUS
    <2>1. k \in Events(q) /\ k \in 1..3 /\ t \in Topics /\ pc[q] = "publish"
      BY <1>4, <2>0, EventTopics DEF Publish
    <2>2. LogOK
      BY TypeParts
    <2>3. /\ faults = 0 /\ linked /\ UNCHANGED <<call, pc, linked>>
          /\ log' = [log EXCEPT ![t] = Append(@, q)]
      BY <1>1, <1>4, <2>0, <2>1 DEF Publish, Sends, InStep
    <2>4. next' = [next EXCEPT ![q] = k + 1] /\ next \in [Requests -> 1..4]
      BY <1>4, <2>0 DEF Publish, TypeOK
    <2>5. \A r \in Requests : Events(r)' = Events(r) /\ \A j \in Events(r) : Event(r, j)' = Event(r, j)
      BY <2>3 DEF Events, Event
    <2>6. ASSUME NEW r \in Requests, NEW j \in Events(r) PROVE Told(r, j)'
      <3>0. PICK x : x = Event(r, j)
        OBVIOUS
      <3>1. Told(r, j) /\ x \in Topics /\ j \in 1..3
        BY <2>3, <3>0, EventTopics DEF InStep
      <3>2. CASE r = q /\ j = k
        <4>1. Copies(t, q) = {}
          BY <2>0, <2>1, <3>1, <3>2 DEF Told
        <4>2. Copies(t, q)' = {Len(log'[t])} /\ Len(log'[t]) \in 1..Len(log'[t])
          <5>1. Copies(t, q)' = {Len(log'[t])} /\ Len(log'[t]) >= 1
            BY <2>1, <2>2, <2>3, <4>1, CopiesAppended
          <5>2. Len(log'[t]) \in Nat
            BY <2>1, LengthsAreNumbers DEF TypeOK
          <5> QED
            BY <5>1, <5>2
        <4>3. j < next'[r]
          BY <2>0, <2>1, <2>4, <3>2
        <4> QED
          BY <2>0, <2>5, <3>2, <4>2, <4>3 DEF Told
      <3>3. CASE r # q \/ j # k
        <4>1. x # t \/ r # q
          BY <2>0, <2>1, <3>0, <3>3, EventTopics
        <4>2. Copies(x, r)' = Copies(x, r) /\ Len(log[x]) <= Len(log'[x])
          BY <2>1, <2>2, <2>3, <3>1, <4>1, CopiesAppended
        <4>3. j < next'[r] <=> j < next[r]
          BY <2>0, <2>1, <2>4, <3>1, <3>3
        <4>4. Len(log[x]) \in Nat /\ Len(log'[x]) \in Nat
          BY <3>1, TypeParts, LengthsAreNumbers DEF TypeOK
        <4>5. 1..Len(log[x]) \subseteq 1..Len(log'[x])
          BY <4>2, <4>4
        <4> QED
          BY <2>5, <3>0, <3>1, <4>2, <4>3, <4>5 DEF Told
      <3> QED
        BY <3>2, <3>3
    <2>7. ASSUME NEW r \in Requests, pc'[r] = "committed" PROVE next'[r] \notin Events(r)'
      BY <2>0, <2>1, <2>3, <2>4, <2>5, <2>7 DEF InStep
    <2> QED
      BY <2>3, <2>5, <2>6, <2>7 DEF InStep
  <1> QED
    BY <1>1, <1>2, <1>3, <1>4
    DEF Next, RequestStep, TakeAny, Listen, Disturb, Undo, Restart, Boot,
        Join, Take, Send, Finish, GiveUp, EndHandler, Close, AutoCommit, Rejoin, Break, Cancel,
        Kill, vars, InStep

------------------------------------------------------------------------------
(* The theorems *)

(* IInv holds at first, *)
LEMMA Inductive == Init => IInv
  <1> SUFFICES ASSUME Init PROVE IInv
    OBVIOUS
  <1>1. TypeOK
    BY TypeInit
  <1>2. Accounted /\ MailedOnce
    BY NoneAssumption DEF Init, Accounted, MailedOnce, HandedOut, Records
  <1>3. FewDropped
    BY FS_EmptySet DEF Init, FewDropped
  <1>4. FewMails
    BY NoneAssumption DEF Init, FewMails, MailsOf, Pending, Records
  <1>5. InStep
    <2>1. \A t \in Topics, r \in Requests : Copies(t, r) = {}
      BY DEF Init, Copies
    <2>2. \A r \in Requests : \A k \in Events(r) : Event(r, k) \in Topics /\ k \in 1..3
      BY <1>1, EventTopics
    <2> QED
      BY <2>1, <2>2 DEF Init, InStep, Told
  <1> QED
    BY <1>1, <1>2, <1>3, <1>4, <1>5 DEF IInv

(* every step preserves it, *)
LEMMA Preserved == IInv /\ [Next]_vars => IInv'
  BY TypeStep, AccountedStep, FewDroppedStep, MailedOnceStep, FewMailsStep, InStepStep DEF IInv

(* so it is an invariant. *)
LEMMA Always == Spec => []IInv
  BY Inductive, Preserved, PTL DEF Spec

(* Every variable keeps its type, for any requests, loads and bounds.       *)
THEOREM TypeCorrect == Spec => []TypeOK
  <1>1. IInv => TypeOK
    BY DEF IInv
  <1> QED
    BY <1>1, Always, PTL

(* A record that was handed out is handled, in hand or dropped by one of    *)
(* the interruptions, a second mail is for a record that was given back,    *)
(* there is one mail more for each interruption at most, and without        *)
(* failures the events of a committed request are in the log once.          *)
THEOREM Delivery == Spec => []DeliveryExplained
  <1>1. IInv => DeliveryExplained
    <2> SUFFICES ASSUME IInv PROVE DeliveryExplained
      OBVIOUS
    <2>1. ASSUME NEW m \in Records, mailed[m] > 1
          PROVE  m \in replayed /\ mailed[m] <= 1 + breaks
      <3>1. mailed[m] \in Nat /\ breaks \in Nat /\ Pending(m) \in {0, 1} /\ MailsOf(m)
        BY DEF IInv, TypeOK, FewMails, Pending
      <3>2. m \in replayed
        BY <2>1, <3>1 DEF IInv, MailedOnce
      <3> QED
        BY <3>1, <3>2 DEF MailsOf
    <2>2. ASSUME faults = 0, NEW r \in Requests, pc[r] = "committed", NEW k \in Events(r)
          PROVE  Cardinality(Copies(Event(r, k), r)) = 1
      <3>1. next[r] \in 1..4 /\ next[r] \notin Events(r) /\ Told(r, k)
        BY <2>2 DEF IInv, TypeOK, InStep
      <3>2. k < next[r]
        BY <3>1, EventTopics DEF IInv, Events
      <3>3. PICK i \in 1..Len(log[Event(r, k)]) : Copies(Event(r, k), r) = {i}
        BY <3>1, <3>2 DEF Told
      <3> QED
        BY <3>3, FS_Singleton
    <2> QED
      BY <2>1, <2>2 DEF IInv, Accounted, FewDropped, DeliveryExplained
  <1> QED
    BY <1>1, Always, PTL
=============================================================================
