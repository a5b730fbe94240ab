----------------------------- MODULE EventDelivery ------------------------------
(***************************************************************************)
(* Events: auth-service publishes them inside a transaction, Redpanda      *)
(* keeps a log for each topic and the offset the consumer group committed, *)
(* and email-service takes the records one at a time and sends the mail.   *)
(*                                                                         *)
(* The consumer commits its position by a timer, whatever the handler of   *)
(* the last record is doing, and when it is stopped.  A record is named by *)
(* its topic and offset, and a mail is the record it was made from.        *)
(***************************************************************************)
EXTENDS Integers, Sequences, FiniteSets

CONSTANTS
  Requests,   \* requests to auth-service
  Loads,      \* bound: the routes of the requests
  MaxRecord,  \* bound: records of a topic
  MaxFaults,  \* bound: failures of Redpanda, SMTP, COMMIT or auth-service
  MaxBreaks,  \* bound: how often the consumer loses its place
  None        \* no record

Consumed == {"user.registered", "auth.suspicious", "auth.new_login", "user.deletion_requested",
             "user.email_change_requested", "user.email_changed"}
Topics == Consumed \cup {"auth.login", "user.deleted"}

LoginEvents == <<"auth.login", "auth.new_login">>

(* The topics a route publishes to, in this order: no topic twice.  A login *)
(* close to the lockout threshold publishes an alert as well.               *)
Published ==
  [register             |-> <<"user.registered">>,
   resend               |-> <<"user.registered">>,
   login                |-> LoginEvents,
   suspicious           |-> Append(LoginEvents, "auth.suspicious"),
   deletion_request     |-> <<"user.deletion_requested">>,
   confirm_deletion     |-> <<"user.deleted">>,
   email_change         |-> <<"user.email_change_requested">>,
   confirm_email_change |-> <<"user.email_changed">>]

ASSUME LoadsAssumption == Loads \subseteq [Requests -> DOMAIN Published]
ASSUME BoundsAssumption == MaxRecord \in Nat /\ MaxFaults \in Nat /\ MaxBreaks \in Nat
ASSUME NoneAssumption == None \notin Topics \X (1..MaxRecord)

VARIABLES
  call,      \* call[r]: the route of r
  pc,        \* pc[r]: "ready", "publish", "commit", "committed" or "undone"
  next,      \* next[r]: the event r publishes next
  linked,    \* auth-service has a producer
  log,       \* log[t]: the requests the records of t are about
  committed, \* committed[t]: offset the group has committed: records before it are passed
  phase,     \* of the consumer: "down", "joining", "open" or "closing"
  position,  \* position[t]: records of t that were handed out
  hand,      \* the record whose handler runs, or None
  unsent,    \* the handler has not sent its mail yet
  faults,    \* failures so far
  breaks,    \* history: how often the consumer has lost its place
  ended,     \* history: records whose handler ran to its end
  mailed,    \* history, mailed[m]: mails sent for record m
  dropped,   \* history: records passed for good while their handler ran
  replayed   \* history: records handed out when the consumer fell back behind them

publisherVars == <<call, pc, next, linked>>
deliveryVars == <<hand, unsent, ended, mailed>>
placeVars == <<committed, position, breaks, dropped, replayed>>
consumerVars == <<phase, deliveryVars, placeVars>>
vars == <<publisherVars, log, consumerVars, faults>>

Records == Topics \X (1..MaxRecord)
InLog == {m \in Records : m[2] <= Len(log[m[1]])}
Passed(m) == m[2] <= committed[m[1]]
HandedOut(m) == m[2] <= position[m[1]]

Init ==
  /\ call \in Loads
  /\ pc = [r \in Requests |-> "ready"]
  /\ next = [r \in Requests |-> 1]
  /\ linked = TRUE
  /\ log = [t \in Topics |-> <<>>]
  /\ committed = [t \in Topics |-> 0]
  /\ phase = "down"
  /\ position = [t \in Topics |-> 0]
  /\ hand = None
  /\ unsent = FALSE
  /\ faults = 0
  /\ breaks = 0
  /\ ended = {}
  /\ mailed = [m \in Records |-> 0]
  /\ dropped = {}
  /\ replayed = {}

Fault == faults < MaxFaults /\ faults' = faults + 1

------------------------------------------------------------------------------
(* auth-service: the calls before the first event are other modules' *)

Begin(r) ==
  /\ pc[r] = "ready"
  /\ pc' = [pc EXCEPT ![r] = "publish"]
  /\ UNCHANGED <<call, next, linked, log, consumerVars, faults>>

(* send_and_wait: the record is in the log when the answer is, once; or the *)
(* producer repeats a send whose answer it missed, or gives up on one that  *)
(* took effect or did not.  publish swallows every error.                   *)
Sends(t, r) ==
  \/ log' = [log EXCEPT ![t] = Append(@, r)] /\ UNCHANGED faults
  \/ log' = [log EXCEPT ![t] = @ \o <<r, r>>] /\ Fault
  \/ log' = [log EXCEPT ![t] = Append(@, r)] /\ Fault
  \/ Fault /\ UNCHANGED log

Event(r, k) == Published[call[r]][k]
Events(r) == 1..Len(Published[call[r]])

Publish(r) ==
  /\ pc[r] = "publish" /\ next[r] \in Events(r)
  /\ next' = [next EXCEPT ![r] = @ + 1]
  /\ IF linked THEN Sends(Event(r, next[r]), r) ELSE UNCHANGED <<log, faults>>
  /\ \A t \in Topics : Len(log'[t]) <= MaxRecord
  /\ UNCHANGED <<call, pc, linked, consumerVars>>

(* get_db commits after the route has returned. *)
Commit(r) ==
  /\ pc[r] = "publish" /\ next[r] \notin Events(r)
  /\ pc' = [pc EXCEPT ![r] = "committed"]
  /\ UNCHANGED <<call, next, linked, log, consumerVars, faults>>

(* A call between two events fails, or the COMMIT. *)
Undo(r) ==
  /\ pc[r] = "publish"
  /\ pc' = [pc EXCEPT ![r] = "undone"]
  /\ Fault
  /\ UNCHANGED <<call, next, linked, log, consumerVars>>

(* auth-service dies and starts again.  When Redpanda does not answer then, *)
(* the process has no producer for the rest of its life.                    *)
Restart ==
  /\ Fault
  /\ linked' \in BOOLEAN
  /\ pc' = [r \in Requests |-> IF pc[r] = "publish" THEN "undone" ELSE pc[r]]
  /\ UNCHANGED <<call, next, log, consumerVars>>

------------------------------------------------------------------------------
(* email-service: listen and the consumer it runs *)

MayBreak == breaks < MaxBreaks /\ breaks' = breaks + 1

(* The last commit of a consumer that leaves, which may fail. *)
CommitLast ==
  \/ committed' = position /\ UNCHANGED faults
  \/ Fault /\ UNCHANGED committed

(* Whoever leaves or rejoins goes on from the committed offsets. *)
FallBack ==
  /\ position' = committed'
  /\ replayed' = replayed \cup {m \in Records : HandedOut(m) /\ m[2] > committed'[m[1]]}

(* The handler that runs is cut off. *)
CutOff ==
  /\ hand' = None
  /\ unsent' = FALSE
  /\ dropped' = dropped \cup {m \in {hand} \ {None} : m[2] <= committed'[m[1]]}
  /\ UNCHANGED <<ended, mailed>>

(* Compose starts the container again, lifespan starts the listener. *)
Boot ==
  /\ phase = "down"
  /\ phase' = "joining"
  /\ UNCHANGED <<publisherVars, log, deliveryVars, placeVars, faults>>

(* A start that fails is tried again. *)
Join ==
  /\ phase = "joining"
  /\ phase' = "open"
  /\ UNCHANGED <<publisherVars, log, deliveryVars, placeVars, faults>>

(* Mutation: handlers are started as tasks and not awaited. *)
Take_Unawaited(t) ==
  /\ phase = "open"
  /\ position[t] < Len(log[t])
  /\ position' = [position EXCEPT ![t] = @ + 1]
  /\ hand' = <<t, position[t] + 1>>
  /\ unsent' = TRUE
  /\ UNCHANGED <<publisherVars, log, phase, ended, mailed, committed, breaks, dropped, replayed, faults>>

(* The position moves when the record is handed out.                        *)
Take(t) ==
  /\ phase = "open" /\ hand = None
  /\ position[t] < Len(log[t])
  /\ position' = [position EXCEPT ![t] = @ + 1]
  /\ hand' = <<t, position[t] + 1>>
  /\ unsent' = TRUE
  /\ UNCHANGED <<publisherVars, log, phase, ended, mailed, committed, breaks, dropped, replayed, faults>>

(* The SMTP server has the mail, and the handler waits for its answer. *)
Send ==
  /\ hand # None /\ unsent
  /\ unsent' = FALSE
  /\ mailed' = [mailed EXCEPT ![hand] = @ + 1]
  /\ UNCHANGED <<publisherVars, log, phase, hand, ended, placeVars, faults>>

EndHandler ==
  /\ hand # None
  /\ hand' = None
  /\ unsent' = FALSE
  /\ ended' = ended \cup {hand}
  /\ UNCHANGED <<publisherVars, log, phase, mailed, placeVars>>

Finish == ~unsent /\ EndHandler /\ UNCHANGED faults

(* Rendering, validation or SMTP fails: send_email and the handler catch it *)
(* and nothing is tried again.                                              *)
GiveUp == unsent /\ EndHandler /\ Fault

AutoCommit ==
  /\ phase \in {"open", "closing"}
  /\ committed # position
  /\ committed' = position
  /\ UNCHANGED <<publisherVars, log, phase, deliveryVars, position, breaks, dropped, replayed, faults>>

(* The group takes this consumer for dead and lets it in again, while its   *)
(* handler goes on.                                                         *)
Rejoin ==
  /\ phase = "open"
  /\ MayBreak
  /\ CommitLast /\ FallBack
  /\ UNCHANGED <<publisherVars, log, phase, deliveryVars, dropped>>

(* Mutation: the error reaches a handler that is running. *)
Break_InHandler ==
  /\ phase = "open"
  /\ MayBreak
  /\ phase' = "closing"
  /\ UNCHANGED <<publisherVars, log, deliveryVars, committed, position, dropped, replayed, faults>>

(* An error of Kafka is raised where listen waits for a record.  It sleeps  *)
(* five seconds with the consumer still open.                               *)
Break ==
  /\ phase = "open" /\ hand = None
  /\ MayBreak
  /\ phase' = "closing"
  /\ UNCHANGED <<publisherVars, log, deliveryVars, committed, position, dropped, replayed, faults>>

(* Mutation: the loop is not entered again. *)
Close_Ends ==
  /\ phase = "closing"
  /\ CommitLast /\ FallBack
  /\ UNCHANGED <<publisherVars, log, phase, deliveryVars, breaks, dropped>>

Close ==
  /\ phase = "closing"
  /\ phase' = "joining"
  /\ CommitLast /\ FallBack
  /\ UNCHANGED <<publisherVars, log, deliveryVars, breaks, dropped>>

(* lifespan cancels the listener, whatever its handler awaits. *)
Cancel ==
  /\ phase # "down"
  /\ MayBreak
  /\ phase' = "down"
  /\ CommitLast /\ FallBack /\ CutOff
  /\ UNCHANGED <<publisherVars, log>>

Kill ==
  /\ phase # "down"
  /\ MayBreak
  /\ phase' = "down"
  /\ UNCHANGED <<publisherVars, log, committed, faults>>
  /\ FallBack /\ CutOff

------------------------------------------------------------------------------
RequestStep(r) == Begin(r) \/ Publish(r) \/ Commit(r) \/ Undo(r)
TakeAny == \E t \in Consumed : Take(t)
Listen == Boot \/ Join \/ TakeAny \/ Send \/ Finish \/ GiveUp \/ Close
Disturb == Restart \/ Rejoin \/ Break \/ Cancel \/ Kill

Next == (\E r \in Requests : RequestStep(r)) \/ Listen \/ AutoCommit \/ Disturb

Spec == Init /\ [][Next]_vars

(* Tasks of the event loop are run, the timer fires, and Compose restarts   *)
(* the container (restart: unless-stopped).  Nothing is asked of the order  *)
(* in which topics are taken, nor of auth-service.                          *)
Fairness ==
  /\ WF_vars(Boot) /\ WF_vars(Join) /\ WF_vars(Close)
  /\ WF_vars(TakeAny) /\ WF_vars(Send) /\ WF_vars(Finish) /\ WF_vars(AutoCommit)

FairSpec == Spec /\ Fairness

------------------------------------------------------------------------------
(* Properties *)

(* Every variable has its type, and a consumer that is not open is where    *)
(* the group is.                                                            *)
TypeOK ==
  /\ call \in Loads
  /\ pc \in [Requests -> {"ready", "publish", "committed", "undone"}]
  /\ next \in [Requests -> 1..4]
  /\ linked \in BOOLEAN
  /\ \A t \in Topics : Len(log[t]) <= MaxRecord
  /\ log \in [Topics -> Seq(Requests)]
  /\ position \in [Topics -> 0..MaxRecord]
  /\ committed \in [Topics -> 0..MaxRecord]
  /\ \A t \in Topics : committed[t] <= position[t] /\ position[t] <= Len(log[t])
  /\ phase \in {"down", "joining", "open", "closing"}
  /\ phase \in {"down", "joining"} => position = committed
  /\ hand \in Records \cup {None}
  /\ unsent \in BOOLEAN
  /\ hand # None => phase = "open"
  /\ faults \in 0..MaxFaults /\ breaks \in 0..MaxBreaks
  /\ ended \subseteq Records /\ dropped \subseteq Records /\ replayed \subseteq Records
  /\ mailed \in [Records -> Nat]

Copies(t, r) == {i \in 1..Len(log[t]) : log[t][i] = r}

(* events/subscriber.py: "If email-service is down, messages are not lost", *)
(* and "each message is processed once"; events/publisher.py: "Every        *)
(* message is guaranteed to be written".  What holds: a record that was     *)
(* handed out has been handled to the end, is being handled, or was cut off *)
(* by one of the interruptions after its offset was committed, at most one  *)
(* by each; a second mail is sent only for a record that an interruption    *)
(* gave back, and each of them is the reason of one mail more at most; and  *)
(* while nothing has failed, a request that was carried out has each of its *)
(* events in the log once.                                                  *)
DeliveryExplained ==
  /\ \A m \in Records : HandedOut(m) => m \in ended \cup dropped \cup {hand}
  /\ Cardinality(dropped) <= breaks
  /\ \A m \in Records : mailed[m] > 1 => m \in replayed /\ mailed[m] <= 1 + breaks
  /\ faults = 0 => \A r \in Requests : pc[r] = "committed" =>
       \A k \in Events(r) : Cardinality(Copies(Event(r, k), r)) = 1

(* "The consumer resumes where it left off (offset)": every record of a     *)
(* topic with a handler is passed by the group in the end and is not handed *)
(* out again, whatever interrupts the consumer on the way.                  *)
EveryRecordPassed == <>[](\A m \in InLog : m[1] \in Consumed => Passed(m) /\ hand # m)
=============================================================================
