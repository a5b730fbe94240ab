------------------------------ MODULE EmailFlows ------------------------------
(***************************************************************************)
(* The addresses of the profiles: verify_email, resend_verification,       *)
(* request_email_change and confirm_email_change of auth-service, with the *)
(* token tables of user-service and the mail that carries the links.       *)
(*                                                                         *)
(* A token is an HMAC over user, purpose and the second it was made in, so *)
(* two tokens of one user and purpose made in one second are the same      *)
(* string; the table has a unique index on its hash.                       *)
(***************************************************************************)
EXTENDS Profiles

CONSTANTS
  Home,       \* Home[u]: the address u registered with
  MaxSecond   \* bound: last second of the clock

Keys == [user : Users, kind : {"verify", "change"}, at : 0..MaxSecond]
Links == [pending : Emails \cup {None}, state : {"open", "unused", "used"}]

PatchCalls == [op : {"patch"}, user : Users, email : Emails \cup {None}, flag : BOOLEAN \cup {None}]
AvatarCalls == [op : {"upload"}, user : Users, format : Formats] \cup [op : {"reset"}, user : Users]
DeleteCalls == [op : {"delete", "erase"}, user : Users]
(* A link leads to the endpoint of its kind. *)
FollowCalls == {c \in [op : {"verify", "confirm"}, key : Keys, to : Emails] :
                  c.op = "confirm" <=> c.key.kind = "change"}
AskCalls == [op : {"resend"}, email : Emails] \cup [op : {"change"}, user : Users, email : Emails]
Calls == PatchCalls \cup AvatarCalls \cup DeleteCalls \cup FollowCalls \cup AskCalls

ASSUME HomeAssumption == Home \in [Users -> Emails]
ASSUME PlansAssumption == Plans \subseteq [Requests -> SUBSET Calls]
ASSUME BoundsAssumption == MaxSecond \in Nat /\ MaxLost \in Nat
ASSUME FormatsAssumption == IsFiniteSet(Formats)

VARIABLES
  second,  \* the clock, in seconds
  link,    \* link[k]: the row of token k in its table, or None
  stale,   \* tokens that a check has found expired
  mail,    \* mail published: to which address, with which token
  got,     \* got[r]: the token that request r made and where it goes
  proven   \* history: pairs <<user, address>> whose link was followed and took effect

mailVars == <<second, link, stale, mail, got, proven>>
vars == <<profileVars, mailVars>>

Mail == [to : Emails, key : Keys]

ASSUME AbsentAssumption == None \notin Calls \cup Links \cup Mail \cup Profile \cup Writes

(* Every account has registered and was sent a link to its address.         *)
Init ==
  /\ InitProfiles
  /\ row = [u \in Users |-> [email |-> Home[u], verified |-> FALSE, avatar |-> None]]
  /\ second = 0
  /\ link = [k \in Keys |-> IF k.kind = "verify" /\ k.at = 0
                            THEN [pending |-> None, state |-> "unused"] ELSE None]
  /\ stale = {}
  /\ mail = {[to |-> Home[u], key |-> [user |-> u, kind |-> "verify", at |-> 0]] : u \in Users}
  /\ got = [r \in Requests |-> None]
  /\ proven = {}

(* A link is followed from the mailbox it was sent to. *)
ReceiveCall(r, c) ==
  /\ c.op \in {"verify", "confirm"} => [to |-> c.to, key |-> c.key] \in mail
  /\ Receive(r, c)
  /\ UNCHANGED mailVars

Follows(r) == call[r] # None /\ call[r].op \in {"verify", "confirm"}

------------------------------------------------------------------------------
(* Asking for a link: resend_verification and request_email_change *)

TokenOf(u, kind) == [user |-> u, kind |-> kind, at |-> second]

Make(r, key, to) == got' = [got EXCEPT ![r] = [key |-> key, to |-> to]]

LookUpByEmail(r) ==
  /\ Begins(r, "resend")
  /\ LET found == Owner(call[r].email)
     IN  \/ /\ \A u \in found : row[u].verified
            /\ Go(r, "answered")
            /\ UNCHANGED <<got, lost>>
         \/ /\ \E u \in found : ~row[u].verified
                             /\ Make(r, TokenOf(u, "verify"), row[u].email)
            /\ Go(r, "save")
            /\ UNCHANGED lost
  /\ UNCHANGED <<service, plan, call, met, second, link, stale, mail, proven>>

FetchForChange(r) ==
  /\ Begins(r, "change")
  /\ Go(r, IF ~Profiled(r) \/ row[call[r].user].email = call[r].email
           THEN "refused" ELSE "free")
  /\ UNCHANGED <<service, plan, call, lost, met, mailVars>>

(* Mutation: the confirmation is mailed to the current address.             *)
CheckFree_MailsOld(r) ==
  /\ pc[r] = "free"
  /\ IF Owner(call[r].email) # {} THEN Go(r, "refused") /\ UNCHANGED got
     ELSE /\ Make(r, TokenOf(call[r].user, "change"), Home[call[r].user])
          /\ Go(r, "save")
  /\ UNCHANGED <<service, plan, call, lost, met, second, link, stale, mail, proven>>

(* Mutation: the address is not looked up when the change is asked for.     *)
CheckFree_NoLookup(r) ==
  /\ pc[r] = "free"
  /\ Make(r, TokenOf(call[r].user, "change"), call[r].email)
  /\ Go(r, "save")
  /\ UNCHANGED <<service, plan, call, lost, met, second, link, stale, mail, proven>>

CheckFree(r) ==
  /\ pc[r] = "free"
  /\ IF Owner(call[r].email) # {} THEN Go(r, "refused") /\ UNCHANGED got
     ELSE /\ Make(r, TokenOf(call[r].user, "change"), call[r].email)
          /\ Go(r, "save")
  /\ UNCHANGED <<service, plan, call, lost, met, second, link, stale, mail, proven>>

(* An INSERT of the same hash waits for one that is open and else fails.    *)
StoreToken(k, pending) ==
  \/ link[k] # None /\ link[k].state # "open" /\ UNCHANGED link
  \/ link[k] = None /\ link' = [link EXCEPT ![k] = [pending |-> pending, state |-> "open"]]

Pending(r) == IF call[r].op = "change" THEN call[r].email ELSE None

(* Whatever becomes of the store, the request goes on. *)
SaveToken(r) ==
  /\ pc[r] = "save"
  /\ \/ StoreToken(got[r].key, Pending(r)) /\ UNCHANGED lost
     \/ Lose /\ UNCHANGED link
  /\ Go(r, "publish")
  /\ UNCHANGED <<service, plan, call, met, second, stale, mail, got, proven>>

(* publish swallows its errors: the mail may never be sent.                 *)
Publish(r) ==
  /\ pc[r] = "publish"
  /\ \/ mail' = mail \cup {[to |-> got[r].to, key |-> got[r].key]} /\ UNCHANGED lost
     \/ Lose /\ UNCHANGED mail
  /\ Go(r, "answered")
  /\ UNCHANGED <<service, plan, call, met, second, link, stale, got, proven>>

------------------------------------------------------------------------------
(* Following a link: verify_email and confirm_email_change *)

Key(r) == call[r].key

(* The row is the committed one, so a mark that is not does not show.  The   *)
(* age of a token matters to this check alone.                              *)
Usable(k) == link[k] # None /\ link[k].state = "unused"

Expired(k) == stale' = stale \cup {k}

Check(r, k, next) ==
  /\ \/ Usable(k) /\ k \notin stale /\ Go(r, next) /\ UNCHANGED stale
     \/ ~Usable(k) /\ Go(r, "refused") /\ UNCHANGED stale
     \/ Expired(k) /\ Go(r, "refused")
  /\ UNCHANGED <<service, plan, call, lost, met, second, link, mail, got, proven>>

CheckVerification(r) == Begins(r, "verify") /\ Check(r, Key(r), "mark")
CheckEmailChange(r) == Begins(r, "confirm") /\ Check(r, Key(r), "fetch")

FetchOld(r) ==
  /\ pc[r] = "fetch"
  /\ Go(r, IF row[Key(r).user] = None THEN "refused" ELSE "mark")
  /\ UNCHANGED <<service, plan, call, lost, met, mailVars>>

(* user-service refuses, and get_db undoes the mark, when the user is gone  *)
(* or the pending address is taken, be it by the user.                      *)
PendingTaken(r) == call[r].op = "confirm" /\ Owner(link[Key(r)].pending) # {}
Refuses(r) == row[Key(r).user] = None \/ PendingTaken(r)

(* A mark is not committed before the transaction that sets it, which until *)
(* then has the row of the token locked.                                    *)
Marking(k) == {q \in Requests : Follows(q) /\ Key(q) = k /\ tx[q] = "open"}

(* Mutation: the mark is committed although the change was refused.         *)
MarkLink_KeepsMark(r) ==
  /\ pc[r] = "mark"
  /\ Marking(Key(r)) = {}
  /\ IF Refuses(r)
     THEN /\ Go(r, "answered") /\ UNCHANGED tx
          /\ link' = [link EXCEPT ![Key(r)].state = "used"]
     ELSE Go(r, "apply") /\ tx' = [tx EXCEPT ![r] = "open"] /\ UNCHANGED link
  /\ UNCHANGED <<row, files, put, plan, call, lost, met, second, stale, mail, got, proven>>

(* mark_as_used does not look at the mark again: it may be there already.   *)
(* auth-service does not look at the status: refused, it answers success.   *)
MarkLink(r) ==
  /\ pc[r] = "mark"
  /\ Marking(Key(r)) = {}
  /\ IF Refuses(r)
     THEN Go(r, "answered") /\ UNCHANGED tx
     ELSE Go(r, "apply") /\ tx' = [tx EXCEPT ![r] = "open"]
  /\ UNCHANGED <<row, files, put, plan, call, lost, met, mailVars>>

Verified(r) == [row[Key(r).user] EXCEPT !.verified = TRUE]
Moved(r) == [row[Key(r).user] EXCEPT !.email = link[Key(r)].pending, !.verified = TRUE]
Proved(r) == IF call[r].op = "confirm" THEN Moved(r) ELSE Verified(r)

(* The UPDATE of the profile.  It fails, and the mark with it, when the row *)
(* has gone or the index refuses the address.                               *)
ApplyLink(r) ==
  /\ pc[r] = "apply"
  /\ LET u == Key(r).user
         p == Proved(r)
         clash == row[u] # None /\ p.email # row[u].email /\ Owner(p.email) # {}
     IN  IF row[u] = None \/ clash
         THEN /\ row[u] # None => ~Waits(r, u, p.email)
              /\ tx' = [tx EXCEPT ![r] = "undone"]
              /\ Go(r, IF clash THEN "failed" ELSE "answered")
              /\ UNCHANGED put
         ELSE Save(r, u, p, "answered")
  /\ UNCHANGED <<row, files, plan, call, lost, met, mailVars>>

(* The process dies, or a statement fails, between the two.                 *)
AbandonLink(r) ==
  /\ pc[r] = "apply"
  /\ Lose
  /\ tx' = [tx EXCEPT ![r] = "undone"]
  /\ Go(r, "failed")
  /\ UNCHANGED <<row, files, put, plan, call, met, mailVars>>

(* The answer of user-service is lost: auth-service answers 500 although    *)
(* the change stands if it commits.                                         *)
LoseAnswer(r) ==
  /\ Follows(r) /\ pc[r] = "answered" /\ tx[r] = "open"
  /\ Lose
  /\ Go(r, "failed")
  /\ UNCHANGED <<service, plan, call, met, mailVars>>

(* Mutation: mark_as_used touches another row. *)
Marks_Nothing(r) == [link EXCEPT ![Key(r)].state = "unused"]

Marks(r) == [link EXCEPT ![Key(r)].state = "used"]

SettleRequest(r) ==
  /\ Settle(r)
  /\ IF Follows(r) /\ tx'[r] = "done"
     THEN link' = Marks(r) /\ proven' = proven \cup {<<Key(r).user, call[r].to>>}
     ELSE UNCHANGED <<link, proven>>
  /\ UNCHANGED <<second, stale, mail, got>>

------------------------------------------------------------------------------
(* The transaction that stored token k ends. *)
SettleToken(k) ==
  /\ link[k] # None /\ link[k].state = "open"
  /\ \/ link' = [link EXCEPT ![k].state = "unused"] /\ UNCHANGED lost
     \/ Lose /\ link' = [link EXCEPT ![k] = None]
  /\ UNCHANGED <<service, plan, pc, call, met, second, stale, mail, got, proven>>

(* Only a request that makes a token reads the clock, so it need not move   *)
(* when none is left to do so.                                              *)
MayMake(r) ==
  /\ pc[r] \in {"idle", "begin", "free"}
  /\ \E c \in plan[r] : c.op \in {"resend", "change"}

Tick ==
  /\ second < MaxSecond
  /\ \E r \in Requests : MayMake(r)
  /\ second' = second + 1
  /\ UNCHANGED <<profileVars, link, stale, mail, got, proven>>

FlowStep(r) ==
  \/ LookUpByEmail(r) \/ FetchForChange(r) \/ CheckFree(r) \/ SaveToken(r) \/ Publish(r)
  \/ CheckVerification(r) \/ CheckEmailChange(r) \/ FetchOld(r) \/ MarkLink(r) \/ ApplyLink(r)

Proceed(r) ==
  \/ ProfileStep(r) /\ UNCHANGED mailVars
  \/ FlowStep(r)
  \/ SettleRequest(r)

Fails(r) == (BreakOff(r) /\ UNCHANGED mailVars) \/ AbandonLink(r) \/ LoseAnswer(r)

Next ==
  \/ \E r \in Requests : \E c \in plan[r] : ReceiveCall(r, c)
  \/ \E r \in Requests : Proceed(r) \/ Fails(r)
  \/ \E k \in Keys : SettleToken(k)
  \/ Tick

Spec == Init /\ [][Next]_vars
FairSpec ==
  /\ Spec
  /\ \A r \in Requests : WF_vars(Proceed(r))
  /\ \A k \in Keys : WF_vars(SettleToken(k))

------------------------------------------------------------------------------
(* Properties *)

TypeOK ==
  /\ ProfileTypeOK
  /\ pc \in [Requests -> Over \cup
       {"idle", "begin", "update", "store", "unstore", "point", "remove",
        "free", "save", "publish", "fetch", "mark", "apply"}]
  /\ call \in [Requests -> Calls \cup {None}]
  /\ second \in 0..MaxSecond
  /\ link \in [Keys -> Links \cup {None}]
  /\ stale \subseteq Keys
  /\ mail \subseteq Mail
  /\ got \in [Requests -> Mail \cup {None}]
  /\ proven \subseteq Users \X Emails

Done(r) == tx[r] = "done"
PatchedUser(u) == \E r \in On(u) : call[r].op = "patch" /\ Done(r)

(* One token was made for two addresses: two requests in one second.        *)
Twin(u) ==
  \E r, q \in Requests :
    /\ got[r] # None /\ got[q] # None
    /\ got[r].key = got[q].key /\ got[r].to # got[q].to
    /\ got[r].key.user = u /\ got[r].key.kind = "change"

(* confirm_email_change: "Ownership of the new email is proven by the       *)
(* confirmation link".  An account that is verified has followed a link     *)
(* mailed to the address it has now, except after a PATCH, which sets       *)
(* address and flag at will, and when two changes were asked for within one *)
(* second: their links are one token, which applies the first address.      *)
VerifiedMeansProven ==
  \A u \in Users :
    row[u] # None /\ row[u].verified =>
      \/ <<u, row[u].email>> \in proven
      \/ PatchedUser(u)
      \/ Twin(u)

(* "It is single-use and expires after 24h": a link takes effect once,      *)
(* except for requests that overlap, since it is checked and marked in two  *)
(* calls.                                                                   *)
LinkTakesEffectOnce ==
  \A r, q \in Requests :
    Follows(r) /\ Follows(q) /\ r # q /\ Done(r) /\ Done(q) /\ call[r].key = call[q].key
      => q \in met[r]

(* "Mark the token as used AND apply the pending email (atomic)": a used    *)
(* link has had its effect, so one that was refused can be followed again.  *)
UsedMeansApplied ==
  \A k \in Keys :
    link[k] # None /\ link[k].state = "used" =>
      \E r \in Requests : Follows(r) /\ call[r].key = k /\ Done(r)

(* auth-service does not look at the status of the two confirm calls, and   *)
(* answers that the address was verified or updated.  While no call fails   *)
(* that is untrue only because another request has removed the account, or  *)
(* taken the address since the change was asked for.                        *)
Took(q, r) ==
  IF Follows(q) THEN call[q].op = "confirm" /\ link[call[q].key].pending = link[Key(r)].pending
  ELSE \/ call[q].op = "patch" /\ call[q].email = link[Key(r)].pending
       \/ call[q].op \in {"delete", "erase"} /\ call[q].user = Key(r).user

EmptySuccess ==
  \A r \in Requests :
    Follows(r) /\ pc[r] = "answered" /\ tx[r] \in {"none", "undone"} /\ lost = 0
      => \E q \in Requests \ {r} : Done(q) /\ Took(q, r)

(* Every request ends, and so does its transaction, although they wait for  *)
(* rows, for addresses of the unique index and for rows of the token table. *)
EveryRequestEnds ==
  \A r \in Requests : (pc[r] = "begin") ~> (pc[r] \in Over /\ tx[r] # "open")
==============================================================================
