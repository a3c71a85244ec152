----------------------------- MODULE GroupAccess -----------------------------
(***************************************************************************)
(* Group access of authenticated sessions: GroupAccessPolicy (one check    *)
(* per address at a time, one Core after the other, answers kept for       *)
(* CacheTime) and its use by QAppAuthenticationService: authentication,    *)
(* the check before a request, the revalidation that maintenance hands to  *)
(* a pool, revocation.                                                     *)
(*                                                                         *)
(* Time is kept as ages: Tick adds one to the age of every stored time, up *)
(* to Old, from which on no comparison of the code can tell ages apart.    *)
(***************************************************************************)
EXTENDS Integers, Sequences, FiniteSets

CONSTANTS
  Session, Address,
  Account,    \* Account[s]: the address session s authenticates as
  Group,      \* allowed_group_ids; each check has a pool thread (at most 4)
  Memberships, \* the sets of groups an address may be in
  CoreCount,  \* how many core_url_bases there are
  Requester,  \* threads that authenticate, bootstrap or serve requests
  Worker,     \* the revalidation pool
  CacheTime,  \* MEMBERSHIP_CACHE_SECONDS
  Interval,   \* access_revalidate_interval
  Grace,      \* access_outage_grace
  MaxDelay,   \* bound of the model: how long a call may take
  None

Thread == Requester \cup Worker

ASSUME AccessConstants ==
  /\ Account \in [Session -> Address] /\ CoreCount \in Nat \ {0}
  /\ CacheTime \in Nat \ {0} /\ Interval \in Nat /\ Grace \in Nat
  /\ MaxDelay \in Nat \ {0}
  /\ CacheTime <= Interval /\ Interval <= Grace   \* Config.validate
  /\ Requester \cap Worker = {} /\ None \notin Thread
  /\ None \notin {"yes", "no", "unavailable"}

VARIABLES
  memberOf,   \* what the Cores know: the allowed groups each address is in
  cache,      \* _cache: allowed, and the age of checked_at
  pending,    \* _pending: the thread that checks the address
  asking,     \* the futures of _check_groups: one for each group
  call,       \* what each thread is doing
  stamp,      \* age of ACCESS_CHECKED_AT; Old when there is none, or when
              \* ACCESS_POLICY_REVISION is not the policy's
  status,     \* provisional, active (promoted) or gone from the registry
  queue,      \* the pool's queue of sessions to revalidate
  lastYes     \* age of the newest answer that granted the address access

vars == <<memberOf, cache, pending, asking, call, stamp, status, queue, lastYes>>

Old == Grace + MaxDelay + 1

\* a thread's call: its age; whether it may survive an outage, which depends
\* on times read at its start; what authorize found, and the age of that check
Idle == [pc |-> "idle", kind |-> None, session |-> None, age |-> 0,
         spared |-> FALSE, got |-> None, at |-> 0]

Addr(t) == Account[call[t].session]

-----------------------------------------------------------------------------
(* QAppAuthenticationService: where a check starts *)

\* require_authorized returns without asking
Fresh(s) == stamp[s] < Interval

\* mutant: any stamp of this policy is good enough in an outage
SurvivesStamped(s) == stamp[s] < Old

\* an outage is survived when the last check is recent enough
Survives(s) == stamp[s] <= Grace

Begin(t, kind, s) ==
  LET look == kind = "authenticate" \/ ~Fresh(s)
  IN  call' = [call EXCEPT ![t] =
    [Idle EXCEPT !.kind = kind, !.session = s,
                 !.spared = kind # "authenticate" /\ look /\ Survives(s),
                 !.pc = IF look THEN "look" ELSE "served"]]

\* authenticate, once the signature is verified
Authenticate(t, s) ==
  /\ call[t].pc = "idle" /\ status[s] # "gone"
  /\ Begin(t, "authenticate", s)
  /\ UNCHANGED <<memberOf, cache, pending, asking, stamp, status, queue, lastYes>>

\* _validate_bootstrap_context ("bootstrap"), _authorized ("request")
Request(t, kind, s) ==
  /\ call[t].pc = "idle" /\ status[s] = "active"
  /\ Begin(t, kind, s)
  /\ UNCHANGED <<memberOf, cache, pending, asking, stamp, status, queue, lastYes>>

\* _pending of the service: sessions queued or being revalidated
Revalidating ==
  {queue[i] : i \in DOMAIN queue} \cup
  {call[w].session : w \in {v \in Worker : call[v].pc # "idle"}}

\* what `maintain' submits
Due(s) == status[s] = "active" /\ ~Fresh(s) /\ s \notin Revalidating

\* maintain, one session at a time
Maintain(s) ==
  /\ Due(s)
  /\ queue' = Append(queue, s)
  /\ UNCHANGED <<memberOf, cache, pending, asking, call, stamp, status, lastYes>>

\* _revalidate; a session that has gone meanwhile is left alone
Revalidate(w) ==
  /\ call[w].pc = "idle" /\ queue # <<>>
  /\ queue' = Tail(queue)
  /\ IF status[Head(queue)] = "gone" THEN UNCHANGED call
     ELSE Begin(w, "revalidate", Head(queue))
  /\ UNCHANGED <<memberOf, cache, pending, asking, stamp, status, lastYes>>

-----------------------------------------------------------------------------
(* GroupAccessPolicy.authorize *)

\* the future of one group: Cores left to try, and the result
Result(r) == [left |-> 0, result |-> r]
Unasked == [g \in Group |-> Result(None)]

\* a cached answer keeps the time of its check
Hit(t, c) ==
  [call[t] EXCEPT !.pc = "got", !.got = IF c.allowed THEN "yes" ELSE "no",
                  !.at = IF c.allowed THEN c.age ELSE 0]

\* the body of the while loop, under the lock
Look(t) ==
  LET a == Addr(t)
      c == cache[a]
  IN  /\ call[t].pc = "look"
      /\ IF c # None /\ c.age - call[t].age < CacheTime
           THEN call' = [call EXCEPT ![t] = Hit(t, c)] /\ UNCHANGED <<pending, asking>>
         ELSE IF pending[a] = None
           THEN /\ pending' = [pending EXCEPT ![a] = t]
                /\ asking' = [asking EXCEPT ![a] = Unasked]
                /\ call' = [call EXCEPT ![t].pc = "ask"]
         ELSE call' = [call EXCEPT ![t].pc = "wait"] /\ UNCHANGED <<pending, asking>>
      /\ UNCHANGED <<memberOf, cache, stamp, status, queue, lastYes>>

\* pending.wait(8.0) gives up
WaitTimeout(t) ==
  /\ call[t].pc = "wait"
  /\ call' = [call EXCEPT ![t].pc = "got", ![t].got = "unavailable"]
  /\ UNCHANGED <<memberOf, cache, pending, asking, stamp, status, queue, lastYes>>

Running(a, g) ==
  pending[a] # None /\ call[pending[a]].pc = "ask" /\ asking[a][g].result = None

\* How many Cores are to be tried: _check_one_group starts with those that are
\* not cooling down after a failure, or with all. Which ones those are depends
\* on earlier failures and on time; the model allows any number.
ToTry(a, g) == IF asking[a][g].left > 0 THEN {asking[a][g].left} ELSE 1..CoreCount

\* a Core answers
Answer(a, g) ==
  LET yes == g \in memberOf[a]
  IN  /\ Running(a, g)
      /\ asking' = [asking EXCEPT ![a][g] = Result(IF yes THEN "yes" ELSE "no")]
      /\ lastYes' = IF yes THEN [lastYes EXCEPT ![a] = 0] ELSE lastYes
      /\ UNCHANGED <<memberOf, cache, pending, call, stamp, status, queue>>

\* it fails, or no request slot is free: on to the next Core, if there is one
NoAnswer(a, g) ==
  /\ Running(a, g)
  /\ \E n \in ToTry(a, g) :
       asking' = [asking EXCEPT ![a][g] =
         IF n = 1 THEN Result("unavailable") ELSE [@ EXCEPT !.left = n - 1]]
  /\ UNCHANGED <<memberOf, cache, pending, call, stamp, status, queue, lastYes>>

\* the deadline of the check passes between two Cores
Deadline(a, g) ==
  /\ Running(a, g) /\ asking[a][g].left > 0
  /\ asking' = [asking EXCEPT ![a][g] = Result("unavailable")]
  /\ UNCHANGED <<memberOf, cache, pending, call, stamp, status, queue, lastYes>>

\* mutant: a group that could not be asked counts as a no
VerdictOfAnswers(results) == IF "yes" \in results THEN "yes" ELSE "no"

\* _check_groups: any yes, else any failure, else no
Verdict(results) ==
  IF "yes" \in results THEN "yes"
  ELSE IF "unavailable" \in results THEN "unavailable" ELSE "no"

\* _check_groups is done; an answer is cached with the caller's checked_at
Checked(t) ==
  LET a == Addr(t)
      v == Verdict({asking[a][g].result : g \in Group})
  IN  /\ call[t].pc = "ask" /\ \A g \in Group : asking[a][g].result # None
      /\ call' = [call EXCEPT ![t].pc = "finish", ![t].got = v,
                                  ![t].at = IF v = "yes" THEN call[t].age ELSE 0]
      /\ cache' = IF v = "unavailable" THEN cache
                  ELSE [cache EXCEPT ![a] = [allowed |-> v = "yes", age |-> call[t].age]]
      /\ UNCHANGED <<memberOf, pending, asking, stamp, status, queue, lastYes>>

Waiting(a) == {t \in Thread : call[t].pc = "wait" /\ Addr(t) = a}

\* mutant: the address stays taken after a failed check
FinishTaken(t) ==
  /\ call[t].pc = "finish" /\ call' = [call EXCEPT ![t].pc = "got"]
  /\ pending' = IF call[t].got = "unavailable" THEN pending
                ELSE [pending EXCEPT ![Addr(t)] = None]
  /\ UNCHANGED <<memberOf, cache, asking, stamp, status, queue, lastYes>>

\* the `finally' block: the address is free again and the waiters look again
Finish(t) ==
  /\ call[t].pc = "finish"
  /\ pending' = [pending EXCEPT ![Addr(t)] = None]
  /\ asking' = [asking EXCEPT ![Addr(t)] = Unasked]
  /\ call' = [u \in Thread |->
       IF u = t THEN [call[t] EXCEPT !.pc = "got"]
       ELSE IF u \in Waiting(Addr(t)) THEN [call[u] EXCEPT !.pc = "look"] ELSE call[u]]
  /\ UNCHANGED <<memberOf, cache, stamp, status, queue, lastYes>>

-----------------------------------------------------------------------------
(* QAppAuthenticationService: what follows from the answer *)

\* authorize returned or raised
Settle(t) ==
  LET s == call[t].session
      k == call[t].kind
      granted == call[t].got = "yes" /\ (k = "authenticate" => status[s] # "gone")
      spared == call[t].got = "unavailable" /\ call[t].spared
  IN  /\ call[t].pc = "got"
      /\ stamp' = IF granted THEN [stamp EXCEPT ![s] = call[t].at] ELSE stamp
      /\ status' = IF granted /\ k = "authenticate"
                   THEN [status EXCEPT ![s] = "active"] ELSE status
      /\ call' = [call EXCEPT ![t] =
           IF granted \/ spared
             THEN [@ EXCEPT !.pc = "served", !.spared = FALSE, !.got = None, !.at = 0]
           ELSE IF k \in {"revalidate", "bootstrap"}
             THEN [Idle EXCEPT !.pc = "revoke", !.session = s]
           ELSE Idle]
      /\ UNCHANGED <<memberOf, cache, pending, asking, queue, lastYes>>

\* revoke, revoke_session
Revoke(t) ==
  /\ call[t].pc = "revoke"
  /\ status' = [status EXCEPT ![call[t].session] = "gone"]
  /\ call' = [call EXCEPT ![t] = Idle]
  /\ UNCHANGED <<memberOf, cache, pending, asking, stamp, queue, lastYes>>

\* The farewell could not be sent and raised what revoke does not handle
\* (BackpressureError, ConnectionClosedError, TimeoutError, OSError), or the
\* clean-up of revoke_session raised: the session stays for the next attempt.
RevokeRaises(t) ==
  /\ call[t].pc = "revoke"
  /\ call' = [call EXCEPT ![t] = Idle]
  /\ UNCHANGED <<memberOf, cache, pending, asking, stamp, status, queue, lastYes>>

\* the request is served, the future is done (_finished)
Return(t) ==
  /\ call[t].pc = "served"
  /\ call' = [call EXCEPT ![t] = Idle]
  /\ UNCHANGED <<memberOf, cache, pending, asking, stamp, status, queue, lastYes>>

-----------------------------------------------------------------------------
(* The surroundings *)

Older(n) == IF n < Old THEN n + 1 ELSE n

Tick ==
  /\ \A t \in Thread : call[t].pc # "idle" => call[t].age < MaxDelay
  /\ cache' = [a \in Address |->
       IF cache[a] = None \/ cache[a].age + 1 >= CacheTime + MaxDelay THEN None
       ELSE [cache[a] EXCEPT !.age = @ + 1]]
  /\ stamp' = [s \in Session |-> Older(stamp[s])]
  /\ lastYes' = [a \in Address |-> Older(lastYes[a])]
  /\ call' = [t \in Thread |-> IF call[t].pc = "idle" THEN Idle
       ELSE [call[t] EXCEPT !.age = @ + 1, !.at = IF call[t].got = "yes" THEN Older(@) ELSE @]]
  /\ UNCHANGED <<memberOf, pending, asking, status, queue>>

\* an address joins or leaves groups on the chain
Regroup(a) ==
  /\ \E G \in Memberships : memberOf' = [memberOf EXCEPT ![a] = G]
  /\ UNCHANGED <<cache, pending, asking, call, stamp, status, queue, lastYes>>

\* the session is discarded or expires
Discard(s) ==
  /\ status[s] # "gone" /\ status' = [status EXCEPT ![s] = "gone"]
  /\ UNCHANGED <<memberOf, cache, pending, asking, call, stamp, queue, lastYes>>

\* A session is new, or was loaded from the database with the stamp of an
\* earlier run, whose policy may have been another one.
Init ==
  /\ memberOf \in [Address -> Memberships]
  /\ queue = <<>>
  /\ cache = [a \in Address |-> None]
  /\ pending = [a \in Address |-> None]
  /\ asking = [a \in Address |-> Unasked]
  /\ call = [t \in Thread |-> Idle]
  /\ lastYes \in [Address -> {0, Grace, Old}]
  /\ status \in [Session -> {"provisional", "active"}]
  /\ stamp \in [Session -> {0, Grace, Old}]
  /\ \A s \in Session :
       /\ status[s] = "provisional" => stamp[s] = Old
       /\ lastYes[Account[s]] <= stamp[s]

Thinks(t) ==
  \/ Look(t) \/ Checked(t) \/ Finish(t) \/ Settle(t)
  \/ Revoke(t) \/ RevokeRaises(t) \/ Return(t)
Asks(a, g) == Answer(a, g) \/ NoAnswer(a, g) \/ Deadline(a, g)

Next ==
  \/ \E t \in Requester, s \in Session :
       Authenticate(t, s) \/ Request(t, "bootstrap", s) \/ Request(t, "request", s)
  \/ \E s \in Session : Maintain(s) \/ Discard(s)
  \/ \E w \in Worker : Revalidate(w)
  \/ \E t \in Thread : Thinks(t) \/ WaitTimeout(t)
  \/ \E a \in Address : Regroup(a) \/ \E g \in Group : Asks(a, g)
  \/ Tick

Spec == Init /\ [][Next]_vars

\* Time passes, threads run, a request to a Core returns within its timeout,
\* the maintenance timer fires and the pool takes what it was given.
FairSpec ==
  /\ Spec /\ WF_vars(Tick)
  /\ \A s \in Session : WF_vars(Maintain(s))
  /\ \A w \in Worker : WF_vars(Revalidate(w))
  /\ \A t \in Thread : WF_vars(Thinks(t))
  /\ \A a \in Address, g \in Group : WF_vars(Asks(a, g))

-----------------------------------------------------------------------------
(* Properties *)

\* Whoever is let through relies on a Core's yes for its address: one within
\* the outage grace when it asked, and for a new session one within the cache
\* time, however the answer reached it (own check, another thread's check, the
\* cache, the stamp of a session, an outage) (README.md:73-76).
ServedIsBacked ==
  \A t \in Thread : call[t].pc = "served" =>
    lastYes[Addr(t)] <= call[t].age +
      (IF call[t].kind = "authenticate" THEN CacheTime ELSE Grace)

\* An address is reported as no member only when every group was asked and
\* answered no in one check (_check_groups; "unknown group result fails closed
\* instead of becoming a denial", tests/test_group_access.py:41).
DenialIsConfirmed ==
  \A t \in Thread : call[t].pc = "finish" /\ call[t].got = "no" =>
    \A g \in Group : asking[Addr(t)][g].result = "no"

\* A session whose address has left all allowed groups for good is revoked,
\* also when the Cores fail, requests keep renewing the cache or the session
\* was loaded from the database (docs/protocol.md:193-195), and when an attempt
\* to revoke it raises, because maintain tries again.  Two things can keep it:
\* that every attempt raises, and that a check of it waits in authorize for
\* ever, each time overtaken by a newcomer (the lock promises no order).
RemovedIsRevoked ==
  \A s \in Session :
    <>[](memberOf[Account[s]] = {}) =>
      \/ status[s] = "active" ~> status[s] = "gone"
      \/ []<><<\E t \in Thread : call[t].session = s /\ RevokeRaises(t)>>_vars
      \/ \E t \in Thread : /\ <>[](call[t].session = s /\ call[t].pc \in {"look", "wait"})
                           /\ []<><<Look(t)>>_vars

=============================================================================
