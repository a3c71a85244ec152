-------------------------- MODULE GroupAccessProofs --------------------------
(***************************************************************************)
(* For any number of sessions, groups, Cores and threads and any times:    *)
(* what lets a caller through is as recent as it has to be, and a denial   *)
(* rests on an answer for every group.                                     *)
(*                                                                         *)
(* An answer passes through the futures of a check, the call that made the *)
(* check, the cache, other calls and the stamp of a session.  The          *)
(* invariant says for each of these places how old the newest yes may be   *)
(* at most; all ages grow together.                                        *)
(***************************************************************************)
EXTENDS GroupAccess, TLAPS

Answers == {None, "yes", "no", "unavailable"}

Calls ==
  [pc : {"idle", "look", "wait", "ask", "finish", "got", "served", "revoke"},
   kind : {None, "authenticate", "bootstrap", "request", "revalidate"},
   session : Session \cup {None}, age : Nat, spared : BOOLEAN,
   got : Answers, at : Nat]

Types ==
  /\ cache \in [Address -> {None} \cup [allowed : BOOLEAN, age : Nat]]
  /\ pending \in [Address -> Thread \cup {None}]
  /\ asking \in [Address -> [Group -> [left : Nat, result : Answers]]]
  /\ call \in [Thread -> Calls]
  /\ stamp \in [Session -> Nat] /\ lastYes \in [Address -> 0..Old]
  /\ queue \in Seq(Session)
  /\ \A t \in Thread : call[t].pc # "idle" => call[t].session \in Session

\* only the thread that is entered in _pending works on an address
OneLeads ==
  \A t \in Thread : call[t].pc \in {"ask", "finish"} => pending[Addr(t)] = t

\* what a call relies on, when the newest yes for its address is y old
Sound(c, y) ==
  /\ c.got = "yes" => y <= c.at /\ c.at <= c.age + CacheTime
  /\ c.spared => c.kind # "authenticate" /\ y <= c.age + Grace
  /\ c.pc = "served" =>
       y <= c.age + (IF c.kind = "authenticate" THEN CacheTime ELSE Grace)

CallsSound == \A t \in Thread : call[t].pc # "idle" => Sound(call[t], lastYes[Addr(t)])

AnswersSound ==
  \A t \in Thread : call[t].pc = "ask" =>
    \A g \in Group : asking[Addr(t)][g].result = "yes" => lastYes[Addr(t)] <= call[t].age

CacheSound ==
  \A a \in Address : cache[a] # None /\ cache[a].allowed => lastYes[a] <= cache[a].age

StampsSound == \A s \in Session : lastYes[Account[s]] <= stamp[s]

AccessInv ==
  /\ Types /\ OneLeads /\ CallsSound /\ AnswersSound /\ CacheSound /\ StampsSound
  /\ DenialIsConfirmed

-----------------------------------------------------------------------------

USE AccessConstants DEF AccessConstants

\* The age from which on the code cannot tell times apart is a number.
LEMMA OldNat == Old \in Nat
  BY DEF Old

\* A newer yes leaves every call sound.
LEMMA NewerYes ==
  ASSUME NEW c \in Calls, NEW y \in Nat, NEW z \in Nat, z <= y, Sound(c, y)
  PROVE  Sound(c, z)
  BY DEF Sound, Calls

\* Address of a call that is under way.
LEMMA AddrType ==
  ASSUME Types, NEW t \in Thread, call[t].pc # "idle" PROVE Addr(t) \in Address
  BY DEF Types, Addr

\* A new process, whose sessions are new or were loaded with their stamps.
LEMMA InitAccess == Init => AccessInv
<1> SUFFICES ASSUME Init PROVE AccessInv
  OBVIOUS
<1> USE OldNat DEF Init
<1>1. Idle \in Calls
  BY DEF Idle, Calls, Answers
<1>2. Unasked \in [Group -> [left : Nat, result : Answers]]
  BY DEF Unasked, Result, Answers
<1>3. \A t \in Thread : call[t] = Idle /\ call[t].pc = "idle"
  BY DEF Idle
<1>4. Types
  <2>1. stamp \in [Session -> Nat] /\ lastYes \in [Address -> 0..Old]
    BY DEF Old
  <2> QED BY <1>1, <1>2, <1>3, <2>1 DEF Types
<1>5. OneLeads /\ CallsSound /\ AnswersSound /\ DenialIsConfirmed
  BY <1>3 DEF OneLeads, CallsSound, AnswersSound, DenialIsConfirmed
<1>6. CacheSound /\ StampsSound
  BY DEF CacheSound, StampsSound
<1> QED BY <1>4, <1>5, <1>6 DEF AccessInv

\* A step that changes one call, and perhaps stamps, keeps the invariant when
\* the new call is sound and does not lead a check.
LEMMA CallStep ==
  ASSUME AccessInv, NEW t \in Thread, NEW c \in Calls,
         call' = [call EXCEPT ![t] = c],
         c.pc \notin {"ask", "finish"},
         c.pc # "idle" => c.session \in Session /\ Sound(c, lastYes[Account[c.session]]),
         stamp' \in [Session -> Nat], StampsSound', queue' \in Seq(Session),
         UNCHANGED <<cache, pending, asking, lastYes>>
  PROVE  AccessInv'
<1> USE OldNat DEF AccessInv
<1>1. call' \in [Thread -> Calls] /\ call'[t] = c
  BY DEF Types
<1>2. \A u \in Thread : u # t => call'[u] = call[u] /\ Addr(u)' = Addr(u)
  BY DEF Types, Addr
<1>3. Types'
  BY <1>1, <1>2 DEF Types
<1>4. OneLeads' /\ AnswersSound' /\ DenialIsConfirmed'
  BY <1>1, <1>2 DEF OneLeads, AnswersSound, DenialIsConfirmed
<1>5. CallsSound'
  <2> SUFFICES ASSUME NEW u \in Thread, call'[u].pc # "idle"
               PROVE  Sound(call'[u], lastYes'[Addr(u)'])
    BY DEF CallsSound
  <2>1. CASE u = t
    BY <2>1, <1>1 DEF Addr
  <2>2. CASE u # t
    BY <2>2, <1>2 DEF CallsSound
  <2> QED BY <2>1, <2>2
<1>6. CacheSound'
  BY DEF CacheSound
<1> QED BY <1>3, <1>4, <1>5, <1>6

\* Where a check starts: a fresh stamp serves at once, one within the grace
\* may be relied on later.
LEMMA BeginStep ==
  ASSUME AccessInv, NEW t \in Thread, NEW s \in Session,
         NEW kind \in {"authenticate", "bootstrap", "request", "revalidate"},
         Begin(t, kind, s), queue' \in Seq(Session),
         UNCHANGED <<cache, pending, asking, stamp, lastYes>>
  PROVE  AccessInv'
<1> USE OldNat DEF AccessInv
<1> DEFINE look == kind = "authenticate" \/ ~Fresh(s)
           spare == kind # "authenticate" /\ look /\ Survives(s)
           c == [Idle EXCEPT !.kind = kind, !.session = s, !.spared = spare,
                             !.pc = IF look THEN "look" ELSE "served"]
<1>1. call' = [call EXCEPT ![t] = c]
  BY DEF Begin
<1>2. /\ c.pc = (IF look THEN "look" ELSE "served") /\ c.kind = kind /\ c.session = s
      /\ c.age = 0 /\ c.spared = spare /\ c.got = None /\ c.at = 0
  BY DEF Idle
<1>9. c \in Calls
  BY Zenon DEF Calls, Answers, Idle
<1>3. lastYes[Account[s]] \in Nat /\ stamp[s] \in Nat /\ lastYes[Account[s]] <= stamp[s]
  BY DEF Types, StampsSound
<1>4. spare => kind # "authenticate" /\ lastYes[Account[s]] <= Grace
  BY <1>3 DEF Survives
<1>5. ~look => kind # "authenticate" /\ lastYes[Account[s]] <= Grace
  BY <1>3 DEF Fresh
<1>6. Sound(c, lastYes[Account[s]])
  <2>1. c.spared => kind # "authenticate" /\ lastYes[Account[s]] <= Grace
    <3> HIDE DEF c, spare
    <3> QED BY <1>2, <1>4
  <2>2. c.pc = "served" => kind # "authenticate" /\ lastYes[Account[s]] <= Grace
    <3> HIDE DEF c, spare, look
    <3> QED BY <1>2, <1>5
  <2>3. c.kind = kind /\ c.age = 0 /\ c.got # "yes"
    BY <1>2
  <2> HIDE DEF c, spare, look
  <2> QED BY <1>3, <2>1, <2>2, <2>3 DEF Sound
<1>7. c.pc \notin {"ask", "finish"} /\ c.session = s
  BY <1>2
<1>8. stamp' \in [Session -> Nat] /\ StampsSound'
  BY DEF Types, StampsSound
<1> HIDE DEF c
<1> QED BY <1>1, <1>9, <1>6, <1>7, <1>8, CallStep, Zenon

\* What touches neither calls, times nor answers.
LEMMA OtherStep ==
  ASSUME AccessInv, queue' \in Seq(Session),
         UNCHANGED <<cache, pending, asking, call, stamp, lastYes>>
  PROVE  AccessInv'
<1> USE DEF AccessInv
<1>1. Types'
  BY DEF Types
<1> QED BY <1>1, ZenonT(30) DEF OneLeads, CallsSound, AnswersSound, CacheSound, StampsSound,
                    DenialIsConfirmed, Addr

\* The steps of QAppAuthenticationService before and after a check.
LEMMA ServiceStep ==
  ASSUME AccessInv, NEW t \in Thread,
         \/ \E s \in Session : Authenticate(t, s) \/ Request(t, "bootstrap", s)
                               \/ Request(t, "request", s)
         \/ Revalidate(t) \/ WaitTimeout(t) \/ Revoke(t) \/ RevokeRaises(t) \/ Return(t)
  PROVE  AccessInv'
<1> USE OldNat DEF AccessInv
<1>1. CASE \E s \in Session : Authenticate(t, s) \/ Request(t, "bootstrap", s)
                              \/ Request(t, "request", s)
  <2> PICK s \in Session : Authenticate(t, s) \/ Request(t, "bootstrap", s)
                           \/ Request(t, "request", s)
    BY <1>1
  <2>1. PICK kind \in {"authenticate", "bootstrap", "request"} : Begin(t, kind, s)
    BY SMTT(30) DEF Authenticate, Request
  <2>2. queue' \in Seq(Session) /\ UNCHANGED <<cache, pending, asking, stamp, lastYes>>
    BY DEF Authenticate, Request, Types
  <2> QED BY <2>1, <2>2, BeginStep
<1>2. CASE Revalidate(t)
  <2>1. Head(queue) \in Session /\ Tail(queue) \in Seq(Session)
    BY <1>2, SMTT(30) DEF Revalidate, Types
  <2>2. CASE UNCHANGED call
    <3>1. queue' \in Seq(Session) /\ UNCHANGED <<cache, pending, asking, call, stamp, lastYes>>
      BY <1>2, <2>1, <2>2, Zenon DEF Revalidate
    <3> QED BY <3>1, OtherStep, Zenon
  <2>3. CASE Begin(t, "revalidate", Head(queue))
    BY <1>2, <2>1, <2>3, BeginStep DEF Revalidate
  <2> QED BY <1>2, <2>2, <2>3, SMTT(30) DEF Revalidate
<1>3. CASE WaitTimeout(t) \/ Revoke(t) \/ RevokeRaises(t) \/ Return(t)
  <2>1. call[t] \in Calls /\ call[t].pc # "idle" /\ call[t].session \in Session
    BY <1>3 DEF WaitTimeout, Revoke, RevokeRaises, Return, Types
  <2>2. Sound(call[t], lastYes[Addr(t)])
    BY <2>1 DEF CallsSound
  <2>3. stamp' \in [Session -> Nat] /\ StampsSound' /\ queue' \in Seq(Session)
    BY <1>3, SMTT(30) DEF WaitTimeout, Revoke, RevokeRaises, Return, Types, StampsSound
  <2>4. CASE WaitTimeout(t)
    <3> DEFINE c == [call[t] EXCEPT !.pc = "got", !.got = "unavailable"]
    <3>1. c \in Calls /\ c.session = call[t].session /\ c.pc = "got"
      BY <2>1, Zenon DEF Calls, Answers
    <3>2. call' = [call EXCEPT ![t] = c]
      BY <2>4, Zenon DEF WaitTimeout, Types
    <3>3. Sound(c, lastYes[Account[c.session]])
      BY <2>1, <2>2, <3>1 DEF Sound, Calls, Addr
    <3>4. UNCHANGED <<cache, pending, asking, lastYes>>
      BY <2>4 DEF WaitTimeout
    <3> HIDE DEF c
    <3> QED BY <2>1, <2>3, <3>1, <3>2, <3>3, <3>4, CallStep, Zenon
  <2>5. CASE Revoke(t) \/ RevokeRaises(t) \/ Return(t)
    <3>1. Idle \in Calls /\ Idle.pc = "idle"
      BY DEF Idle, Calls, Answers
    <3>2. call' = [call EXCEPT ![t] = Idle] /\ UNCHANGED <<cache, pending, asking, lastYes>>
      BY <2>5 DEF Revoke, RevokeRaises, Return
    <3> QED BY <2>3, <3>1, <3>2, CallStep, Zenon
  <2> QED BY <1>3, <2>4, <2>5
<1> QED BY <1>1, <1>2, <1>3

\* authorize: a cached answer, a wait, or the lead of a check.
LEMMA LookStep == ASSUME AccessInv, NEW t \in Thread, Look(t) PROVE AccessInv'
<1> USE OldNat DEF AccessInv
<1> DEFINE a == Addr(t)
<1>1. call[t] \in Calls /\ call[t].pc = "look" /\ call[t].session \in Session /\ a \in Address
  BY AddrType DEF Look, Types
<1>2. Sound(call[t], lastYes[a])
  BY <1>1 DEF CallsSound
<1>3. stamp' \in [Session -> Nat] /\ StampsSound' /\ queue' \in Seq(Session)
  BY DEF Look, Types, StampsSound
<1>4. UNCHANGED <<cache, lastYes, stamp, queue>>
  BY SMTT(30) DEF Look
<1>5. CASE cache[a] # None /\ cache[a].age - call[t].age < CacheTime
  <2> DEFINE c == Hit(t, cache[a])
  <2>1. cache[a].age \in Nat /\ cache[a].allowed \in BOOLEAN /\ lastYes[a] \in Nat
    BY <1>1, <1>5 DEF Types
  <2>2. cache[a].allowed => lastYes[a] <= cache[a].age
    BY <1>1, <1>5 DEF CacheSound
  <2>3. /\ c \in Calls /\ c.pc = "got" /\ c.session = call[t].session
        /\ c.age = call[t].age /\ c.spared = call[t].spared /\ c.kind = call[t].kind
        /\ c.got = "yes" => cache[a].allowed /\ c.at = cache[a].age
    BY <1>1, <2>1, ZenonT(30) DEF Hit, Calls, Answers
  <2>4. Sound(c, lastYes[Account[c.session]])
    <3>1. Account[c.session] = a /\ call[t].age \in Nat
      BY <1>1, <2>3 DEF Addr, Calls
    <3> HIDE DEF c, a
    <3> QED BY <1>2, <1>5, <2>1, <2>2, <2>3, <3>1, SMTT(30) DEF Sound
  <2>5. call' = [call EXCEPT ![t] = c] /\ UNCHANGED <<pending, asking>>
    BY <1>5 DEF Look
  <2> HIDE DEF c
  <2> QED BY <1>1, <1>3, <1>4, <2>3, <2>4, <2>5, CallStep, Zenon
<1>6. CASE ~(cache[a] # None /\ cache[a].age - call[t].age < CacheTime) /\ pending[a] # None
  <2> DEFINE c == [call[t] EXCEPT !.pc = "wait"]
  <2>1. c \in Calls /\ c.pc = "wait" /\ c.session = call[t].session
    BY <1>1 DEF Calls
  <2>2. Sound(c, lastYes[Account[c.session]])
    BY <1>1, <1>2, <2>1 DEF Sound, Calls, Addr
  <2>3. call' = [call EXCEPT ![t] = c] /\ UNCHANGED <<pending, asking>>
    BY <1>6 DEF Look, Types
  <2> HIDE DEF c
  <2> QED BY <1>1, <1>3, <1>4, <2>1, <2>2, <2>3, CallStep, Zenon
<1>7. CASE ~(cache[a] # None /\ cache[a].age - call[t].age < CacheTime) /\ pending[a] = None
  <2>1. /\ pending' = [pending EXCEPT ![a] = t]
        /\ asking' = [asking EXCEPT ![a] = Unasked]
        /\ call' = [call EXCEPT ![t].pc = "ask"]
    BY <1>7 DEF Look
  <2>2. Unasked \in [Group -> [left : Nat, result : Answers]]
        /\ \A g \in Group : Unasked[g].result = None
    BY DEF Unasked, Result, Answers
  <2>3. call'[t] = [call[t] EXCEPT !.pc = "ask"] /\ call' \in [Thread -> Calls]
    BY <1>1, <2>1, Zenon DEF Types, Calls
  <2>4. /\ \A u \in Thread : u # t => call'[u] = call[u] /\ Addr(u)' = Addr(u)
        /\ Addr(t)' = a /\ call'[t].pc = "ask" /\ call'[t].session = call[t].session
    BY <1>1, <2>1, <2>3 DEF Types, Addr, Calls
  <2>5. Types'
    BY <1>1, <1>4, <2>1, <2>2, <2>3, <2>4 DEF Types
  <2>6. \A u \in Thread : u # t /\ call[u].pc \in {"ask", "finish"} => Addr(u) # a
    BY <1>7, <2>1 DEF OneLeads
  <2>7. OneLeads'
    <3> SUFFICES ASSUME NEW u \in Thread, call'[u].pc \in {"ask", "finish"}
                 PROVE  pending'[Addr(u)'] = u
      BY DEF OneLeads
    <3>1. CASE u = t
      BY <1>1, <2>1, <2>4, <3>1 DEF Types
    <3>2. CASE u # t
      BY <1>1, <2>1, <2>4, <2>6, <3>2, AddrType, ZenonT(30) DEF Types, OneLeads
    <3> QED BY <3>1, <3>2
  <2>8. AnswersSound'
    <3> SUFFICES ASSUME NEW u \in Thread, call'[u].pc = "ask", NEW g \in Group,
                        asking'[Addr(u)'][g].result = "yes"
                 PROVE  lastYes'[Addr(u)'] <= call'[u].age
      BY DEF AnswersSound
    <3>1. u # t
      BY <1>1, <2>1, <2>2, <2>4 DEF Types
    <3>2. asking'[Addr(u)] = asking[Addr(u)]
      BY <1>1, <2>1, <2>4, <2>6, <3>1, AddrType, SMTT(30) DEF Types
    <3> QED BY <1>4, <2>4, <3>1, <3>2 DEF AnswersSound
  <2>9. DenialIsConfirmed'
    <3> SUFFICES ASSUME NEW u \in Thread, call'[u].pc = "finish", call'[u].got = "no",
                        NEW g \in Group
                 PROVE  asking'[Addr(u)'][g].result = "no"
      BY DEF DenialIsConfirmed
    <3>1. u # t
      BY <2>4
    <3>2. asking'[Addr(u)] = asking[Addr(u)]
      BY <1>1, <2>1, <2>4, <2>6, <3>1, AddrType, SMTT(30) DEF Types
    <3> QED BY <2>4, <3>1, <3>2 DEF DenialIsConfirmed
  <2>10. CallsSound'
    <3>1. Sound(call'[t], lastYes[a])
      BY <1>1, <1>2, <2>3 DEF Sound, Calls
    <3> QED BY <1>4, <2>4, <3>1 DEF CallsSound
  <2>11. CacheSound' /\ StampsSound'
    BY <1>3, <1>4 DEF CacheSound
  <2> QED BY <2>5, <2>7, <2>8, <2>9, <2>10, <2>11
<1> QED BY <1>5, <1>6, <1>7

\* A Core answers or fails, or time is up: a yes is new at that moment.
LEMMA AskStep ==
  ASSUME AccessInv, NEW a \in Address, NEW g \in Group, Asks(a, g) PROVE AccessInv'
<1> USE OldNat DEF AccessInv
<1>1. PICK r : /\ r \in [left : Nat, result : Answers] /\ asking' = [asking EXCEPT ![a][g] = r]
               /\ r.result = "yes" => lastYes'[a] = 0
  <2>1. CASE Answer(a, g)
    <3>1. CASE g \in memberOf[a]
      <4> WITNESS Result("yes")
      <4>1. Result("yes") \in [left : Nat, result : Answers]
        BY DEF Result, Answers
      <4>2. asking' = [asking EXCEPT ![a][g] = Result("yes")] /\ lastYes'[a] = 0
        BY <2>1, <3>1 DEF Answer, Types
      <4> QED BY <4>1, <4>2
    <3>2. CASE g \notin memberOf[a]
      <4> WITNESS Result("no")
      <4>1. Result("no") \in [left : Nat, result : Answers] /\ Result("no").result # "yes"
        BY DEF Result, Answers
      <4>2. asking' = [asking EXCEPT ![a][g] = Result("no")]
        BY <2>1, <3>2 DEF Answer
      <4> QED BY <4>1, <4>2
    <3> QED BY <3>1, <3>2
  <2>2. CASE NoAnswer(a, g)
    <3>1. PICK n \in ToTry(a, g) : asking' = [asking EXCEPT ![a][g] =
             IF n = 1 THEN Result("unavailable") ELSE [@ EXCEPT !.left = n - 1]]
      BY <2>2, Zenon DEF NoAnswer
    <3>2. asking[a][g] \in [left : Nat, result : Answers] /\ asking[a][g].result = None
      BY <2>2 DEF NoAnswer, Running, Types
    <3>3. n \in Nat \ {0}
      BY <3>1, <3>2 DEF ToTry
    <3>4. CASE n = 1
      <4> WITNESS Result("unavailable")
      <4> QED BY <3>1, <3>4 DEF Result, Answers, Types
    <3>5. CASE n # 1
      <4> WITNESS [asking[a][g] EXCEPT !.left = n - 1]
      <4>1. /\ [asking[a][g] EXCEPT !.left = n - 1] \in [left : Nat, result : Answers]
            /\ [asking[a][g] EXCEPT !.left = n - 1].result # "yes"
        BY <3>2, <3>3
      <4>2. asking' = [asking EXCEPT ![a][g] = [asking[a][g] EXCEPT !.left = n - 1]]
        BY <3>1, <3>5 DEF Types
      <4> QED BY <4>1, <4>2
    <3> QED BY <3>4, <3>5
  <2>3. CASE Deadline(a, g)
    <3> WITNESS Result("unavailable")
    <3> QED BY <2>3 DEF Deadline, Result, Answers
  <2> QED BY <2>1, <2>2, <2>3 DEF Asks
<1>2. Running(a, g) /\ UNCHANGED <<cache, pending, call, stamp, queue>>
  BY DEF Asks, Answer, NoAnswer, Deadline
<1>3. lastYes' \in [Address -> 0..Old] /\ \A b \in Address : lastYes'[b] <= lastYes[b]
  <2>1. lastYes' = lastYes \/ lastYes' = [lastYes EXCEPT ![a] = 0]
    BY DEF Asks, Answer, NoAnswer, Deadline
  <2>2. lastYes \in [Address -> 0..Old] /\ 0 \in 0..Old
    BY DEF Types
  <2>3. \A n \in 0..Old : n <= n /\ 0 <= n
    OBVIOUS
  <2>4. CASE lastYes' = lastYes
    BY <2>2, <2>3, <2>4
  <2>5. CASE lastYes' = [lastYes EXCEPT ![a] = 0]
    BY <2>2, <2>3, <2>5
  <2> QED BY <2>1, <2>4, <2>5
<1>4. \A u \in Thread : Addr(u)' = Addr(u)
  BY <1>2, SMTT(30) DEF Addr
<1>5. Types'
  BY <1>1, <1>2, <1>3, ZenonT(30) DEF Types
<1>6. OneLeads'
  BY <1>2, <1>4 DEF OneLeads
<1>7. CallsSound'
  <2> SUFFICES ASSUME NEW u \in Thread, call[u].pc # "idle"
               PROVE  Sound(call[u], lastYes'[Addr(u)])
    BY <1>2, <1>4 DEF CallsSound
  <2>1. Addr(u) \in Address /\ call[u] \in Calls
    BY AddrType DEF Types
  <2>2. lastYes'[Addr(u)] \in Nat /\ lastYes[Addr(u)] \in Nat /\ lastYes'[Addr(u)] <= lastYes[Addr(u)]
    BY <1>3, <2>1 DEF Types
  <2> QED BY <2>1, <2>2, NewerYes DEF CallsSound
<1>8. AnswersSound'
  <2> SUFFICES ASSUME NEW u \in Thread, call[u].pc = "ask", NEW h \in Group,
                      asking'[Addr(u)][h].result = "yes"
               PROVE  lastYes'[Addr(u)] <= call[u].age
    BY <1>2, <1>4 DEF AnswersSound
  <2>1. Addr(u) \in Address /\ call[u].age \in Nat
    BY AddrType, Zenon DEF Types, Calls
  <2>2. CASE Addr(u) = a /\ h = g
    BY <1>1, <2>1, <2>2 DEF Types
  <2>3. CASE ~(Addr(u) = a /\ h = g)
    <3>1. asking'[Addr(u)][h] = asking[Addr(u)][h]
      BY <1>1, <2>1, <2>3 DEF Types
    <3>2. lastYes[Addr(u)] <= call[u].age
      BY <3>1 DEF AnswersSound
    <3> QED BY <1>3, <2>1, <3>2, SMTT(30) DEF Types
  <2> QED BY <2>2, <2>3
<1>9. CacheSound'
  <2> SUFFICES ASSUME NEW b \in Address, cache[b] # None, cache[b].allowed
               PROVE  lastYes'[b] <= cache[b].age
    BY <1>2, SMTT(30) DEF CacheSound
  <2>1. lastYes[b] <= cache[b].age /\ cache[b].age \in Nat
    BY DEF CacheSound, Types
  <2> QED BY <1>3, <2>1 DEF Types
<1>10. StampsSound'
  <2> SUFFICES ASSUME NEW s \in Session PROVE lastYes'[Account[s]] <= stamp[s]
    BY <1>2, SMTT(30) DEF StampsSound
  <2> QED BY <1>3 DEF Types, StampsSound
<1>11. DenialIsConfirmed'
  <2> SUFFICES ASSUME NEW u \in Thread, call[u].pc = "finish", call[u].got = "no",
                      NEW h \in Group
               PROVE  asking'[Addr(u)][h].result = "no"
    BY <1>2, <1>4, Zenon DEF DenialIsConfirmed
  <2>1. Addr(u) \in Address /\ Addr(u) # a
    BY <1>2, AddrType DEF OneLeads, Running
  <2> QED BY <1>1, <2>1, Zenon DEF DenialIsConfirmed, Types
<1> QED BY <1>5, <1>6, <1>7, <1>8, <1>9, <1>10, <1>11

\* A check ends: its verdict is cached with the time its caller started.
LEMMA CheckedStep == ASSUME AccessInv, NEW t \in Thread, Checked(t) PROVE AccessInv'
<1> USE OldNat DEF AccessInv
<1> DEFINE a == Addr(t)
           v == Verdict({asking[a][g].result : g \in Group})
           c == [call[t] EXCEPT !.pc = "finish", !.got = v,
                                !.at = IF v = "yes" THEN call[t].age ELSE 0]
<1>1. call[t] \in Calls /\ call[t].pc = "ask" /\ call[t].session \in Session /\ a \in Address
  BY AddrType, ZenonT(30) DEF Checked, Types
<1>2. v \in {"yes", "no", "unavailable"}
  BY DEF Verdict
<1>3. v = "yes" => lastYes[a] <= call[t].age
  <2>1. v = "yes" => \E g \in Group : asking[a][g].result = "yes"
    BY DEF Verdict
  <2> QED BY <1>1, <2>1 DEF AnswersSound
<1>4. v = "no" => \A g \in Group : asking[a][g].result = "no"
  <2> SUFFICES ASSUME v = "no", NEW g \in Group PROVE asking[a][g].result = "no"
    OBVIOUS
  <2>1. asking[a][g].result \in Answers \ {None}
    <3>1. asking[a][g].result # None
      BY ZenonT(30) DEF Checked
    <3>2. asking[a][g].result \in Answers
      BY <1>1, SMTT(30) DEF Types
    <3> QED BY <3>1, <3>2, SMTT(30)
  <2>2. asking[a][g].result \notin {"yes", "unavailable"}
    BY SMTT(30) DEF Verdict
  <2> QED BY <2>1, <2>2 DEF Answers
<1>5. call' = [call EXCEPT ![t] = c]
  BY ZenonT(30) DEF Checked, Types
<1>6. /\ cache' = IF v = "unavailable" THEN cache
                  ELSE [cache EXCEPT ![a] = [allowed |-> v = "yes", age |-> call[t].age]]
      /\ UNCHANGED <<pending, asking, stamp, queue, lastYes>>
  BY Zenon DEF Checked
<1> HIDE DEF v
<1>7. /\ c \in Calls /\ c.pc = "finish" /\ c.session = call[t].session /\ c.got = v
      /\ c.spared = call[t].spared /\ c.kind = call[t].kind /\ c.age = call[t].age
      /\ v = "yes" => c.at = call[t].age
  BY <1>1, <1>2, Zenon DEF Calls, Answers
<1> HIDE DEF c
<1>8. /\ call'[t] = c /\ call' \in [Thread -> Calls] /\ Addr(t)' = a
      /\ \A u \in Thread : u # t => call'[u] = call[u] /\ Addr(u)' = Addr(u)
  BY <1>5, <1>7 DEF Types, Addr
<1>9. Types'
  <2>1. call[t].age \in Nat
    BY <1>1 DEF Calls
  <2>2. cache' \in [Address -> {None} \cup [allowed : BOOLEAN, age : Nat]]
    BY <1>1, <1>6, <2>1, Zenon DEF Types
  <2> QED BY <1>1, <1>6, <1>7, <1>8, <2>2, ZenonT(30) DEF Types
<1>10. OneLeads'
  BY <1>1, <1>6, <1>7, <1>8, SMTT(30) DEF OneLeads
<1>11. CallsSound'
  <2>1. Sound(c, lastYes[a])
    <3>1. Sound(call[t], lastYes[a]) /\ call[t].age \in Nat
      BY <1>1, Zenon DEF CallsSound, Calls
    <3> HIDE DEF a
    <3> QED BY <1>3, <1>7, <3>1 DEF Sound
  <2> QED BY <1>6, <1>8, <2>1 DEF CallsSound
<1>12. AnswersSound'
  BY <1>6, <1>7, <1>8, SMTT(30) DEF AnswersSound
<1>13. CacheSound'
  <2> SUFFICES ASSUME NEW b \in Address, cache'[b] # None, cache'[b].allowed
               PROVE  lastYes[b] <= cache'[b].age
    BY <1>6 DEF CacheSound
  <2>1. CASE v # "unavailable" /\ b = a
    <3>1. cache'[b] = [allowed |-> v = "yes", age |-> call[t].age]
      BY <1>1, <1>6, <2>1, Zenon DEF Types
    <3>3. cache'[b].age = call[t].age
      BY <3>1
    <3>2. v = "yes"
      <4> SUFFICES ASSUME v # "yes" PROVE FALSE
        OBVIOUS
      <4>1. cache'[b] = [allowed |-> FALSE, age |-> call[t].age]
        BY <3>1, Zenon
      <4>2. cache'[b].allowed = FALSE
        BY <4>1
      <4> QED BY <4>2
    <3> QED BY <1>3, <2>1, <3>3, <3>2, SMTT(30)
  <2>2. CASE ~(v # "unavailable" /\ b = a)
    <3>1. cache'[b] = cache[b]
      BY <1>1, <1>6, <2>2 DEF Types
    <3> QED BY <3>1, SMTT(30) DEF CacheSound
  <2> QED BY <2>1, <2>2
<1>14. StampsSound'
  BY <1>6, SMTT(30) DEF StampsSound
<1>15. DenialIsConfirmed'
  BY <1>4, <1>6, <1>7, <1>8 DEF DenialIsConfirmed
<1> QED BY <1>9, <1>10, <1>11, <1>12, <1>13, <1>14, <1>15, SMTT(30)

\* The lead is given up: its caller has the verdict, the waiters look again.
LEMMA FinishStep == ASSUME AccessInv, NEW t \in Thread, Finish(t) PROVE AccessInv'
<1> USE OldNat DEF AccessInv
<1> DEFINE a == Addr(t)
<1>1. /\ pending' = [pending EXCEPT ![a] = None] /\ asking' = [asking EXCEPT ![a] = Unasked]
      /\ UNCHANGED <<cache, stamp, queue, lastYes>>
  BY DEF Finish
<1>2. call[t].pc = "finish" /\ a \in Address /\ pending[a] = t
  BY AddrType DEF Finish, OneLeads
<1>3. Unasked \in [Group -> [left : Nat, result : Answers]]
  BY DEF Unasked, Result, Answers
<1>4. ASSUME NEW u \in Thread
      PROVE  \/ u # t /\ call'[u] = call[u]
             \/ u = t /\ call'[u] = [call[u] EXCEPT !.pc = "got"]
             \/ u # t /\ call[u].pc = "wait" /\ call'[u] = [call[u] EXCEPT !.pc = "look"]
  BY DEF Finish, Waiting
<1>5. ASSUME NEW u \in Thread
      PROVE  /\ call'[u] \in Calls /\ call'[u].session = call[u].session
             /\ (call'[u].pc = "idle") <=> (call[u].pc = "idle")
             /\ call'[u].pc \in {"ask", "finish"} => u # t /\ call'[u] = call[u]
             /\ call'[u].pc = "served" => call[u].pc = "served"
             /\ call'[u].got = call[u].got /\ call'[u].at = call[u].at
             /\ call'[u].spared = call[u].spared /\ call'[u].kind = call[u].kind
             /\ call'[u].age = call[u].age
  <2>1. call[u] \in Calls
    BY SMTT(30) DEF Types
  <2>2. CASE u # t /\ call'[u] = call[u]
    BY <2>1, <2>2
  <2>3. CASE u = t /\ call'[u] = [call[u] EXCEPT !.pc = "got"]
    BY <1>2, <2>1, <2>3 DEF Calls
  <2>4. CASE u # t /\ call[u].pc = "wait" /\ call'[u] = [call[u] EXCEPT !.pc = "look"]
    BY <2>1, <2>4 DEF Calls
  <2> QED BY <1>4, <2>2, <2>3, <2>4
<1>6. \A u \in Thread : Addr(u)' = Addr(u)
  BY <1>5, SMTT(30) DEF Addr
<1>7. Types'
  <2>1. call' \in [Thread -> Calls]
    BY <1>5 DEF Finish
  <2> QED BY <1>1, <1>2, <1>3, <1>5, <2>1, ZenonT(30) DEF Types
<1>8. \A u \in Thread : call'[u].pc \in {"ask", "finish"} =>
        /\ Addr(u) # a /\ Addr(u) \in Address
        /\ pending'[Addr(u)] = pending[Addr(u)] /\ asking'[Addr(u)] = asking[Addr(u)]
  <2> SUFFICES ASSUME NEW u \in Thread, call'[u].pc \in {"ask", "finish"}
               PROVE  /\ Addr(u) # a /\ Addr(u) \in Address
                      /\ pending'[Addr(u)] = pending[Addr(u)]
                      /\ asking'[Addr(u)] = asking[Addr(u)]
    OBVIOUS
  <2>1. u # t /\ call[u].pc \in {"ask", "finish"}
    BY <1>5
  <2>2. Addr(u) # a /\ Addr(u) \in Address
    BY <1>2, <2>1, AddrType DEF OneLeads
  <2> QED BY <1>1, <2>2 DEF Types
<1>9. OneLeads'
  BY <1>5, <1>6, <1>8, SMTT(30) DEF OneLeads
<1>10. AnswersSound'
  BY <1>1, <1>5, <1>6, <1>8, SMTT(30) DEF AnswersSound
<1>11. DenialIsConfirmed'
  BY <1>5, <1>6, <1>8, SMTT(30) DEF DenialIsConfirmed
<1>12. CallsSound'
  <2> SUFFICES ASSUME NEW u \in Thread, call'[u].pc # "idle"
               PROVE  Sound(call'[u], lastYes[Addr(u)])
    BY <1>1, <1>6, SMTT(30) DEF CallsSound
  <2>1. Sound(call[u], lastYes[Addr(u)])
    BY <1>5 DEF CallsSound
  <2> QED BY <2>1, <1>5 DEF Sound
<1>13. CacheSound' /\ StampsSound'
  BY <1>1 DEF CacheSound, StampsSound
<1> QED BY <1>7, <1>9, <1>10, <1>11, <1>12, <1>13

\* What follows from the answer: a grant is stamped with the time of its check.
LEMMA SettleStep == ASSUME AccessInv, NEW t \in Thread, Settle(t) PROVE AccessInv'
<1> USE OldNat DEF AccessInv
<1> DEFINE s == call[t].session
           granted == call[t].got = "yes" /\ (call[t].kind = "authenticate" => status[s] # "gone")
           spared == call[t].got = "unavailable" /\ call[t].spared
           y == lastYes[Account[s]]
<1>1. call[t] \in Calls /\ call[t].pc = "got" /\ s \in Session /\ y \in 0..Old
  BY DEF Settle, Types
<1>2. Sound(call[t], y)
  BY <1>1 DEF CallsSound, Addr
<1>3. queue' \in Seq(Session) /\ UNCHANGED <<cache, pending, asking, lastYes>>
  BY DEF Settle, Types
<1>4. stamp' = IF granted THEN [stamp EXCEPT ![s] = call[t].at] ELSE stamp
  BY DEF Settle
<1>5. call' = [call EXCEPT ![t] =
         IF granted \/ spared
           THEN [call[t] EXCEPT !.pc = "served", !.spared = FALSE, !.got = None, !.at = 0]
         ELSE IF call[t].kind \in {"revalidate", "bootstrap"}
           THEN [Idle EXCEPT !.pc = "revoke", !.session = s]
         ELSE Idle]
  BY DEF Settle, Types
<1>6. stamp' \in [Session -> Nat] /\ StampsSound'
  <2>1. CASE granted
    <3>1. y <= call[t].at /\ call[t].at \in Nat
      BY <1>1, <1>2, <2>1, SMTT(30) DEF Sound, Calls
    <3>3. stamp' = [stamp EXCEPT ![s] = call[t].at]
      BY <1>4, <2>1, SMTT(30)
    <3> HIDE DEF s
    <3> QED BY <1>1, <1>3, <3>1, <3>3, ZenonT(30) DEF Types, StampsSound
  <2>2. CASE ~granted
    BY <1>3, <1>4, <2>2, SMTT(30) DEF Types, StampsSound
  <2> QED BY <2>1, <2>2, SMTT(30)
<1>7. CASE granted \/ spared
  <2> DEFINE c == [call[t] EXCEPT !.pc = "served", !.spared = FALSE, !.got = None, !.at = 0]
  <2>1. /\ c \in Calls /\ c.pc = "served" /\ c.session = s /\ c.got # "yes"
        /\ c.spared = FALSE /\ c.age = call[t].age /\ c.kind = call[t].kind
    BY <1>1, ZenonT(30) DEF Calls, Answers
  <2>2. Sound(c, y)
    <3>1. call[t].age \in Nat /\ call[t].at \in Nat /\ y \in Nat
      BY <1>1 DEF Calls
    <3>2. y <= c.age + (IF c.kind = "authenticate" THEN CacheTime ELSE Grace)
      <4>1. CASE granted
        BY <1>2, <2>1, <3>1, <4>1 DEF Sound
      <4>2. CASE spared
        BY <1>2, <2>1, <3>1, <4>2 DEF Sound
      <4> QED BY <1>7, <4>1, <4>2
    <3> HIDE DEF c, y
    <3> QED BY <2>1, <3>2 DEF Sound
  <2>3. call' = [call EXCEPT ![t] = c]
    BY <1>5, <1>7, Zenon
  <2> HIDE DEF c
  <2> QED BY <1>1, <1>3, <1>6, <2>1, <2>2, <2>3, CallStep, Zenon
<1>8. CASE ~(granted \/ spared)
  <2> DEFINE r == [Idle EXCEPT !.pc = "revoke", !.session = s]
  <2>1. call' = [call EXCEPT ![t] = r] \/ call' = [call EXCEPT ![t] = Idle]
    BY <1>5, <1>8, Zenon
  <2>2. Idle \in Calls /\ Idle.pc = "idle"
    BY DEF Idle, Calls, Answers
  <2>3. r \in Calls /\ r.pc = "revoke" /\ r.session = s
    BY <1>1, Zenon DEF Idle, Calls, Answers
  <2>4. Sound(r, y)
    <3>1. r.got = None /\ r.spared = FALSE
      BY DEF Idle
    <3> HIDE DEF r, y
    <3> QED BY <2>3, <3>1 DEF Sound
  <2>5. CASE call' = [call EXCEPT ![t] = Idle]
    BY <1>3, <1>6, <2>2, <2>5, CallStep, Zenon
  <2>6. CASE call' = [call EXCEPT ![t] = r]
    <3> HIDE DEF r
    <3> QED BY <1>1, <1>3, <1>6, <2>3, <2>4, <2>6, CallStep, Zenon
  <2> QED BY <2>1, <2>5, <2>6
<1> QED BY <1>7, <1>8

\* A call whose ages change is a call.
LEMMA AgedCall ==
  ASSUME NEW c \in Calls, NEW k \in Nat, NEW n \in Nat
  PROVE  [c EXCEPT !.age = k, !.at = n] \in Calls
  BY ZenonT(30) DEF Calls

\* All ages grow together.
LEMMA TickStep == ASSUME AccessInv, Tick PROVE AccessInv'
<1> USE OldNat DEF AccessInv
<1>1. UNCHANGED <<pending, asking, queue>>
  BY Zenon DEF Tick
<1>2. \A n \in Nat : Older(n) \in Nat /\ Older(n) <= n + 1
  BY DEF Older
<1>3. \A n \in Nat : n <= Old => Older(n) <= Old
  BY DEF Older
<1>4. \A n, k \in Nat : n <= Old /\ n <= k => Older(n) <= Older(k)
  BY DEF Older
<1>5. /\ \A b \in Address : lastYes[b] \in Nat /\ lastYes[b] <= Old /\ lastYes'[b] = Older(lastYes[b])
      /\ lastYes' \in [Address -> 0..Old]
  <2>1. \A b \in Address : lastYes[b] \in Nat /\ lastYes[b] <= Old
    BY SMTT(30) DEF Types
  <2>2. lastYes' = [b \in Address |-> Older(lastYes[b])]
    BY Zenon DEF Tick
  <2>3. \A b \in Address : Older(lastYes[b]) \in 0..Old
    BY <1>2, <1>3, <2>1, SMTT(30)
  <2> QED BY <2>1, <2>2, <2>3
<1>6. ASSUME NEW u \in Thread
      PROVE  /\ call'[u] \in Calls /\ call'[u].pc = call[u].pc
             /\ call[u].pc # "idle" =>
                  /\ call'[u].session = call[u].session /\ call'[u].kind = call[u].kind
                  /\ call'[u].got = call[u].got /\ call'[u].spared = call[u].spared
                  /\ call'[u].age = call[u].age + 1
                  /\ call[u].got = "yes" => call'[u].at = Older(call[u].at)
  <2>1. call[u] \in Calls /\ call[u].age \in Nat /\ call[u].at \in Nat
    BY SMTT(30) DEF Types, Calls
  <2>2. CASE call[u].pc = "idle"
    <3>1. call'[u] = Idle
      BY <2>2, Zenon DEF Tick
    <3>2. Idle \in Calls /\ Idle.pc = "idle"
      BY SMTT(30) DEF Idle, Calls, Answers
    <3> QED BY <2>2, <3>1, <3>2, SMTT(30)
  <2>3. CASE call[u].pc # "idle"
    <3> DEFINE n == IF call[u].got = "yes" THEN Older(call[u].at) ELSE call[u].at
    <3>1. call'[u] = [call[u] EXCEPT !.age = call[u].age + 1, !.at = n]
      BY <2>1, <2>3, Zenon DEF Tick, Calls
    <3>2. n \in Nat
      BY <1>2, <2>1
    <3>3. call[u].got = "yes" => n = Older(call[u].at)
      OBVIOUS
    <3> HIDE DEF n
    <3>4. call'[u] \in Calls
      <4>1. call[u].age + 1 \in Nat
        BY <2>1, SMTT(30)
      <4>2. [call[u] EXCEPT !.age = call[u].age + 1, !.at = n] \in Calls
        BY <2>1, <3>2, <4>1, AgedCall, Zenon
      <4> QED BY <3>1, <4>2, Zenon
    <3>5. /\ call'[u].pc = call[u].pc /\ call'[u].session = call[u].session
          /\ call'[u].kind = call[u].kind /\ call'[u].got = call[u].got
      BY <2>1, <3>1 DEF Calls
    <3>6. call'[u].spared = call[u].spared
      BY <2>1, <3>1 DEF Calls
    <3>7. call'[u].age = call[u].age + 1 /\ call'[u].at = n
      BY <2>1, <3>1, SMTT(30) DEF Calls
    <3> QED BY <3>3, <3>4, <3>5, <3>6, <3>7, SMTT(30)
  <2> QED BY <2>2, <2>3, SMTT(30)
<1>7. \A u \in Thread : call[u].pc # "idle" => Addr(u)' = Addr(u) /\ Addr(u) \in Address
  BY <1>6, AddrType, SMTT(30) DEF Addr
<1>8. Types'
  <2>1. call' \in [Thread -> Calls]
    BY <1>6, Zenon DEF Tick
  <2>2. cache' \in [Address -> {None} \cup [allowed : BOOLEAN, age : Nat]]
    <3> SUFFICES ASSUME NEW b \in Address
                 PROVE  cache'[b] \in {None} \cup [allowed : BOOLEAN, age : Nat]
      BY Zenon DEF Tick
    <3>1. CASE cache'[b] = None
      BY <3>1
    <3>2. CASE cache'[b] # None
      <4>1. cache[b] # None /\ cache'[b] = [cache[b] EXCEPT !.age = @ + 1]
        BY <3>2, Zenon DEF Tick
      <4>2. cache[b] \in [allowed : BOOLEAN, age : Nat]
        BY <4>1, SMTT(30) DEF Types
      <4> QED BY <4>1, <4>2, SMTT(30)
    <3> QED BY <3>1, <3>2, SMTT(30)
  <2>3. stamp' \in [Session -> Nat]
    BY <1>2, ZenonT(30) DEF Tick, Types
  <2> QED BY <1>1, <1>5, <1>6, <2>1, <2>2, <2>3, ZenonT(30) DEF Types
<1>9. OneLeads'
  BY <1>1, <1>6, <1>7, ZenonT(30) DEF OneLeads
<1>10. DenialIsConfirmed'
  BY <1>1, <1>6, <1>7, SMTT(30) DEF DenialIsConfirmed
<1>11. CallsSound'
  <2> SUFFICES ASSUME NEW u \in Thread, call[u].pc # "idle"
               PROVE  Sound(call'[u], lastYes'[Addr(u)])
    BY <1>6, <1>7, SMTT(30) DEF CallsSound
  <2> DEFINE y == lastYes[Addr(u)]
             z == lastYes'[Addr(u)]
  <2>1. y \in Nat /\ y <= Old /\ z = Older(y) /\ z \in Nat /\ z <= y + 1
    BY <1>2, <1>5, <1>7, SMTT(30)
  <2>2. Sound(call[u], y) /\ call[u].age \in Nat /\ call[u].at \in Nat
    BY SMTT(30) DEF CallsSound, Types, Calls
  <2>3. call'[u].got = "yes" => z <= call'[u].at /\ call'[u].at <= call'[u].age + CacheTime
    <3> SUFFICES ASSUME call[u].got = "yes"
                 PROVE  z <= call'[u].at /\ call'[u].at <= call'[u].age + CacheTime
      BY <1>6, SMTT(30)
    <3>1. y <= call[u].at /\ call[u].at <= call[u].age + CacheTime
      BY <2>2, SMTT(30) DEF Sound
    <3>2. call'[u].at = Older(call[u].at) /\ call'[u].age = call[u].age + 1
      BY <1>6, SMTT(30)
    <3>3. z <= Older(call[u].at) /\ Older(call[u].at) <= call[u].at + 1 /\ Older(call[u].at) \in Nat
      BY <1>2, <1>4, <2>1, <2>2, <3>1, ZenonT(30)
    <3> HIDE DEF y, z
    <3> QED BY <2>2, <3>1, <3>2, <3>3, SMTT(30)
  <2>4. call'[u].spared => call'[u].kind # "authenticate" /\ z <= call'[u].age + Grace
    <3>1. call[u].spared => call[u].kind # "authenticate" /\ y <= call[u].age + Grace
      BY <2>2 DEF Sound
    <3>2. /\ call'[u].kind = call[u].kind /\ call'[u].spared = call[u].spared
          /\ call'[u].age = call[u].age + 1
      BY <1>6
    <3> HIDE DEF y, z
    <3>3. y <= call[u].age + Grace => z <= call'[u].age + Grace
      BY <2>1, <2>2, <3>2
    <3> QED BY <3>1, <3>2, <3>3
  <2>5. call'[u].pc = "served" =>
          z <= call'[u].age + (IF call'[u].kind = "authenticate" THEN CacheTime ELSE Grace)
    <3>1. call[u].pc = "served" =>
            y <= call[u].age + (IF call[u].kind = "authenticate" THEN CacheTime ELSE Grace)
      BY <2>2, SMTT(30) DEF Sound
    <3>2. /\ call'[u].kind = call[u].kind /\ call'[u].pc = call[u].pc
          /\ call'[u].age = call[u].age + 1
      BY <1>6, SMTT(30)
    <3> HIDE DEF y, z
    <3> QED BY <2>1, <2>2, <3>1, <3>2, SMTT(30)
  <2> HIDE DEF y
  <2> QED BY <2>3, <2>4, <2>5, ZenonT(30) DEF Sound
<1>12. AnswersSound'
  <2> SUFFICES ASSUME NEW u \in Thread, call[u].pc = "ask", NEW g \in Group,
                      asking[Addr(u)][g].result = "yes"
               PROVE  lastYes'[Addr(u)] <= call'[u].age
    BY <1>1, <1>6, <1>7, ZenonT(30) DEF AnswersSound
  <2>1. lastYes[Addr(u)] <= call[u].age /\ call[u].age \in Nat
    BY Zenon DEF AnswersSound, Types, Calls
  <2>2. call'[u].age = call[u].age + 1 /\ Addr(u) \in Address
    BY <1>6, <1>7, SMTT(30)
  <2> QED BY <1>2, <1>5, <2>1, <2>2, SMTT(30)
<1>13. CacheSound'
  <2> SUFFICES ASSUME NEW b \in Address, cache'[b] # None, cache'[b].allowed
               PROVE  lastYes'[b] <= cache'[b].age
    BY SMTT(30) DEF CacheSound
  <2>1. cache[b] # None /\ cache'[b] = [cache[b] EXCEPT !.age = @ + 1]
    BY Zenon DEF Tick
  <2>2. cache[b] \in [allowed : BOOLEAN, age : Nat]
    BY <2>1 DEF Types
  <2>3. cache'[b].age = cache[b].age + 1 /\ cache'[b].allowed = cache[b].allowed
    BY <2>1, <2>2, ZenonT(30)
  <2>4. lastYes[b] <= cache[b].age
    BY <2>1, <2>3 DEF CacheSound
  <2>5. cache[b].age \in Nat
    BY <2>2
  <2> QED BY <1>2, <1>5, <2>3, <2>4, <2>5, SMTT(30)
<1>14. StampsSound'
  <2> SUFFICES ASSUME NEW s \in Session PROVE lastYes'[Account[s]] <= stamp'[s]
    BY DEF StampsSound
  <2>1. lastYes[Account[s]] <= stamp[s] /\ stamp[s] \in Nat /\ Account[s] \in Address
    BY DEF StampsSound, Types
  <2>2. stamp'[s] = Older(stamp[s])
    BY Zenon DEF Tick
  <2> QED BY <1>4, <1>5, <2>1, <2>2
<1> QED BY <1>8, <1>9, <1>10, <1>11, <1>12, <1>13, <1>14

\* Every step of the policy and of the service keeps the invariant.
LEMMA NextAccess == AccessInv /\ [Next]_vars => AccessInv'
<1> SUFFICES ASSUME AccessInv, [Next]_vars PROVE AccessInv'
  BY SMTT(30)
<1>1. queue \in Seq(Session)
  BY DEF AccessInv, Types
<1>2. CASE UNCHANGED vars
  BY <1>1, <1>2, OtherStep DEF vars
<1>3. ASSUME NEW t \in Requester, NEW s \in Session,
             Authenticate(t, s) \/ Request(t, "bootstrap", s) \/ Request(t, "request", s)
      PROVE  AccessInv'
  BY <1>3, ServiceStep DEF Thread
<1>4. ASSUME NEW s \in Session, Maintain(s) \/ Discard(s) PROVE AccessInv'
  <2>1. queue' \in Seq(Session)
    BY <1>1, <1>4, SMTT(30) DEF Maintain, Discard
  <2> QED BY <1>4, <2>1, OtherStep DEF Maintain, Discard
<1>5. ASSUME NEW w \in Worker, Revalidate(w) PROVE AccessInv'
  BY <1>5, ServiceStep DEF Thread
<1>6. ASSUME NEW t \in Thread, Thinks(t) \/ WaitTimeout(t) PROVE AccessInv'
  BY <1>6, ServiceStep, LookStep, CheckedStep, FinishStep, SettleStep DEF Thinks
<1>7. ASSUME NEW a \in Address, Regroup(a) PROVE AccessInv'
  BY <1>1, <1>7, OtherStep DEF Regroup
<1>8. ASSUME NEW a \in Address, NEW g \in Group, Asks(a, g) PROVE AccessInv'
  BY <1>8, AskStep
<1>9. CASE Tick
  BY <1>9, TickStep
<1> QED BY <1>2, <1>3, <1>4, <1>5, <1>6, <1>7, <1>8, <1>9 DEF Next

\* The invariant holds in every reachable state.
LEMMA AccessInvariant == Spec => []AccessInv
  BY InitAccess, NextAccess, PTL DEF Spec

\* require_authorized and authenticate: whoever is let through relies on a
\* Core's yes that was recent enough when it asked, whichever of the caller's
\* own check, another thread's, the cache, the stamp or the outage grace it
\* came by.
THEOREM EveryServiceBacked == Spec => []ServedIsBacked
<1>1. AccessInv => ServedIsBacked
  <2> SUFFICES ASSUME AccessInv, NEW t \in Thread, call[t].pc = "served"
               PROVE  lastYes[Addr(t)] <= call[t].age +
                        (IF call[t].kind = "authenticate" THEN CacheTime ELSE Grace)
    BY DEF ServedIsBacked
  <2> QED BY DEF AccessInv, CallsSound, Sound
<1> QED BY <1>1, AccessInvariant, PTL

\* _check_groups: a denial is reported only when every group answered no.
THEOREM EveryDenialConfirmed == Spec => []DenialIsConfirmed
<1>1. AccessInv => DenialIsConfirmed
  BY DEF AccessInv
<1> QED BY <1>1, AccessInvariant, PTL

=============================================================================
