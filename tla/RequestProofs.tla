------------------------------ MODULE RequestProofs ------------------------------
(***************************************************************************)
(* Requests to the venues. The window they share keeps its limits, for     *)
(* every window length, limit, category and backoff, and any number of     *)
(* requests. And what the WTI gateway takes for an order never placed was  *)
(* never placed, for any number of orders, lanes and sockets.              *)
(***************************************************************************)
EXTENDS
  RateLimiter, CommandBridge,
  FiniteSetTheorems, SequenceTheorems, WellFoundedInduction, TLAPS

\* No token bears a time to come.
GrantedSoFar == \A n \in DOMAIN granted : granted[n].at <= now

\* What has not expired is in the file: a process that reads it forgets no
\* token that still counts.
NothingForgotten ==
    \A n \in DOMAIN granted : granted[n].at + Window > now => n \in saved

LimiterInv ==
    /\ TokensOK
    /\ GrantedSoFar
    /\ NothingForgotten
    /\ WindowWithinLimits
    /\ ReserveIsKept

-----------------------------------------------------------------------------
(* Sets of tokens.                                                         *)

\* Granting cost tokens adds at most cost to what was counted.
LEMMA Spend ==
  ASSUME NEW T, IsFiniteSet(T), NEW len \in Nat, NEW cost \in Nat,
         NEW S \in SUBSET (T \cup (len + 1)..(len + cost))
  PROVE  /\ IsFiniteSet(S)
         /\ Cardinality(S) \in Nat
         /\ Cardinality(S) <= Cardinality(T) + cost
<1> DEFINE New == (len + 1)..(len + cost)
<1>1. IsFiniteSet(New) /\ Cardinality(New) = cost
  <2>1. len + 1 \in Int /\ len + cost \in Int
    OBVIOUS
  <2>2. Cardinality(New) = IF len + 1 > len + cost THEN 0
                           ELSE (len + cost) - (len + 1) + 1
    BY <2>1, FS_Interval
  <2> QED BY <2>1, <2>2, FS_Interval
<1>2. IsFiniteSet(T \cup New)
      /\ Cardinality(T \cup New) = Cardinality(T) + Cardinality(New)
                                   - Cardinality(T \cap New)
  BY <1>1, FS_Union
<1>3. IsFiniteSet(T \cap New) /\ Cardinality(T \cap New) \in Nat
  BY <1>1, FS_Subset, FS_CardinalityType
<1>4. IsFiniteSet(S) /\ Cardinality(S) <= Cardinality(T \cup New)
  BY <1>2, FS_Subset
<1>5. Cardinality(S) \in Nat /\ Cardinality(T) \in Nat
      /\ Cardinality(T \cup New) \in Nat
  BY <1>2, <1>4, FS_CardinalityType
<1> QED BY <1>1, <1>2, <1>3, <1>4, <1>5

\* A subset counts no more.
LEMMA Fewer ==
  ASSUME NEW T, IsFiniteSet(T), NEW S \in SUBSET T
  PROVE  /\ IsFiniteSet(S) /\ Cardinality(S) \in Nat /\ Cardinality(T) \in Nat
         /\ Cardinality(S) <= Cardinality(T)
BY FS_Subset, FS_CardinalityType

\* The tokens of a state are finitely many.
LEMMA FinitelyMany ==
  ASSUME TokensOK
  PROVE  /\ IsFiniteSet(DOMAIN granted)
         /\ IsFiniteSet(saved)
         /\ Len(granted) \in Nat /\ DOMAIN granted = 1..Len(granted)
         /\ \A n \in DOMAIN granted : granted[n] \in Token
<1>1. /\ Len(granted) \in Nat /\ DOMAIN granted = 1..Len(granted)
      /\ \A n \in DOMAIN granted : granted[n] \in Token
  BY DEF TokensOK
<1>2. IsFiniteSet(DOMAIN granted)
  BY <1>1, FS_Interval
<1> QED BY <1>1, <1>2, FS_Subset DEF TokensOK

-----------------------------------------------------------------------------
(* The invariant.                                                          *)

LEMMA LimiterInvInit == LimiterInit => LimiterInv
<1> SUFFICES ASSUME LimiterInit PROVE LimiterInv
  OBVIOUS
<1> USE LimitsAssumption DEF LimiterInit
<1>1. TokensOK
  BY DEF TokensOK
<1>2. DOMAIN granted = {}
  OBVIOUS
<1>3. \A t : Within(t) = {}
  BY <1>2 DEF Within
<1>4. Cardinality({}) = 0
  BY FS_EmptySet
<1>5. WindowWithinLimits
  <2>1. \A t, c : Of(Within(t), c) = {}
    BY <1>3 DEF Of
  <2>2. \A t : /\ Cardinality(Within(t)) = 0
              /\ \A c : Cardinality(Of(Within(t), c)) = 0
    BY <1>3, <1>4, <2>1
  <2> QED BY <2>2 DEF WindowWithinLimits
<1>6. ReserveIsKept
  <2>1. \A t : {n \in Within(t) : ~granted[n].urgent} = {}
    BY <1>3
  <2>2. \A t : Cardinality({n \in Within(t) : ~granted[n].urgent}) = 0
    BY <1>4, <2>1
  <2> QED BY <2>2 DEF ReserveIsKept
<1> QED BY <1>1, <1>2, <1>5, <1>6
        DEF LimiterInv, NothingForgotten, GrantedSoFar

LEMMA InvAcquire ==
  ASSUME LimiterInv, NEW r \in Requests, Acquire(r)
  PROVE  LimiterInv'
<1> DEFINE len == Len(granted)
           New == (len + 1)..(len + r.cost)
           Counted == Unexpired(saved, now)
           token == [at |-> now, urgent |-> r.urgent, category |-> r.category]
<1> USE LimitsAssumption, BoundsAssumption
<1>1. /\ TokensOK /\ now' = now /\ blocked' = blocked
      /\ len \in Nat /\ DOMAIN granted = 1..len
      /\ \A n \in DOMAIN granted : granted[n] \in Token
      /\ now \in Nat
      /\ r.cost \in Nat /\ r.urgent \in BOOLEAN
      /\ r.category \in DOMAIN Limits \cup {Uncategorised}
  BY FinitelyMany DEF LimiterInv, Acquire, Requests, TokensOK
<1>2. /\ DOMAIN granted' = 1..(len + r.cost)
      /\ \A n \in 1..len : granted'[n] = granted[n]
      /\ \A n \in New : granted'[n] = token
  BY <1>1 DEF Acquire
<1>2a. \A n \in New : /\ granted'[n].at = now
                      /\ granted'[n].urgent = r.urgent
                      /\ granted'[n].category = r.category
  BY <1>2
<1>3. DOMAIN granted' = DOMAIN granted \cup New /\ New \cap DOMAIN granted = {}
  BY <1>1, <1>2
<1>4. TokensOK'
  <2>1. \A n \in 1..(len + r.cost) : granted'[n] \in Token
    <3>1. token \in Token
      BY <1>1 DEF Token, TokensOK
    <3>2. \A n \in New : granted'[n] \in Token
      BY <1>2, <3>1
    <3>3. \A n \in 1..len : granted'[n] \in Token
      BY <1>1, <1>2
    <3> QED BY <1>2, <1>3, <1>1, <3>2, <3>3
  <2>2. granted' \in Seq(Token)
    <3>1. granted' = [n \in 1..(len + r.cost) |-> granted'[n]]
      BY <1>2 DEF Acquire
    <3>2. granted' \in [1..(len + r.cost) -> Token]
      BY <2>1, <3>1
    <3>3. len + r.cost \in Nat
      BY <1>1
    <3> QED BY <3>2, <3>3
  <2>3. saved' \in SUBSET DOMAIN granted'
    BY <1>1, <1>3 DEF Acquire, Unexpired, TokensOK
  <2> QED BY <1>1, <2>2, <2>3 DEF TokensOK
<1>5. IsFiniteSet(DOMAIN granted) /\ IsFiniteSet(saved) /\ IsFiniteSet(Counted)
  BY <1>1, FinitelyMany, FS_Subset DEF Unexpired
<1>6. NothingForgotten'
  BY <1>1, <1>2, <1>3 DEF NothingForgotten, LimiterInv, Acquire, Unexpired
<1>5a. GrantedSoFar'
  <2>1. \A n \in DOMAIN granted : granted'[n].at <= now
    BY <1>1, <1>2 DEF GrantedSoFar, LimiterInv
  <2> QED BY <1>1, <1>3, <1>2a, <2>1 DEF GrantedSoFar
<1>7. ASSUME NEW t \in 0..now, t < now
      PROVE  Within(t)' = Within(t)
  <2>2. ASSUME NEW n \in New
        PROVE  ~(granted'[n].at <= t)
    <3>1. granted'[n].at = now
      BY <1>2a
    <3>2. t \in Nat
      BY <1>1
    <3> HIDE DEF New
    <3> QED BY <1>1, <1>7, <3>1, <3>2
  <2> QED BY <1>1, <1>2, <1>3, <2>2 DEF Within
<1>8. ASSUME NEW n \in Within(now)', n \notin New
      PROVE  n \in Counted /\ n \in Within(now) /\ granted'[n] = granted[n]
  BY <1>1, <1>2, <1>3, <1>8 DEF Within, Unexpired, NothingForgotten, LimiterInv
<1>9. FitsAt(r, now)
  BY DEF Acquire
<1>10. WindowWithinLimits'
  <2> SUFFICES ASSUME NEW t \in 0..now
               PROVE  /\ Cardinality(Within(t)') <= Hard
                      /\ \A c \in DOMAIN Limits :
                            Cardinality(Of(Within(t), c)') <= Limits[c]
    BY <1>1 DEF WindowWithinLimits
  <2>1. CASE t < now
    <3>1. \A c : Of(Within(t), c)' = Of(Within(t), c)
      BY <1>1, <1>2, <1>7, <2>1 DEF Of, Within
    <3> QED BY <1>7, <2>1, <3>1 DEF LimiterInv, WindowWithinLimits
  <2>2. CASE t = now
    <3>1. Within(now)' \subseteq Counted \cup New
      BY <1>8
    <3>2. Cardinality(Within(now)') <= Hard
      <4>1. Cardinality(Within(now)') \in Nat
            /\ Cardinality(Within(now)') <= Cardinality(Counted) + r.cost
        BY <1>1, <1>5, <3>1, Spend
      <4>2. Cardinality(Counted) + r.cost <= Ceiling(r)
        BY <1>9 DEF FitsAt
      <4>3. Ceiling(r) \in Nat /\ Ceiling(r) <= Hard
        BY DEF Ceiling
      <4>4. Cardinality(Counted) \in Nat
        BY <1>5, FS_CardinalityType
      <4> QED BY <1>1, <4>1, <4>2, <4>3, <4>4
    <3>3. ASSUME NEW c \in DOMAIN Limits
          PROVE  Cardinality(Of(Within(now), c)') <= Limits[c]
      <4>1. CASE c = r.category /\ r.category # Uncategorised
        <5>1. Of(Within(now), c)' \subseteq Of(Counted, c) \cup New
          BY <1>8, <4>1 DEF Of
        <5>2. IsFiniteSet(Of(Counted, c))
          BY <1>5, FS_Subset DEF Of
        <5>3. Cardinality(Of(Within(now), c)') \in Nat
              /\ Cardinality(Of(Within(now), c)') <= Cardinality(Of(Counted, c)) + r.cost
          BY <1>1, <5>1, <5>2, Spend
        <5>4. Cardinality(Of(Counted, c)) + r.cost <= Limits[c]
          BY <1>9, <4>1 DEF FitsAt
        <5>5. Cardinality(Of(Counted, c)) \in Nat
          BY <5>2, FS_CardinalityType
        <5> QED BY <1>1, <5>3, <5>4, <5>5
      <4>2. CASE c # r.category
        <5>1. Of(Within(now), c)' \subseteq Of(Within(now), c)
          <6> SUFFICES ASSUME NEW n \in Of(Within(now), c)'
                       PROVE  n \in Of(Within(now), c)
            OBVIOUS
          <6>1. n \in Within(now)' /\ granted'[n].category = c
            BY <1>1 DEF Of
          <6>2. n \notin New
            BY <1>2a, <4>2, <6>1
          <6> QED BY <1>8, <6>1, <6>2 DEF Of
        <5>2. IsFiniteSet(Of(Within(now), c))
          BY <1>5, FS_Subset DEF Of, Within
        <5>3. Cardinality(Of(Within(now), c)) <= Limits[c]
          BY <1>1 DEF LimiterInv, WindowWithinLimits, TokensOK
        <5> QED BY <5>1, <5>2, <5>3, Fewer
      <4>3. c # Uncategorised
        BY LimitsAssumption
      <4> QED BY <4>1, <4>2, <4>3
    <3>4. Within(t)' = Within(now)' /\ \A c : Of(Within(t), c)' = Of(Within(now), c)'
      BY <1>1, <2>2
    <3> QED BY <3>2, <3>3, <3>4
  <2> QED BY <1>1, <2>1, <2>2 DEF TokensOK
<1>11. ReserveIsKept'
  <2> DEFINE Calm(S) == {n \in S : ~granted[n].urgent}
  <2> SUFFICES ASSUME NEW t \in 0..now
               PROVE  Cardinality({n \in Within(t) : ~granted[n].urgent}') <= Normal
    BY <1>1 DEF ReserveIsKept
  <2>1. CASE t < now
    <3>1. {n \in Within(t) : ~granted[n].urgent}' = Calm(Within(t))
      BY <1>1, <1>2, <1>7, <2>1 DEF Within
    <3> QED BY <3>1 DEF LimiterInv, ReserveIsKept
  <2>2. CASE t = now /\ r.urgent
    <3>1. {n \in Within(now) : ~granted[n].urgent}' \subseteq Calm(Within(now))
      <4> SUFFICES ASSUME NEW n \in Within(now)', ~granted'[n].urgent
                   PROVE  n \in Calm(Within(now))
        BY <1>1
      <4>1. n \notin New
        BY <1>2a, <2>2
      <4> QED BY <1>8, <4>1
    <3>2. IsFiniteSet(Calm(Within(now)))
      BY <1>5, FS_Subset DEF Within
    <3>3. Cardinality(Calm(Within(now))) <= Normal
      BY <1>1 DEF LimiterInv, ReserveIsKept, TokensOK
    <3>4. /\ Cardinality({n \in Within(now) : ~granted[n].urgent}') \in Nat
          /\ Cardinality(Calm(Within(now))) \in Nat
          /\ Cardinality({n \in Within(now) : ~granted[n].urgent}')
                <= Cardinality(Calm(Within(now)))
      BY <3>1, <3>2, Fewer
    <3>5. Cardinality({n \in Within(now) : ~granted[n].urgent}') <= Normal
      BY <3>3, <3>4
    <3> QED BY <1>1, <2>2, <3>5
  <2>3. CASE t = now /\ ~r.urgent
    <3>1. {n \in Within(now) : ~granted[n].urgent}' \subseteq Counted \cup New
      BY <1>8
    <3>2. Cardinality({n \in Within(now) : ~granted[n].urgent}') \in Nat
          /\ Cardinality({n \in Within(now) : ~granted[n].urgent}')
                <= Cardinality(Counted) + r.cost
      BY <1>1, <1>5, <3>1, Spend
    <3>3. Cardinality(Counted) + r.cost <= Normal
      BY <1>9, <2>3 DEF FitsAt, Ceiling
    <3>4. Cardinality(Counted) \in Nat
      BY <1>5, FS_CardinalityType
    <3> QED BY <1>1, <2>3, <3>2, <3>3, <3>4
  <2> QED BY <1>1, <2>1, <2>2, <2>3 DEF TokensOK
<1> QED BY <1>4, <1>6, <1>10, <1>11, <1>5a DEF LimiterInv

LEMMA InvPenalize ==
  ASSUME LimiterInv, NEW s \in Backoffs, Penalize(s)
  PROVE  LimiterInv'
<1> USE BoundsAssumption
<1>1. now' = now /\ granted' = granted /\ saved' = Unexpired(saved, now)
  BY DEF Penalize
<1>2. TokensOK'
  BY <1>1 DEF LimiterInv, TokensOK, Penalize, Unexpired
<1>3. NothingForgotten'
  BY <1>1 DEF LimiterInv, NothingForgotten, Unexpired
<1> QED
  BY <1>1, <1>2, <1>3
     DEF LimiterInv, GrantedSoFar, WindowWithinLimits, ReserveIsKept, Within, Of

LEMMA InvTick ==
  ASSUME LimiterInv, Tick
  PROVE  LimiterInv'
<1> USE LimitsAssumption, BoundsAssumption
<1>1. TokensOK /\ now \in Nat /\ now' = now + 1
      /\ granted' = granted /\ saved' = saved /\ blocked' = blocked
  BY DEF Tick, LimiterInv, TokensOK
<1>2. \A n \in DOMAIN granted : granted[n].at \in Nat /\ granted[n].at <= now
  BY <1>1, FinitelyMany DEF Token, LimiterInv, GrantedSoFar
<1>3. TokensOK' /\ GrantedSoFar'
  BY <1>1, <1>2 DEF TokensOK, GrantedSoFar
<1>4. NothingForgotten'
  BY <1>1, <1>2 DEF LimiterInv, NothingForgotten
<1>5. Within(now + 1) \subseteq Within(now)
  BY <1>1, <1>2 DEF Within
<1>6. \A t : Within(t)' = Within(t)
  BY <1>1 DEF Within
<1>7. IsFiniteSet(Within(now))
  BY <1>1, FinitelyMany, FS_Subset DEF Within
<1>8. now \in 0..now
  BY <1>1
<1>9. WindowWithinLimits'
  <2> SUFFICES ASSUME NEW t \in 0..(now + 1)
               PROVE  /\ Cardinality(Within(t)) <= Hard
                      /\ \A c \in DOMAIN Limits :
                            Cardinality(Of(Within(t), c)) <= Limits[c]
    BY <1>1, <1>6 DEF WindowWithinLimits, Of
  <2>1. CASE t \in 0..now
    BY <2>1 DEF LimiterInv, WindowWithinLimits
  <2>2. CASE t = now + 1
    <3>1. Cardinality(Within(now)) <= Hard
      BY <1>8 DEF LimiterInv, WindowWithinLimits
    <3>2. Cardinality(Within(t)) <= Hard
      BY <1>5, <1>7, <2>2, <3>1, Fewer
    <3>3. ASSUME NEW c \in DOMAIN Limits
          PROVE  Cardinality(Of(Within(t), c)) <= Limits[c]
      <4>1. Of(Within(t), c) \subseteq Of(Within(now), c)
        BY <1>5, <2>2 DEF Of
      <4>2. IsFiniteSet(Of(Within(now), c))
        BY <1>7, FS_Subset DEF Of
      <4>3. Cardinality(Of(Within(now), c)) <= Limits[c]
        BY <1>8 DEF LimiterInv, WindowWithinLimits
      <4> QED BY <4>1, <4>2, <4>3, Fewer
    <3> QED BY <3>2, <3>3
  <2> QED BY <1>1, <2>1, <2>2
<1>10. ReserveIsKept'
  <2> DEFINE Calm(S) == {n \in S : ~granted[n].urgent}
  <2> SUFFICES ASSUME NEW t \in 0..(now + 1)
               PROVE  Cardinality(Calm(Within(t))) <= Normal
    BY <1>1, <1>6 DEF ReserveIsKept
  <2>1. CASE t \in 0..now
    BY <2>1 DEF LimiterInv, ReserveIsKept
  <2>2. CASE t = now + 1
    <3>1. Calm(Within(t)) \subseteq Calm(Within(now))
      BY <1>5, <2>2
    <3>2. IsFiniteSet(Calm(Within(now)))
      BY <1>7, FS_Subset
    <3>3. Cardinality(Calm(Within(now))) <= Normal
      BY <1>8 DEF LimiterInv, ReserveIsKept
    <3> QED BY <3>1, <3>2, <3>3, Fewer
  <2> QED BY <1>1, <2>1, <2>2
<1> QED BY <1>3, <1>4, <1>9, <1>10 DEF LimiterInv

LEMMA LimiterInvNext == LimiterInv /\ [LimiterNext]_limiterVars => LimiterInv'
<1> SUFFICES ASSUME LimiterInv, [LimiterNext]_limiterVars PROVE LimiterInv'
  OBVIOUS
<1>1. CASE \E r \in Requests : Acquire(r)
  BY <1>1, InvAcquire
<1>2. CASE \E s \in Backoffs : Penalize(s)
  BY <1>2, InvPenalize
<1>3. CASE Tick
  BY <1>3, InvTick
<1>4. CASE UNCHANGED limiterVars
  BY <1>4 DEF limiterVars, LimiterInv, TokensOK, GrantedSoFar, NothingForgotten, WindowWithinLimits,
              ReserveIsKept, Within, Of
<1> QED BY <1>1, <1>2, <1>3, <1>4 DEF LimiterNext

\* The budget is the one of type, of the file and of the limits in every
\* reachable state.
THEOREM LimiterInvariant == Limiter => []LimiterInv
<1> QED BY LimiterInvInit, LimiterInvNext, PTL DEF Limiter

\* No window exceeds the hard limit or the limit of a category, for every
\* window length and limit, whoever spends from the file.
THEOREM WindowStaysWithinLimits == Limiter => []WindowWithinLimits
<1>1. LimiterInv => WindowWithinLimits
  BY DEF LimiterInv
<1> QED BY <1>1, LimiterInvariant, PTL

\* What is not urgent never takes more than the normal limit of a window:
\* the rest is there for the exits.
THEOREM ReserveStaysKept == Limiter => []ReserveIsKept
<1>1. LimiterInv => ReserveIsKept
  BY DEF LimiterInv
<1> QED BY <1>1, LimiterInvariant, PTL

-----------------------------------------------------------------------------
(* The sleep of acquire.                                                   *)

\* Every set of dates has a first one.
LEMMA FirstDate ==
  ASSUME NEW T \in SUBSET Nat, T # {}
  PROVE  \E x \in T : \A y \in T : x <= y
<1>1. IsWellFoundedOn(OpToRel(<, Nat), Nat)
  BY NatLessThanWellFounded
<1>2. PICK x \in T : \A y \in T : ~ (<<y, x>> \in OpToRel(<, Nat))
  BY <1>1, WFMin
<1>3. \A y \in T : ~ (y < x)
  BY <1>2 DEF OpToRel
<1> QED BY <1>3

\* The date by which count tokens were granted, and no more than that are
\* older: Oldest finds it whenever there are so many tokens.
LEMMA OldestIsDate ==
  ASSUME TokensOK, GrantedSoFar, NEW S \in SUBSET DOMAIN granted,
         NEW count \in Nat \ {0}, count <= Cardinality(S)
  PROVE  LET o == Oldest(S, count) IN
         /\ o \in {granted[n].at : n \in S}
         /\ Cardinality({n \in S : granted[n].at <= o}) >= count
         /\ Cardinality({n \in S : granted[n].at < o}) < count
<1> DEFINE Upto(t) == {n \in S : granted[n].at <= t}
           Below(t) == {n \in S : granted[n].at < t}
           Reached == {t \in Nat : Cardinality(Upto(t)) >= count}
<1>1. /\ IsFiniteSet(S) /\ now \in Nat /\ Cardinality(S) \in Nat
      /\ \A n \in S : granted[n].at \in Nat /\ granted[n].at <= now
  BY FinitelyMany, FS_Subset, FS_CardinalityType DEF Token, GrantedSoFar, TokensOK
<1>2. \A t : /\ IsFiniteSet(Upto(t)) /\ Cardinality(Upto(t)) \in Nat
             /\ IsFiniteSet(Below(t)) /\ Cardinality(Below(t)) \in Nat
  BY <1>1, Fewer
<1>3. Upto(now) = S
  BY <1>1
<1>4. now \in Reached
  BY <1>1, <1>3
<1>5. PICK o \in Reached : \A t \in Reached : o <= t
  <2>1. Reached \in SUBSET Nat /\ Reached # {}
    BY <1>4
  <2> HIDE DEF Reached
  <2> QED BY <2>1, FirstDate
<1>6. o \in Nat /\ Cardinality(Upto(o)) >= count
  BY <1>5
<1>7. Cardinality(Below(o)) < count
  <2>1. CASE o = 0
    <3>1. Below(o) = {}
      BY <1>1, <2>1
    <3>2. Cardinality(Below(o)) = 0
      BY <3>1, FS_EmptySet
    <3> HIDE DEF Below
    <3> QED BY <3>2
  <2>2. CASE o # 0
    <3>1. o - 1 \in Nat /\ o - 1 \notin Reached
      BY <1>5, <1>6, <2>2
    <3>2. Below(o) = Upto(o - 1)
      BY <1>1, <1>6, <3>1
    <3>3. ~ (Cardinality(Upto(o - 1)) >= count)
      BY <3>1
    <3> HIDE DEF Upto, Below, Reached
    <3> QED BY <1>2, <3>2, <3>3
  <2> QED BY <2>1, <2>2
<1>8. o \in {granted[n].at : n \in S}
  <2>1. SUFFICES ASSUME o \notin {granted[n].at : n \in S} PROVE FALSE
    OBVIOUS
  <2>2. Upto(o) = Below(o)
    BY <1>1, <1>6, <2>1
  <2> HIDE DEF Upto, Below
  <2> QED BY <1>2, <1>6, <1>7, <2>2
<1> QED BY <1>6, <1>7, <1>8 DEF Oldest

\* How many tokens of a set remain when as many as it is short of, or one
\* tick less, have expired.
LEMMA Expiry ==
  ASSUME TokensOK, GrantedSoFar, NEW S \in SUBSET DOMAIN granted,
         \A n \in S : granted[n].at + Window > now,
         NEW cost \in Nat \ {0}, NEW limit \in Nat, cost <= limit
  PROVE  LET w == ShortOf(S, cost, limit) IN
         /\ w \in Nat
         /\ \A t \in Nat : t >= now + w => Cardinality(Unexpired(S, t)) + cost <= limit
         /\ w > 0 => ~ (Cardinality(Unexpired(S, now + w - 1)) + cost <= limit)
<1> DEFINE w == ShortOf(S, cost, limit)
<1>1. /\ IsFiniteSet(S) /\ now \in Nat /\ Cardinality(S) \in Nat /\ Window \in Nat
      /\ \A n \in S : granted[n].at \in Nat /\ granted[n].at <= now
  BY FinitelyMany, FS_Subset, FS_CardinalityType, LimitsAssumption
     DEF Token, GrantedSoFar, TokensOK
<1>2. \A t : /\ Unexpired(S, t) \subseteq S /\ IsFiniteSet(Unexpired(S, t))
             /\ Cardinality(Unexpired(S, t)) \in Nat
             /\ Cardinality(Unexpired(S, t)) <= Cardinality(S)
  BY <1>1, Fewer DEF Unexpired
<1>3. CASE Cardinality(S) + cost <= limit
  <2>1. w = 0
    BY <1>3 DEF ShortOf
  <2>2. \A t \in Nat : Cardinality(Unexpired(S, t)) + cost <= limit
    BY <1>1, <1>2, <1>3
  <2> QED BY <2>1, <2>2
<1>4. CASE ~ (Cardinality(S) + cost <= limit)
  <2> DEFINE short == Cardinality(S) + cost - limit
             o == Oldest(S, short)
             Upto == {n \in S : granted[n].at <= o}
             Below == {n \in S : granted[n].at < o}
  <2>1. short \in Nat \ {0} /\ short <= Cardinality(S)
    BY <1>1, <1>4
  <2>2. /\ o \in {granted[n].at : n \in S}
        /\ Cardinality(Upto) >= short
        /\ Cardinality(Below) < short
    <3> HIDE DEF short
    <3> QED BY <2>1, OldestIsDate
  <2>3. w = o + Window - now
    BY <1>4 DEF ShortOf
  <2>4. o \in Nat /\ o + Window > now
    BY <1>1, <2>2
  <2> HIDE DEF o, w
  <2>5. w \in Nat
    BY <1>1, <2>3, <2>4
  <2>6. /\ Cardinality(S \ Upto) = Cardinality(S) - Cardinality(Upto)
        /\ Cardinality(S \ Below) = Cardinality(S) - Cardinality(Below)
        /\ IsFiniteSet(S \ Upto)
        /\ Cardinality(Upto) \in Nat /\ Cardinality(Below) \in Nat
    <3>1. S \cap Upto = Upto /\ S \cap Below = Below
      OBVIOUS
    <3> QED BY <1>1, <3>1, FS_Difference, Fewer
  <2>7. ASSUME NEW t \in Nat, t >= now + w
        PROVE  Cardinality(Unexpired(S, t)) + cost <= limit
    <3>1. Unexpired(S, t) \subseteq S \ Upto
      BY <1>1, <2>3, <2>4, <2>7 DEF Unexpired
    <3>2. Cardinality(Unexpired(S, t)) <= Cardinality(S \ Upto)
      BY <2>6, <3>1, Fewer
    <3> QED BY <1>1, <1>2, <2>1, <2>2, <2>6, <3>2
  <2>8. ~ (Cardinality(Unexpired(S, now + w - 1)) + cost <= limit)
    <3>1. now + w - 1 = o + Window - 1
      BY <1>1, <2>3, <2>4
    <3>2. Unexpired(S, now + w - 1) = S \ Below
      BY <1>1, <2>4, <3>1 DEF Unexpired
    <3>3. Cardinality(Unexpired(S, now + w - 1)) = Cardinality(S) - Cardinality(Below)
      BY <2>6, <3>2
    <3> HIDE DEF Upto, Below
    <3> QED BY <1>1, <2>1, <2>2, <2>6, <3>3
  <2> QED BY <2>5, <2>7, <2>8 DEF w
<1> QED BY <1>3, <1>4

\* The sleep of a request that does not fit, from the two expiries and the
\* backoff.
LEMMA SleepFits ==
  ASSUME LimiterInv, NEW r \in Requests, ~FitsAt(r, now)
  PROVE  FitsAt(r, now + Wait(r)) /\ ~FitsAt(r, now + Wait(r) - 1)
<1> DEFINE T == Unexpired(saved, now)
           C == Of(T, r.category)
           categorised == r.category # Uncategorised
           backoff == IF blocked > now THEN blocked - now ELSE 0
           all == ShortOf(T, r.cost, Ceiling(r))
           own == IF r.category = Uncategorised THEN 0
                  ELSE ShortOf(C, r.cost, Limits[r.category])
           waits == {1, backoff, all, own}
           w == Wait(r)
<1>1. /\ TokensOK /\ GrantedSoFar /\ now \in Nat /\ blocked \in Nat
      /\ saved \subseteq DOMAIN granted
      /\ r.cost \in Nat \ {0} /\ Ceiling(r) \in Nat /\ r.cost <= Ceiling(r)
      /\ categorised => Limits[r.category] \in Nat /\ r.cost <= Limits[r.category]
  BY LimitsAssumption, BoundsAssumption DEF LimiterInv, TokensOK, Requests, Ceiling
<1>2. /\ T \in SUBSET DOMAIN granted /\ C \in SUBSET DOMAIN granted
      /\ \A n \in T : granted[n].at + Window > now
      /\ \A n \in C : granted[n].at + Window > now
  BY <1>1 DEF Unexpired, Of
<1>3. \A t \in Nat : t >= now => /\ Unexpired(saved, t) = Unexpired(T, t)
                                 /\ Of(Unexpired(saved, t), r.category) = Unexpired(C, t)
  <2> SUFFICES ASSUME NEW t \in Nat, t >= now
               PROVE  /\ Unexpired(saved, t) = Unexpired(T, t)
                      /\ Of(Unexpired(saved, t), r.category) = Unexpired(C, t)
    OBVIOUS
  <2>1. \A n \in saved : granted[n].at \in Nat
    BY <1>1, FinitelyMany DEF Token
  <2>2. \A n \in saved : granted[n].at + Window > t => granted[n].at + Window > now
    BY <1>1, <2>1, LimitsAssumption
  <2> QED BY <2>2 DEF Unexpired, Of
<1>4. /\ all \in Nat
      /\ \A t \in Nat : t >= now + all => Cardinality(Unexpired(T, t)) + r.cost <= Ceiling(r)
      /\ all > 0 => ~ (Cardinality(Unexpired(T, now + all - 1)) + r.cost <= Ceiling(r))
  <2> HIDE DEF T
  <2> QED BY <1>1, <1>2, Expiry
<1>5. /\ own \in Nat
      /\ categorised => \A t \in Nat : t >= now + own =>
            Cardinality(Unexpired(C, t)) + r.cost <= Limits[r.category]
      /\ own > 0 =>
            /\ categorised
            /\ ~ (Cardinality(Unexpired(C, now + own - 1)) + r.cost <= Limits[r.category])
  <2> HIDE DEF C
  <2> QED BY <1>1, <1>2, Expiry
<1>6. backoff \in Nat /\ (blocked <= now + backoff)
      /\ (backoff > 0 => blocked = now + backoff)
  BY <1>1
<1>7. w = CHOOSE x \in waits : \A v \in waits : v <= x
  BY DEF Wait
<1> HIDE DEF T, C, all, own, backoff, w
<1>8. w \in waits /\ \A v \in waits : v <= w
  <2>1. \E x \in waits : \A v \in waits : v <= x
    BY <1>4, <1>5, <1>6
  <2> HIDE DEF waits
  <2> QED BY <1>7, <2>1
<1>9. /\ w \in Nat /\ w >= 1 /\ w >= backoff /\ w >= all /\ w >= own
      /\ w = 1 \/ w = backoff \/ w = all \/ w = own
      /\ now + w \in Nat /\ now + w - 1 \in Nat /\ now + w >= now /\ now + w - 1 >= now
  BY <1>1, <1>4, <1>5, <1>6, <1>8
<1>10. FitsAt(r, now + w)
  <2>1. now + w >= blocked
    BY <1>1, <1>6, <1>9
  <2>2. Cardinality(Unexpired(saved, now + w)) + r.cost <= Ceiling(r)
    BY <1>1, <1>3, <1>4, <1>9
  <2>3. categorised =>
          Cardinality(Of(Unexpired(saved, now + w), r.category)) + r.cost <= Limits[r.category]
    BY <1>1, <1>3, <1>5, <1>9
  <2> QED BY <2>1, <2>2, <2>3 DEF FitsAt
<1>11. ~FitsAt(r, now + w - 1)
  <2>1. CASE w = 1
    <3>1. now + w - 1 = now
      BY <1>1, <2>1
    <3> QED BY <3>1
  <2>2. CASE w = backoff
    <3>1. ~ (now + w - 1 >= blocked)
      BY <1>1, <1>6, <1>9, <2>2
    <3> QED BY <3>1 DEF FitsAt
  <2>3. CASE w = all
    <3>1. ~ (Cardinality(Unexpired(saved, now + w - 1)) + r.cost <= Ceiling(r))
      BY <1>3, <1>4, <1>9, <2>3
    <3> QED BY <3>1 DEF FitsAt
  <2>4. CASE w = own
    <3>1. categorised /\ ~ (Cardinality(Of(Unexpired(saved, now + w - 1), r.category)) + r.cost
                            <= Limits[r.category])
      BY <1>3, <1>5, <1>9, <2>4
    <3> QED BY <3>1 DEF FitsAt
  <2> QED BY <1>9, <2>1, <2>2, <2>3, <2>4
<1> QED BY <1>10, <1>11 DEF w

\* acquire sleeps neither a tick too long nor one too short, for every limit,
\* cost, category and backoff: the request fits at the end and not before.
THEOREM SleepStaysExact == Limiter => []SleepIsExact
<1>1. LimiterInv => SleepIsExact
  BY SleepFits DEF SleepIsExact
<1> QED BY <1>1, LimiterInvariant, PTL

-----------------------------------------------------------------------------
(* The bridge.                                                             *)

BridgeMessages == (Commands \X Results) \cup {Register}

Holds(seq, m) == \E n \in 1..Len(seq) : seq[n] = m

\* The result r of c is somewhere between the page and the runtime.
Said(c, r) ==
    \/ <<c, r>> \in answers
    \/ Holds(unsent, <<c, r>>)
    \/ \E s \in Sockets : Holds(uplink[s], <<c, r>>)

\* A command is at one place of its way to the page, and there once.
CommandsComeOnce ==
    \A c \in Commands :
        /\ c \in inbox => c \notin downlink
        /\ verdict[c] = "idle" => c \notin inbox \cup downlink /\ page[c] = "none"
        /\ c \in inbox \cup downlink => page[c] = "none"

\* Before the page posts, nothing of the order has left it.
NothingBeforePost ==
    \A c \in Commands :
        page[c] \in {"none", "evaluating", "alone"} => c \notin posts /\ atVenue[c] = "none"

\* A post on its way was asked for, and is the first of its order.
PostsComeOnce ==
    \A c \in posts : verdict[c] # "idle" /\ atVenue[c] = "none"

\* Nothing comes of an evaluation that is over before anything was posted.
Stopped(c) == page[c] = "over" /\ c \notin posts /\ atVenue[c] = "none"

\* The guard stops an order for good, as far as anyone says so or the WTI gateway
\* has read it.
GuardIsFinal ==
    \A c \in Commands :
        Said(c, "guard") \/ (reader = "wti" /\ verdict[c] = "no order") => Stopped(c)

\* Whoever says ok, or has read it, speaks of an order the venue has accepted.
OkIsTrue ==
    \A c \in Commands :
        Said(c, "ok") \/ verdict[c] = "ordered" => atVenue[c] = "accepted"

BridgeInv ==
    /\ BridgeTypeOK
    /\ CommandsComeOnce
    /\ NothingBeforePost
    /\ PostsComeOnce
    /\ GuardIsFinal
    /\ OkIsTrue
-----------------------------------------------------------------------------
(* Sequences: what an end, a rest and a beginning hold. *)

LEMMA HoldsAppend ==
  ASSUME NEW S, NEW q \in Seq(S), NEW e \in S, NEW m, Holds(Append(q, e), m)
  PROVE  Holds(q, m) \/ m = e
  <1>1. PICK n \in 1..Len(Append(q, e)) : Append(q, e)[n] = m  BY DEF Holds
  <1>2. Len(Append(q, e)) = Len(q) + 1 /\ Len(q) \in Nat  OBVIOUS
  <1>3. CASE n = Len(q) + 1  BY <1>1, <1>3
  <1>4. CASE n \in 1..Len(q)  BY <1>1, <1>4 DEF Holds
  <1> QED  BY <1>2, <1>3, <1>4

LEMMA HoldsTail ==
  ASSUME NEW S, NEW q \in Seq(S), q # <<>>
  PROVE  /\ Head(q) \in S /\ Tail(q) \in Seq(S)
         /\ Holds(q, Head(q))
         /\ \A m : Holds(Tail(q), m) => Holds(q, m)
  <1>1. Len(q) \in Nat \ {0}  BY EmptySeq
  <1>2. /\ Tail(q) \in Seq(S) /\ Len(Tail(q)) = Len(q) - 1 /\ Head(q) \in S
        /\ \A n \in 1..Len(Tail(q)) : Tail(q)[n] = q[n + 1]
    BY HeadTailProperties
  <1>3. Head(q) = q[1]  OBVIOUS
  <1> QED  BY <1>1, <1>2, <1>3 DEF Holds

LEMMA HoldsPrefix ==
  ASSUME NEW S, NEW q \in Seq(S), NEW k \in 0..Len(q)
  PROVE  /\ SubSeq(q, 1, k) \in Seq(S)
         /\ \A m : Holds(SubSeq(q, 1, k), m) => Holds(q, m)
  <1>1. Len(q) \in Nat /\ \A n \in 1..k : q[n] \in S  BY ElementOfSeq, LenProperties
  <1>2. /\ SubSeq(q, 1, k) \in Seq(S) /\ Len(SubSeq(q, 1, k)) = IF 1 <= k THEN k - 1 + 1 ELSE 0
        /\ \A n \in 1..(k - 1 + 1) : SubSeq(q, 1, k)[n] = q[1 + n - 1]
    BY <1>1, SubSeqProperties
  <1> QED  BY <1>1, <1>2 DEF Holds

LEMMA HoldsNothing == \A m : ~Holds(<<>>, m)
  BY DEF Holds

-----------------------------------------------------------------------------
LEMMA TypesInit == ASSUME MaxSockets \in Nat, BridgeInit PROVE BridgeTypeOK
  BY DEF BridgeInit, BridgeTypeOK, Verdicts, Commands, Sockets

USE DEF bridgeVars, moving, runtimeVars, brokerVars, workerVars, linkVars, venueVars

\* One step per action; only the sequences need their lemmas.
LEMMA TypesNext ==
  ASSUME MaxCommands \in Nat, MaxSockets \in Nat, BridgeTypeOK, BridgeNext
  PROVE  BridgeTypeOK'
  <1>0. reader' \in Readers  BY DEF BridgeTypeOK, BridgeNext
  <1> USE <1>0 DEF BridgeTypeOK
  <1>1. ASSUME NEW c \in Commands, Send(c) PROVE BridgeTypeOK'
    BY <1>1 DEF Send, Verdicts
  <1>2. ASSUME NEW c \in Commands, NEW a \in Answers, TakeAnswer(c, a) PROVE BridgeTypeOK'
    <2>1. Reading(a) \in Verdicts  BY DEF Reading, Verdicts
    <2> QED  BY <1>2, <2>1 DEF TakeAnswer
  <1>3. ASSUME NEW c \in Commands, GiveUp(c) PROVE BridgeTypeOK'
    BY <1>3 DEF GiveUp, Verdicts
  <1>4. ASSUME NEW c \in Commands, Forward(c) PROVE BridgeTypeOK'
    <2>1. <<c, "no extension">> \in Commands \X Answers  BY DEF Answers
    <2>2. answers' \subseteq Commands \X Answers  BY <1>4, <2>1 DEF Forward, Reply
    <2> QED  BY <1>4, <2>2 DEF Forward
  <1>5. ASSUME NEW c \in Commands, Forget(c) PROVE BridgeTypeOK'
    BY <1>5 DEF Forget
  <1>6. ASSUME NEW s \in Sockets, Hear(s) PROVE BridgeTypeOK'
    <2>1. uplink[s] \in Seq(BridgeMessages) /\ uplink[s] # <<>>  BY <1>6 DEF Hear, BridgeMessages
    <2>2. Tail(uplink[s]) \in Seq(BridgeMessages)  BY <2>1, HoldsTail
    <2>3. uplink' \in [Sockets -> Seq(BridgeMessages)]  BY <1>6, <2>2 DEF Hear, BridgeMessages
    <2>4. pendingRequests \X Results \subseteq Commands \X Answers  BY DEF Answers
    <2>5. answers' \subseteq Commands \X Answers  BY <1>6, <2>4 DEF Hear, Reply
    <2>6. extension' \in 0..MaxSockets  BY <1>6 DEF Hear, Sockets
    <2>7. pendingRequests' \subseteq Commands  BY <1>6 DEF Hear
    <2> QED  BY <1>6, <2>3, <2>5, <2>6, <2>7 DEF Hear, BridgeMessages
  <1>7. ASSUME NEW s \in Sockets, Disconnect(s) PROVE BridgeTypeOK'
    <2>1. \A c \in pendingRequests : <<c, "disconnected">> \in Commands \X Answers  BY DEF Answers
    <2>2. answers' \subseteq Commands \X Answers  BY <1>7, <2>1 DEF Disconnect, Reply
    <2>3. <<>> \in Seq(BridgeMessages)  BY EmptySeq
    <2>4. uplink' \in [Sockets -> Seq(BridgeMessages)]  BY <1>7, <2>3 DEF Disconnect, BridgeMessages
    <2>5. extension' \in 0..MaxSockets /\ pendingRequests' \subseteq Commands
      BY <1>7 DEF Disconnect
    <2> QED  BY <1>7, <2>2, <2>4, <2>5 DEF Disconnect, BridgeMessages
  <1>8. CASE RestartBroker
    <2>1. <<>> \in Seq(BridgeMessages)  BY EmptySeq
    <2>2. uplink' \in [Sockets -> Seq(BridgeMessages)]  BY <1>8, <2>1 DEF RestartBroker
    <2> QED  BY <1>8, <2>2 DEF RestartBroker, BridgeMessages
  <1>9. CASE Connect
    <2>1. opened' \in 0..MaxSockets /\ socket' = opened' /\ socket' \in Sockets
      BY <1>9 DEF Connect, Sockets
    <2>2. unsent \in Seq(BridgeMessages) /\ Register \in BridgeMessages
      BY SeqMonotonic DEF BridgeMessages
    <2>3. Append(unsent, Register) \in Seq(BridgeMessages)  BY <2>2
    <2>4. uplink' \in [Sockets -> Seq(BridgeMessages)]  BY <1>9, <2>3 DEF Connect, BridgeMessages
    <2>5. unsent' \in Seq(Commands \X Results)  BY <1>9, EmptySeq DEF Connect
    <2> QED  BY <1>9, <2>1, <2>4, <2>5 DEF Connect, BridgeMessages
  <1>10. ASSUME NEW kept \in 0..MaxCommands + 1, NEW how \in {"closed", "stopped", "killed"},
                socket # 0, kept <= Len(uplink[socket]), Lose(kept, how)
         PROVE  BridgeTypeOK'
    <2>1. socket \in Sockets  BY <1>10 DEF Sockets
    <2>2. uplink[socket] \in Seq(BridgeMessages) /\ kept \in 0..Len(uplink[socket])
      BY <1>10, <2>1, LenProperties DEF BridgeMessages
    <2>3. SubSeq(uplink[socket], 1, kept) \in Seq(BridgeMessages)  BY <2>2, HoldsPrefix
    <2>4. uplink' \in [Sockets -> Seq(BridgeMessages)]  BY <1>10, <2>3 DEF Lose, BridgeMessages
    <2>5. unsent' \in Seq(Commands \X Results)  BY <1>10, EmptySeq DEF Lose
    <2>6. page' \in [Commands -> {"none", "evaluating", "alone", "posted", "over"}]
      BY <1>10 DEF Lose, Unattended
    <2> QED  BY <1>10, <2>4, <2>5, <2>6 DEF Lose, BridgeMessages
  <1>11. ASSUME NEW c \in Commands, EvaluateOrder(c) PROVE BridgeTypeOK'
    BY <1>11 DEF EvaluateOrder
  <1>12. ASSUME NEW c \in Commands, NEW result \in Results, Return(c, result)
         PROVE  /\ unsent' \in Seq(Commands \X Results)
                /\ uplink' \in [Sockets -> Seq(BridgeMessages)]
    <2>1. <<c, result>> \in Commands \X Results /\ <<c, result>> \in BridgeMessages  BY DEF BridgeMessages
    <2>2. CASE socket = 0
      <3>1. Append(unsent, <<c, result>>) \in Seq(Commands \X Results)  BY <2>1
      <3> QED  BY <1>12, <2>2, <3>1 DEF Return, BridgeMessages
    <2>3. CASE socket # 0
      <3>1. socket \in Sockets /\ uplink[socket] \in Seq(BridgeMessages)
        BY <2>3 DEF Sockets, BridgeMessages
      <3>2. Append(uplink[socket], <<c, result>>) \in Seq(BridgeMessages)  BY <2>1, <3>1
      <3> QED  BY <1>12, <2>3, <3>2 DEF Return, BridgeMessages
    <2> QED  BY <2>2, <2>3
  <1>13. ASSUME NEW c \in Commands, Decline(c) PROVE BridgeTypeOK'
    <2>1. PICK result \in Results : Return(c, result)  BY <1>13 DEF Decline
    <2> QED  BY <1>12, <1>13, <2>1 DEF Decline, Return, BridgeMessages
  <1>14. ASSUME NEW c \in Commands, Detach(c) PROVE BridgeTypeOK'
    <2>1. Return(c, "error") /\ "error" \in Results  BY <1>14 DEF Detach, Results
    <2> QED  BY <1>12, <1>14, <2>1 DEF Detach, Return, BridgeMessages
  <1>15. ASSUME NEW c \in Commands, Post(c) PROVE BridgeTypeOK'
    BY <1>15 DEF Post
  <1>16. ASSUME NEW c \in Commands, OrderArrives(c) PROVE BridgeTypeOK'
    BY <1>16 DEF OrderArrives
  <1>17. ASSUME NEW c \in Commands, PostAnswered(c) PROVE BridgeTypeOK'
    <2>1. PICK result \in Results : Return(c, result)  BY <1>17 DEF PostAnswered, Results
    <2> QED  BY <1>12, <1>17, <2>1 DEF PostAnswered, Return, BridgeMessages
  <1> QED
    BY <1>1, <1>2, <1>3, <1>4, <1>5, <1>6, <1>7, <1>8, <1>9, <1>10, <1>11, <1>13, <1>14, <1>15,
       <1>16, <1>17 DEF BridgeNext, BridgeStep
-----------------------------------------------------------------------------
(* The three parts of the invariant. *)

LEMMA OnceNext ==
  ASSUME BridgeTypeOK, CommandsComeOnce, BridgeNext
  PROVE  CommandsComeOnce'
  <1> USE DEF BridgeTypeOK, CommandsComeOnce
  <1>1. ASSUME NEW c \in Commands, Send(c) PROVE CommandsComeOnce'
    BY <1>1 DEF Send
  <1>2. ASSUME NEW c \in Commands, NEW a \in Answers, TakeAnswer(c, a) PROVE CommandsComeOnce'
    <2>1. Reading(a) # "idle"  BY DEF Reading
    <2> QED  BY <1>2, <2>1 DEF TakeAnswer
  <1>3. ASSUME NEW c \in Commands, GiveUp(c) PROVE CommandsComeOnce'
    BY <1>3 DEF GiveUp
  <1>4. ASSUME NEW c \in Commands, Forward(c) PROVE CommandsComeOnce'
    BY <1>4 DEF Forward
  <1>5. ASSUME NEW c \in Commands, Forget(c) PROVE CommandsComeOnce'
    BY <1>5 DEF Forget
  <1>6. ASSUME NEW s \in Sockets, Hear(s) \/ Disconnect(s) PROVE CommandsComeOnce'
    BY <1>6 DEF Hear, Disconnect
  <1>7. CASE RestartBroker \/ Connect
    BY <1>7 DEF RestartBroker, Connect
  <1>8. ASSUME NEW kept \in 0..MaxCommands + 1, NEW how \in {"closed", "stopped", "killed"},
               Lose(kept, how)
        PROVE  CommandsComeOnce'
    <2>1. \A c \in Commands : page[c] = "none" => page'[c] = "none"
      BY <1>8 DEF Lose, Unattended
    <2> QED  BY <1>8, <2>1 DEF Lose
  <1>9. ASSUME NEW c \in Commands, EvaluateOrder(c) PROVE CommandsComeOnce'
    BY <1>9 DEF EvaluateOrder
  <1>10. ASSUME NEW c \in Commands, Decline(c) \/ Detach(c) \/ PostAnswered(c) PROVE CommandsComeOnce'
    BY <1>10 DEF Decline, Detach, PostAnswered, Return
  <1>11. ASSUME NEW c \in Commands, Post(c) \/ OrderArrives(c) PROVE CommandsComeOnce'
    BY <1>11 DEF Post, OrderArrives
  <1> QED
    BY <1>1, <1>2, <1>3, <1>4, <1>5, <1>6, <1>7, <1>8, <1>9, <1>10, <1>11 DEF BridgeNext, BridgeStep

\* Only these steps touch an evaluation, a post or the venue.
LEMMA VenueSteps ==
  ASSUME BridgeNext
  PROVE  \/ UNCHANGED venueVars
         \/ \E c \in Commands : \/ EvaluateOrder(c) \/ Decline(c) \/ Detach(c) \/ Post(c) \/ OrderArrives(c)
                                \/ PostAnswered(c)
         \/ \E kept \in 0..MaxCommands + 1, how \in {"closed", "stopped", "killed"} : Lose(kept, how)
  BY DEF BridgeNext, BridgeStep, Send, TakeAnswer, GiveUp, Forward, Forget, Hear, Disconnect, RestartBroker, Connect

\* Only these change what the runtime makes of an order.
LEMMA VerdictSteps ==
  ASSUME BridgeNext
  PROVE  \/ UNCHANGED verdict
         \/ \E c \in Commands : Send(c) \/ GiveUp(c) \/ \E a \in Answers : TakeAnswer(c, a)
  BY DEF BridgeNext, BridgeStep, Forward, Forget, Hear, Disconnect, RestartBroker, Connect, Lose,
         EvaluateOrder, Decline, Detach, Return, Post, OrderArrives, PostAnswered

LEMMA NothingBeforePostNext ==
  ASSUME BridgeTypeOK, CommandsComeOnce, NothingBeforePost, BridgeNext
  PROVE  NothingBeforePost'
  <1> USE DEF BridgeTypeOK, NothingBeforePost
  <1>1. CASE UNCHANGED venueVars
    BY <1>1
  <1>2. ASSUME NEW kept \in 0..MaxCommands + 1, NEW how \in {"closed", "stopped", "killed"},
               Lose(kept, how)
        PROVE  NothingBeforePost'
    <2>1. \A c \in Commands : page'[c] \in {"none", "evaluating", "alone"}
                               => page[c] \in {"none", "evaluating", "alone"}
      BY <1>2 DEF Lose, Unattended
    <2> QED  BY <1>2, <2>1 DEF Lose
  <1>3. ASSUME NEW c \in Commands, EvaluateOrder(c) PROVE NothingBeforePost'
    BY <1>3 DEF EvaluateOrder, CommandsComeOnce
  <1>4. ASSUME NEW c \in Commands, Decline(c) \/ Detach(c) \/ PostAnswered(c) PROVE NothingBeforePost'
    BY <1>4 DEF Decline, Detach, PostAnswered
  <1>5. ASSUME NEW c \in Commands, Post(c) PROVE NothingBeforePost'
    BY <1>5 DEF Post
  <1>6. ASSUME NEW c \in Commands, OrderArrives(c) PROVE NothingBeforePost'
    BY <1>6 DEF OrderArrives
  <1> QED  BY <1>1, <1>2, <1>3, <1>4, <1>5, <1>6, VenueSteps

LEMMA PostsComeOnceNext ==
  ASSUME BridgeTypeOK, CommandsComeOnce, NothingBeforePost, PostsComeOnce, BridgeNext
  PROVE  PostsComeOnce'
  <1> USE DEF BridgeTypeOK, PostsComeOnce
  <1>1. \A c \in Commands : verdict[c] # "idle" => verdict'[c] # "idle"
    <2>1. \A a : Reading(a) # "idle"  BY DEF Reading
    <2>2. ASSUME NEW c \in Commands, Send(c) \/ GiveUp(c)
          PROVE  \A d \in Commands : verdict[d] # "idle" => verdict'[d] # "idle"
      BY <2>2 DEF Send, GiveUp
    <2>3. ASSUME NEW c \in Commands, NEW a \in Answers, TakeAnswer(c, a)
          PROVE  \A d \in Commands : verdict[d] # "idle" => verdict'[d] # "idle"
      BY <2>1, <2>3 DEF TakeAnswer
    <2> QED  BY <2>2, <2>3, VerdictSteps
  <1>2. CASE UNCHANGED venueVars
    BY <1>1, <1>2
  <1>3. ASSUME NEW kept \in 0..MaxCommands + 1, NEW how \in {"closed", "stopped", "killed"},
               Lose(kept, how)
        PROVE  PostsComeOnce'
    BY <1>1, <1>3 DEF Lose
  <1>4. ASSUME NEW c \in Commands, EvaluateOrder(c) \/ Decline(c) \/ Detach(c) \/ PostAnswered(c)
        PROVE  PostsComeOnce'
    BY <1>1, <1>4 DEF EvaluateOrder, Decline, Detach, PostAnswered
  <1>5. ASSUME NEW c \in Commands, Post(c) PROVE PostsComeOnce'
    BY <1>1, <1>5 DEF Post, CommandsComeOnce, NothingBeforePost
  <1>6. ASSUME NEW c \in Commands, OrderArrives(c) PROVE PostsComeOnce'
    BY <1>1, <1>6 DEF OrderArrives
  <1> QED  BY <1>2, <1>3, <1>4, <1>5, <1>6, VenueSteps

LEMMA StoppedStays ==
  ASSUME BridgeTypeOK, CommandsComeOnce, BridgeNext, NEW c \in Commands, Stopped(c)
  PROVE  Stopped(c)'
  <1> USE DEF BridgeTypeOK, Stopped
  <1>1. CASE UNCHANGED venueVars
    BY <1>1
  <1>2. ASSUME NEW kept \in 0..MaxCommands + 1, NEW how \in {"closed", "stopped", "killed"},
               Lose(kept, how)
        PROVE  Stopped(c)'
    BY <1>2 DEF Lose, Unattended
  <1>3. ASSUME NEW d \in Commands, EvaluateOrder(d) PROVE Stopped(c)'
    BY <1>3 DEF EvaluateOrder, CommandsComeOnce
  <1>4. ASSUME NEW d \in Commands, Decline(d) \/ Detach(d) \/ PostAnswered(d) PROVE Stopped(c)'
    BY <1>4 DEF Decline, Detach, PostAnswered
  <1>5. ASSUME NEW d \in Commands, Post(d) \/ OrderArrives(d) PROVE Stopped(c)'
    BY <1>5 DEF Post, OrderArrives
  <1> QED  BY <1>1, <1>2, <1>3, <1>4, <1>5, VenueSteps

LEMMA AcceptedStays ==
  ASSUME BridgeTypeOK, PostsComeOnce, BridgeNext, NEW c \in Commands, atVenue[c] = "accepted"
  PROVE  atVenue'[c] = "accepted"
  <1> USE DEF BridgeTypeOK, PostsComeOnce
  <1>1. CASE UNCHANGED venueVars
    BY <1>1
  <1>2. ASSUME NEW kept \in 0..MaxCommands + 1, NEW how \in {"closed", "stopped", "killed"},
               Lose(kept, how)
        PROVE  atVenue'[c] = "accepted"
    BY <1>2 DEF Lose
  <1>3. ASSUME NEW d \in Commands,
               EvaluateOrder(d) \/ Decline(d) \/ Detach(d) \/ Post(d) \/ OrderArrives(d) \/ PostAnswered(d)
        PROVE  atVenue'[c] = "accepted"
    BY <1>3 DEF EvaluateOrder, Decline, Detach, Post, OrderArrives, PostAnswered
  <1> QED  BY <1>1, <1>2, <1>3, VenueSteps

\* What a step of the page says of an order.
WasAnswered(c, r) ==
    \/ Decline(c) /\ r # "ok"
    \/ Detach(c) /\ r = "error"
    \/ PostAnswered(c) /\ r # "guard" /\ (r = "ok" => atVenue[c] = "accepted")

\* A result is one that was there, or the page has just said it: nothing on the way
\* changes a result, or takes it for that of another order.
LEMMA SaidByPage ==
  ASSUME MaxCommands \in Nat, MaxSockets \in Nat,
         BridgeTypeOK, BridgeNext, NEW c \in Commands, NEW r \in Results, Said(c, r)'
  PROVE  Said(c, r) \/ WasAnswered(c, r)
  <1> DEFINE said == <<c, r>>
  <1> USE DEF BridgeTypeOK
  <1>0. unsent \in Seq(BridgeMessages) /\ \A s \in Sockets : uplink[s] \in Seq(BridgeMessages)
    BY SeqMonotonic DEF BridgeMessages
  <1>1. ASSUME UNCHANGED <<unsent, uplink>>, answers' \subseteq answers PROVE Said(c, r)
    BY <1>1 DEF Said, Holds
  <1>2. ASSUME NEW d \in Commands, Send(d) \/ GiveUp(d) \/ Forget(d) PROVE Said(c, r)
    BY <1>1, <1>2 DEF Send, GiveUp, Forget
  <1>3. ASSUME NEW d \in Commands, NEW a \in Answers, TakeAnswer(d, a) PROVE Said(c, r)
    BY <1>1, <1>3 DEF TakeAnswer
  <1>5. ASSUME NEW d \in Commands, Forward(d) PROVE Said(c, r)
    <2>1. UNCHANGED <<unsent, uplink>>  BY <1>5 DEF Forward
    <2>2. <<d, "no extension">> # said  BY DEF Results
    <2>3. answers' \subseteq answers \cup {<<d, "no extension">>}  BY <1>5 DEF Forward, Reply
    <2>4. said \in answers' => said \in answers  BY <2>2, <2>3
    <2> QED  BY <2>1, <2>4 DEF Said, Holds
  <1>7. ASSUME NEW s \in Sockets, Hear(s) PROVE Said(c, r)
    <2>1. uplink[s] \in Seq(BridgeMessages) /\ uplink[s] # <<>>  BY <1>7 DEF Hear, BridgeMessages
    <2>2. Holds(uplink[s], Head(uplink[s])) /\ \A m : Holds(Tail(uplink[s]), m) => Holds(uplink[s], m)
      BY <2>1, HoldsTail
    <2>3. UNCHANGED unsent /\ uplink' = [uplink EXCEPT ![s] = Tail(@)]  BY <1>7 DEF Hear
    <2>4. said \in answers' => said \in answers \/ said = Head(uplink[s])
      BY <1>7 DEF Hear, Reply
    <2>5. \A t \in Sockets : Holds(uplink'[t], said) => Holds(uplink[t], said)
      BY <2>2, <2>3
    <2> QED  BY <2>2, <2>3, <2>4, <2>5 DEF Said, Holds
  <1>8. ASSUME NEW s \in Sockets, Disconnect(s) PROVE Said(c, r)
    <2>1. UNCHANGED unsent /\ uplink' = [uplink EXCEPT ![s] = <<>>]
      BY <1>8 DEF Disconnect
    <2>2. \A d \in pendingRequests : <<d, "disconnected">> # said  BY DEF Results
    <2>3. said \in answers' => said \in answers  BY <1>8, <2>2 DEF Disconnect, Reply
    <2>4. \A t \in Sockets : Holds(uplink'[t], said) => Holds(uplink[t], said)
      BY <2>1, HoldsNothing
    <2> QED  BY <2>1, <2>3, <2>4 DEF Said, Holds
  <1>9. CASE RestartBroker
    <2>1. UNCHANGED <<unsent, answers>> /\ uplink' = [s \in Sockets |-> <<>>]
      BY <1>9 DEF RestartBroker
    <2>2. \A s \in Sockets : ~Holds(uplink'[s], said)  BY <2>1, HoldsNothing
    <2> QED  BY <2>1, <2>2 DEF Said, Holds
  <1>10. CASE Connect
    <2>1. socket' \in Sockets /\ UNCHANGED answers /\ unsent' = <<>>
          /\ uplink' = [uplink EXCEPT ![socket'] = Append(unsent, Register)]
      BY <1>10 DEF Connect, Sockets
    <2>2. Register \in BridgeMessages /\ Register # said  BY DEF Register, BridgeMessages, Commands
    <2>3. \A t \in Sockets : Holds(uplink'[t], said) => Holds(uplink[t], said) \/ Holds(unsent, said)
      BY <1>0, <2>1, <2>2, HoldsAppend
    <2>4. ~Holds(unsent', said)  BY <2>1, HoldsNothing
    <2> QED  BY <2>1, <2>3, <2>4 DEF Said
  <1>11. ASSUME NEW kept \in 0..MaxCommands + 1, NEW how \in {"closed", "stopped", "killed"},
                socket # 0, kept <= Len(uplink[socket]), Lose(kept, how)
         PROVE  Said(c, r)
    <2>1. socket \in Sockets /\ kept \in 0..Len(uplink[socket])
      BY <1>0, <1>11, LenProperties DEF Sockets
    <2>2. \A m : Holds(SubSeq(uplink[socket], 1, kept), m) => Holds(uplink[socket], m)
      BY <1>0, <2>1, HoldsPrefix
    <2>3. \A t \in Sockets : Holds(uplink'[t], said) => Holds(uplink[t], said)
      BY <1>11, <2>1, <2>2 DEF Lose
    <2>4. Holds(unsent', said) => Holds(unsent, said)  BY <1>11, HoldsNothing DEF Lose
    <2>5. UNCHANGED answers  BY <1>11 DEF Lose
    <2> QED  BY <2>3, <2>4, <2>5 DEF Said
  <1>12. ASSUME NEW d \in Commands, EvaluateOrder(d) \/ Post(d) \/ OrderArrives(d) PROVE Said(c, r)
    BY <1>1, <1>12 DEF EvaluateOrder, Post, OrderArrives
  <1>13. ASSUME NEW d \in Commands, NEW result \in Results, Return(d, result), ~Said(c, r)
         PROVE  result = r /\ d = c
    <2>1. UNCHANGED answers  BY <1>13 DEF Return
    <2>2. <<d, result>> \in BridgeMessages  BY DEF BridgeMessages
    <2>3. CASE socket = 0
      <3>1. UNCHANGED uplink /\ unsent' = Append(unsent, <<d, result>>)  BY <1>13, <2>3 DEF Return
      <3>2. Holds(unsent', said)  BY <1>13, <2>1, <3>1 DEF Said
      <3>3. ~Holds(unsent, said) /\ Holds(Append(unsent, <<d, result>>), said)
        BY <1>13, <3>1, <3>2 DEF Said
      <3>4. said = <<d, result>>  BY <1>0, <2>2, <3>3, HoldsAppend
      <3> QED  BY <3>4
    <2>4. CASE socket # 0
      <3>1. UNCHANGED unsent /\ socket \in Sockets  BY <1>13, <2>4 DEF Return, Sockets
      <3>2. PICK t \in Sockets : Holds(uplink'[t], said)  BY <1>13, <2>1, <3>1 DEF Said
      <3>3. t = socket /\ uplink'[t] = Append(uplink[t], <<d, result>>)
        BY <1>13, <2>4, <3>1, <3>2 DEF Return, Said
      <3>4. ~Holds(uplink[t], said) /\ Holds(Append(uplink[t], <<d, result>>), said)
        BY <1>13, <3>2, <3>3 DEF Said
      <3>5. said = <<d, result>>  BY <1>0, <2>2, <3>4, HoldsAppend
      <3> QED  BY <3>5
    <2> QED  BY <2>3, <2>4
  <1>14. ASSUME NEW d \in Commands, Decline(d) PROVE Said(c, r) \/ WasAnswered(c, r)
    <2>1. PICK result \in Results \ {"ok"} : Return(d, result)  BY <1>14 DEF Decline
    <2> QED  BY <1>13, <1>14, <2>1 DEF WasAnswered
  <1>15. ASSUME NEW d \in Commands, Detach(d) PROVE Said(c, r) \/ WasAnswered(c, r)
    <2>1. Return(d, "error") /\ "error" \in Results  BY <1>15 DEF Detach, Results
    <2> QED  BY <1>13, <1>15, <2>1 DEF WasAnswered
  <1>16. ASSUME NEW d \in Commands, PostAnswered(d) PROVE Said(c, r) \/ WasAnswered(c, r)
    <2>1. PICK result \in Results \ {"guard"} :
            Return(d, result) /\ (result = "ok" => atVenue[d] = "accepted")
      BY <1>16 DEF PostAnswered, Results
    <2> QED  BY <1>13, <1>16, <2>1 DEF WasAnswered
  <1> HIDE DEF BridgeTypeOK
  <1> QED
    BY <1>2, <1>3, <1>5, <1>7, <1>8, <1>9, <1>10, <1>11, <1>12, <1>14, <1>15, <1>16
    DEF BridgeNext, BridgeStep

\* What is booked was said before.
LEMMA VerdictBySaid ==
  ASSUME BridgeTypeOK, BridgeNext, NEW c \in Commands
  PROVE  /\ reader = "wti" /\ verdict'[c] = "no order" => verdict[c] = "no order" \/ Said(c, "guard")
         /\ verdict'[c] = "ordered" => verdict[c] = "ordered" \/ Said(c, "ok")
  <1> USE DEF BridgeTypeOK
  <1>1. CASE UNCHANGED verdict
    BY <1>1
  <1>2. ASSUME NEW d \in Commands, Send(d) \/ GiveUp(d)
        PROVE  verdict'[c] \in {"no order", "ordered"} => verdict'[c] = verdict[c]
    BY <1>2 DEF Send, GiveUp
  <1>3. ASSUME NEW d \in Commands, NEW a \in Answers, TakeAnswer(d, a), verdict'[c] # verdict[c]
        PROVE  <<c, a>> \in answers /\ verdict'[c] = Reading(a)
    BY <1>3 DEF TakeAnswer
  <1>4. \A a : /\ reader = "wti" /\ Reading(a) = "no order" => a = "guard"
               /\ Reading(a) = "ordered" => a = "ok"
    BY DEF Reading
  <1> QED  BY <1>1, <1>2, <1>3, <1>4, VerdictSteps DEF Said

-----------------------------------------------------------------------------
LEMMA BridgeStarts ==
  ASSUME MaxSockets \in Nat, BridgeInit
  PROVE  BridgeInv
  <1>1. BridgeTypeOK  BY TypesInit
  <1>2. CommandsComeOnce /\ NothingBeforePost /\ PostsComeOnce
    BY DEF BridgeInit, CommandsComeOnce, NothingBeforePost, PostsComeOnce
  <1>3. GuardIsFinal /\ OkIsTrue
    BY HoldsNothing DEF BridgeInit, GuardIsFinal, OkIsTrue, Said
  <1> QED  BY <1>1, <1>2, <1>3 DEF BridgeInv

LEMMA BridgeStays ==
  ASSUME MaxCommands \in Nat, MaxSockets \in Nat, BridgeInv, [BridgeNext]_bridgeVars
  PROVE  BridgeInv'
  <1>1. CASE BridgeNext
    <2>0. BridgeTypeOK /\ CommandsComeOnce /\ NothingBeforePost /\ PostsComeOnce  BY DEF BridgeInv
    <2>1. BridgeTypeOK'  BY <1>1, <2>0, TypesNext
    <2>2. CommandsComeOnce'  BY <1>1, <2>0, OnceNext
    <2>3. NothingBeforePost'  BY <1>1, <2>0, NothingBeforePostNext
    <2>4. PostsComeOnce'  BY <1>1, <2>0, PostsComeOnceNext
    <2>5. reader' = reader  BY <1>1 DEF BridgeNext
    <2>6. ASSUME NEW c \in Commands, WasAnswered(c, "guard") PROVE Stopped(c)'
      BY <2>0, <2>6 DEF WasAnswered, Decline, NothingBeforePost, Stopped, BridgeTypeOK
    <2>7. ASSUME NEW c \in Commands, Said(c, "guard")' \/ (reader' = "wti" /\ verdict'[c] = "no order")
          PROVE  Stopped(c)'
      <3>1. \/ Said(c, "guard") \/ (reader = "wti" /\ verdict[c] = "no order")
            \/ WasAnswered(c, "guard")
        BY <1>1, <2>0, <2>5, <2>7, SaidByPage, VerdictBySaid DEF Results
      <3> QED  BY <1>1, <2>0, <2>6, <3>1, StoppedStays DEF BridgeInv, GuardIsFinal
    <2>8. ASSUME NEW c \in Commands, Said(c, "ok")' \/ verdict'[c] = "ordered"
          PROVE  atVenue'[c] = "accepted"
      <3>1. Said(c, "ok") \/ verdict[c] = "ordered" \/ WasAnswered(c, "ok")
        BY <1>1, <2>0, <2>8, SaidByPage, VerdictBySaid DEF Results
      <3>2. WasAnswered(c, "ok") => atVenue[c] = "accepted"  BY DEF WasAnswered
      <3> QED  BY <1>1, <2>0, <3>1, <3>2, AcceptedStays DEF BridgeInv, OkIsTrue
    <2> QED  BY <2>1, <2>2, <2>3, <2>4, <2>7, <2>8 DEF BridgeInv, GuardIsFinal, OkIsTrue
  <1>2. CASE UNCHANGED bridgeVars
    BY <1>2 DEF BridgeInv, BridgeTypeOK, CommandsComeOnce, NothingBeforePost, PostsComeOnce, GuardIsFinal,
                OkIsTrue, Stopped, Said, Holds
  <1> QED  BY <1>1, <1>2

-----------------------------------------------------------------------------
(* The bridge is a call that fails honestly. *)

LEMMA CallStarts ==
  ASSUME BridgeInit
  PROVE  Call!CallInit
  BY DEF BridgeInit, Call!CallInit, Worth

\* A step of the bridge is one of the call, or the call does not see it.
LEMMA CallSteps ==
  ASSUME BridgeInv, BridgeNext
  PROVE  [Call!CallNext]_(Call!callVars)
  <1> USE DEF BridgeTypeOK
  <1>0. BridgeTypeOK /\ reader' = reader /\ reader \in {"eth", "wti"}
    BY ReadersAssumption DEF BridgeInv, BridgeNext
  <1>1. ASSUME UNCHANGED <<verdict, atVenue>> PROVE UNCHANGED Call!callVars
    BY <1>0, <1>1 DEF Call!callVars, Worth
  <1>2. ASSUME NEW c \in Commands, Send(c) PROVE Call!Ask(c)
    BY <1>0, <1>2 DEF Send, Call!Ask, Worth
  <1>3. ASSUME NEW c \in Commands, GiveUp(c) PROVE Call!Tell(c)
    BY <1>0, <1>3 DEF GiveUp, Call!Tell, Worth
  <1>4. ASSUME NEW c \in Commands, NEW a \in Answers, TakeAnswer(c, a) PROVE Call!Tell(c)
    <2>1. verdict[c] = "waiting" /\ verdict' = [verdict EXCEPT ![c] = Reading(a)] /\ UNCHANGED atVenue
      BY <1>4 DEF TakeAnswer
    <2>2. <<c, a>> \in answers  BY <1>4 DEF TakeAnswer
    <2>3. \/ Reading(a) = "unknown"
          \/ Reading(a) = "ordered" /\ a = "ok"
          \/ Reading(a) = "no order" /\ reader = "eth"
          \/ Reading(a) = "no order" /\ a = "guard"
      BY <1>0 DEF Reading
    <2>4. a = "ok" => atVenue[c] = "accepted"  BY <2>2 DEF BridgeInv, OkIsTrue, Said
    <2>5. a = "guard" => atVenue[c] = "none"  BY <2>2 DEF BridgeInv, GuardIsFinal, Said, Stopped
    <2> QED  BY <1>0, <2>1, <2>3, <2>4, <2>5 DEF Call!Tell, Worth
  <1>5. ASSUME NEW c \in Commands, OrderArrives(c) PROVE Call!Arrive(c) \/ UNCHANGED Call!callVars
    <2>1. verdict[c] # "idle" /\ atVenue[c] = "none"
      BY <1>5 DEF OrderArrives, BridgeInv, PostsComeOnce
    <2>2. reader = "wti" => verdict[c] # "no order"
      BY <1>5 DEF OrderArrives, BridgeInv, GuardIsFinal, Stopped
    <2>3. PICK fate \in {"accepted", "refused", "none"} : atVenue' = [atVenue EXCEPT ![c] = fate]
      BY <1>5 DEF OrderArrives
    <2>4. UNCHANGED verdict  BY <1>5 DEF OrderArrives
    <2>5. CASE fate = "none"
      BY <1>0, <1>1, <2>1, <2>3, <2>4, <2>5
    <2>6. CASE fate # "none"
      <3>1. Worth(c) \notin {"idle", "no order"}  BY <1>0, <2>1, <2>2 DEF Worth
      <3>2. \A d \in Commands : Worth(d)' = Worth(d)  BY <1>0, <2>4 DEF Worth
      <3> QED  BY <2>1, <2>3, <2>6, <3>1, <3>2 DEF Call!Arrive
    <2> QED  BY <2>5, <2>6
  <1>6. \/ UNCHANGED <<verdict, atVenue>>
        \/ \E c \in Commands : Send(c) \/ GiveUp(c) \/ OrderArrives(c) \/ \E a \in Answers : TakeAnswer(c, a)
    BY DEF BridgeNext, BridgeStep, Forward, Forget, Hear, Disconnect, RestartBroker, Connect, Lose,
           EvaluateOrder, Decline, Detach, Return, Post, PostAnswered
  <1> QED  BY <1>1, <1>2, <1>3, <1>4, <1>5, <1>6 DEF Call!CallNext

-----------------------------------------------------------------------------
\* An order the WTI gateway takes for never placed (wti_live_gateway.py:452-464)
\* is not at the venue: whatever breaks on its way, only the guard of the page
\* says so, and only before the post.
THEOREM NoOrderMeansNoOrder ==
  ASSUME MaxCommands \in Nat, MaxSockets \in Nat
  PROVE  BridgeSpec => []GatewayNoOrderIsTrue
  <1>1. BridgeInit => BridgeInv  BY BridgeStarts
  <1>2. BridgeInv /\ [BridgeNext]_bridgeVars => BridgeInv'  BY BridgeStays
  <1>3. BridgeInv => GatewayNoOrderIsTrue
    BY DEF BridgeInv, GuardIsFinal, Stopped, GatewayNoOrderIsTrue, NoOrderIsTrue
  <1> QED  BY <1>1, <1>2, <1>3, PTL DEF BridgeSpec

\* The bridge implements the call of OrderCall, for either runtime and any number of
\* orders, lanes and sockets: an order asked for reaches the venue once at most, an
\* answer of ok is of an order the venue accepted, and the gateway's "no order" of
\* one that it never sees (listener.py:836-980, background.js, var_api.js).
THEOREM BridgeKeepsTheCall ==
  ASSUME MaxCommands \in Nat, MaxSockets \in Nat
  PROVE  BridgeSpec => AnswersAreTrue
  <1>1. BridgeInit => BridgeInv /\ Call!CallInit  BY BridgeStarts, CallStarts
  <1>2. BridgeInv /\ [BridgeNext]_bridgeVars => BridgeInv'  BY BridgeStays
  <1>3. BridgeInv /\ [BridgeNext]_bridgeVars => [Call!CallNext]_(Call!callVars)
    <2>1. UNCHANGED bridgeVars => UNCHANGED Call!callVars  BY DEF Call!callVars, Worth
    <2> QED  BY <2>1, CallSteps
  <1> QED  BY <1>1, <1>2, <1>3, PTL DEF BridgeSpec, AnswersAreTrue, Call!CallSpec

\* Whoever reads the answers, every variable of the bridge keeps its kind: a
\* message is an answer to a command that was sent, or a registration.
THEOREM BridgeTypes ==
  ASSUME MaxCommands \in Nat, MaxSockets \in Nat
  PROVE  BridgeSpec => []BridgeTypeOK
  <1>1. BridgeInit => BridgeTypeOK  BY TypesInit
  <1>2. BridgeTypeOK /\ [BridgeNext]_bridgeVars => BridgeTypeOK'
    BY TypesNext DEF BridgeTypeOK
  <1> QED  BY <1>1, <1>2, PTL DEF BridgeSpec
=================================================================================
