------------------------- MODULE RateLimiterProofs -------------------------
(***************************************************************************)
(* The limiter lets through what its burst and rate say, no more and, but  *)
(* for what was used, no less: for any addresses, burst, rate, period of   *)
(* the clean-up and number of requests.                                    *)
(*                                                                         *)
(* The argument is an account of each bucket.  What it holds and what the  *)
(* requests it let through since some answer have cost is at most a full   *)
(* bucket and the time gone by since (UpperOK), and at least that if the   *)
(* answer is well chosen (LowerOK).                                        *)
(***************************************************************************)
EXTENDS RateLimiter, FiniteSetTheorems, TLAPS

Answers == [from : Addresses, time : Nat, ok : BOOLEAN, got : Nat, map : Nat]

TypeOK ==
  /\ now \in Nat
  /\ made \in Nat
  /\ ips \in [Addresses -> Nat \cup {None}]
  /\ level \in [Limiters -> 0 .. Full]
  /\ held \in [Addresses \X Limiters -> Nat]
  /\ log \in Seq(Answers)

(* A request holds a limiter of its own address, made in a map so far.     *)
HeldOK ==
  /\ \A a \in Addresses : ips[a] # None => ips[a] <= made
  /\ \A a \in Addresses, l \in Limiters : held[<<a, l>>] > 0 => l[1] = a /\ l[2] <= made

(* The answers are in the order of the clock and of the maps.              *)
LogOK ==
  /\ \A k \in 1 .. Len(log) :
       /\ <<log[k].from, log[k].got>> \in Limiters
       /\ log[k].got <= log[k].map /\ log[k].map <= made /\ log[k].time <= now
  /\ \A i, k \in 1 .. Len(log) :
       i <= k => log[i].time <= log[k].time /\ log[i].map <= log[k].map

(* The requests limiter l let through, and what they cost it.              *)
Passed(l, i, j) ==
  {k \in i .. j : log[k].from = l[1] /\ log[k].got = l[2] /\ log[k].ok}

Cost(l, i, j) == Every * Cardinality(Passed(l, i, j))

UpperOK ==
  \A l \in Limiters, i \in 1 .. Len(log) :
    level[l] + Cost(l, i, Len(log)) <= Full + (now - log[i].time)

PastOK ==
  \A l \in Limiters, i, j \in 1 .. Len(log) :
    i <= j => Cost(l, i, j) <= Full + (log[j].time - log[i].time)

LowerOK ==
  \A l \in Limiters : level[l] # Full =>
    \E i \in 1 .. Len(log) :
      /\ log[i].from = l[1] /\ log[i].got = l[2] /\ log[i].ok
      /\ level[l] + Cost(l, i, Len(log)) >= Full + (now - log[i].time)

Spent(l, j) ==
  \E i \in Passed(l, 1, j) : Cost(l, i, j) + Every > Full + (log[j].time - log[i].time)

RefusedOK ==
  \A j \in 1 .. Len(log) : ~log[j].ok => Spent(<<log[j].from, log[j].got>>, j)

IInv ==
  TypeOK /\ HeldOK /\ LogOK /\ UpperOK /\ PastOK /\ LowerOK /\ RefusedOK

-----------------------------------------------------------------------------
(* Arithmetic and cardinality.                                             *)

LEMMA FullIsNat == Full \in Nat /\ Every \in Nat /\ Every >= 1 /\ Full >= Every
<1>1. Every \in Nat /\ Every >= 1 /\ Burst \in Nat /\ Burst >= 1
  BY LimiterAssumption
<1>2. \A b, e \in Nat : b >= 1 => b * e >= e /\ b * e \in Nat
  OBVIOUS
<1> QED
  BY <1>1, <1>2 DEF Full

LEMMA TimesEvery ==
  /\ \A n \in Nat : Every * n \in Nat /\ Every * (n + 1) = Every * n + Every
  /\ \A m, n \in Nat : m <= n => Every * m <= Every * n
  /\ Every * 0 = 0
BY LimiterAssumption

LEMMA LimiterShape ==
  ASSUME NEW l \in Limiters
  PROVE  l = <<l[1], l[2]>> /\ l[1] \in Addresses /\ l[2] \in Nat
BY DEF Limiters

LEMMA AnswersTyped ==
  ASSUME TypeOK
  PROVE  /\ Len(log) \in Nat /\ DOMAIN log = 1 .. Len(log)
         /\ \A k \in 1 .. Len(log) :
              /\ log[k] \in Answers /\ log[k].ok \in BOOLEAN
              /\ log[k].time \in Nat /\ log[k].got \in Nat /\ log[k].map \in Nat
<1>1. Len(log) \in Nat /\ DOMAIN log = 1 .. Len(log) /\ \A k \in 1 .. Len(log) : log[k] \in Answers
  BY DEF TypeOK
<1>2. \A e \in Answers : e.ok \in BOOLEAN /\ e.time \in Nat /\ e.got \in Nat /\ e.map \in Nat
  BY DEF Answers
<1> QED
  BY <1>1, <1>2

LEMMA PassedFinite ==
  ASSUME NEW l, NEW i \in Nat, NEW j \in Nat
  PROVE  IsFiniteSet(Passed(l, i, j)) /\ Cardinality(Passed(l, i, j)) \in Nat
<1>1. IsFiniteSet(i .. j)
  BY FS_Interval
<1>2. Passed(l, i, j) \in SUBSET (i .. j)
  BY DEF Passed
<1>3. IsFiniteSet(Passed(l, i, j))
  BY <1>1, <1>2, FS_Subset
<1> QED
  BY <1>3, FS_CardinalityType

LEMMA CostIsNat ==
  ASSUME NEW l, NEW i \in Nat, NEW j \in Nat
  PROVE  Cost(l, i, j) \in Nat
BY PassedFinite, TimesEvery DEF Cost

(* An answer appended costs its limiter a token if it lets the request     *)
(* through, and changes nothing else.                                      *)
LEMMA AppendedAnswer ==
  ASSUME TypeOK, NEW e \in Answers, log' = Append(log, e), NEW N \in Nat, N = Len(log)
  PROVE  /\ log' \in Seq(Answers)
         /\ Len(log') = N + 1
         /\ log'[N + 1] = e
         /\ \A k \in 1 .. N : log'[k] = log[k]
         /\ \A l : \A i, j \in 1 .. N : Passed(l, i, j)' = Passed(l, i, j)
         /\ \A l : \A i \in 1 .. N : Cost(l, i, N + 1)' = Cost(l, i, N) +
              (IF e.from = l[1] /\ e.got = l[2] /\ e.ok THEN Every ELSE 0)
         /\ \A l : Cost(l, N + 1, N + 1)' =
              IF e.from = l[1] /\ e.got = l[2] /\ e.ok THEN Every ELSE 0
<1>1. /\ log' \in Seq(Answers) /\ Len(log') = N + 1 /\ log'[N + 1] = e /\ N \in Nat
      /\ \A k \in 1 .. N : log'[k] = log[k]
  BY DEF TypeOK
<1>2. \A l : \A i, j \in 1 .. N : Passed(l, i, j)' = Passed(l, i, j)
  BY <1>1 DEF Passed
<1>3. ASSUME NEW l, NEW i \in 1 .. N + 1
      PROVE  Passed(l, i, N + 1)' =
               IF e.from = l[1] /\ e.got = l[2] /\ e.ok
                 THEN Passed(l, i, N) \cup {N + 1} ELSE Passed(l, i, N)
  <2>1. \A k : k \in i .. N + 1 <=> k \in i .. N \/ k = N + 1
    BY <1>1
  <2>2. \A k \in i .. N : k \in 1 .. N /\ log'[k] = log[k]
    BY <1>1
  <2>3. ASSUME NEW k \in i .. N
        PROVE  k # N + 1 /\ (k \in Passed(l, i, N + 1)' <=> k \in Passed(l, i, N))
    BY <2>1, <2>2, <1>1 DEF Passed
  <2>4. N + 1 \in Passed(l, i, N + 1)' <=> e.from = l[1] /\ e.got = l[2] /\ e.ok
    BY <2>1, <1>1 DEF Passed
  <2>5. \A k : k \in Passed(l, i, N + 1)' => k \in i .. N \/ k = N + 1
    BY <2>1 DEF Passed
  <2>6. \A k : k \in Passed(l, i, N) => k \in i .. N
    BY DEF Passed
  <2> DEFINE New == Passed(l, i, N + 1)'
             Old == Passed(l, i, N)
  <2>7. /\ \A k \in New : k \in Old \/ k = N + 1
        /\ \A k \in Old : k \in New
        /\ N + 1 \in New <=> e.from = l[1] /\ e.got = l[2] /\ e.ok
        /\ N + 1 \notin Old
    BY <2>3, <2>4, <2>5, <2>6
  <2> HIDE DEF New, Old
  <2>8. CASE N + 1 \in New
    <3>1. New = Old \cup {N + 1}
      BY <2>7, <2>8
    <3> QED
      BY <3>1, <2>7, <2>8 DEF New, Old
  <2>9. CASE N + 1 \notin New
    <3>1. New = Old
      BY <2>7, <2>9
    <3> QED
      BY <3>1, <2>7, <2>9 DEF New, Old
  <2> QED
    BY <2>8, <2>9
<1>4. ASSUME NEW l, NEW i \in 1 .. N + 1
      PROVE  Cost(l, i, N + 1)' = Cost(l, i, N) +
               (IF e.from = l[1] /\ e.got = l[2] /\ e.ok THEN Every ELSE 0)
  <2> DEFINE P == Passed(l, i, N)
  <2>1. IsFiniteSet(P) /\ Cardinality(P) \in Nat
    BY <1>1, PassedFinite
  <2>2. N + 1 \notin P
    BY <1>1 DEF Passed
  <2> HIDE DEF P
  <2>3. Cardinality(P \cup {N + 1}) = Cardinality(P) + 1
    BY <2>1, <2>2, FS_AddElement
  <2>4. Cost(l, i, N) = Every * Cardinality(P) /\ Cost(l, i, N) \in Nat
    BY <2>1, TimesEvery DEF Cost, P
  <2>5. Every * (Cardinality(P) + 1) = Every * Cardinality(P) + Every
    BY <2>1, TimesEvery
  <2>6. CASE e.from = l[1] /\ e.got = l[2] /\ e.ok
    <3>1. Passed(l, i, N + 1)' = P \cup {N + 1}
      BY <2>6, <1>3 DEF P
    <3>2. Cost(l, i, N + 1)' = Every * Cardinality(P \cup {N + 1})
      BY <3>1 DEF Cost
    <3> QED
      BY <3>2, <2>3, <2>4, <2>5, <2>6
  <2>7. CASE ~(e.from = l[1] /\ e.got = l[2] /\ e.ok)
    <3>1. Passed(l, i, N + 1)' = P
      BY <2>7, <1>3 DEF P
    <3>2. Cost(l, i, N + 1)' = Every * Cardinality(P)
      BY <3>1 DEF Cost
    <3> QED
      BY <3>2, <2>4, <2>7
  <2> QED
    BY <2>6, <2>7
<1>5. ASSUME NEW l PROVE Cost(l, N + 1, N) = 0
  <2>1. Passed(l, N + 1, N) = {}
    BY <1>1 DEF Passed
  <2> QED
    BY <2>1, FS_EmptySet, TimesEvery DEF Cost
<1>6. \A l : Cost(l, N + 1, N + 1)' =
              IF e.from = l[1] /\ e.got = l[2] /\ e.ok THEN Every ELSE 0
  BY <1>1, <1>4, <1>5, FullIsNat
<1>7. \A l : \A i \in 1 .. N : Cost(l, i, N + 1)' = Cost(l, i, N) +
               (IF e.from = l[1] /\ e.got = l[2] /\ e.ok THEN Every ELSE 0)
  BY <1>1, <1>4
<1> QED
  BY <1>1, <1>2, <1>6, <1>7
-----------------------------------------------------------------------------
(* Every action preserves the invariant.                                   *)

LEMMA InitIInv == Init => IInv
<1> SUFFICES ASSUME Init PROVE IInv
  OBVIOUS
<1>1. TypeOK
  <2>1. Full \in 0 .. Full
    BY FullIsNat
  <2> QED
    BY <2>1 DEF Init, TypeOK
<1>2. Len(log) = 0 /\ (\A l \in Limiters : level[l] = Full)
      /\ (\A h \in Addresses \X Limiters : ~(held[h] > 0))
      /\ \A a \in Addresses : ips[a] = None
  BY DEF Init
<1>3. \A i \in 1 .. Len(log) : FALSE
  BY <1>2
<1> QED
  BY <1>1, <1>2, <1>3 DEF IInv, HeldOK, LogOK, UpperOK, PastOK, LowerOK, RefusedOK

(* A step that appends no answer and touches no bucket.                    *)
LEMMA SameLog ==
  ASSUME IInv, log' = log, level' = level, now' = now, made' \in Nat, made' >= made
  PROVE  LogOK' /\ UpperOK' /\ PastOK' /\ LowerOK' /\ RefusedOK'
<1>1. \A l, i, j : Passed(l, i, j)' = Passed(l, i, j)
  BY DEF Passed
<1>2. \A l, i, j : Cost(l, i, j)' = Cost(l, i, j)
  BY <1>1 DEF Cost
<1>3. LogOK'
  <2>1. \A k \in 1 .. Len(log) : log[k] \in Answers /\ made \in Nat
    BY DEF IInv, TypeOK
  <2>2. \A k \in 1 .. Len(log) : log[k].map \in Nat /\ made \in Nat
    BY <2>1 DEF Answers
  <2>3. \A k \in 1 .. Len(log) : log[k].map <= made => log[k].map <= made'
    BY <2>2
  <2> QED
    BY <2>3 DEF IInv, LogOK
<1>4. UpperOK' /\ PastOK' /\ LowerOK'
  BY <1>2 DEF IInv, UpperOK, PastOK, LowerOK
<1>5. RefusedOK'
  BY <1>1, <1>2 DEF IInv, RefusedOK, Spent
<1> QED
  BY <1>3, <1>4, <1>5

LEMMA LookStep ==
  ASSUME IInv, NEW a \in Addresses, GetLimiter(a)
  PROVE  IInv'
<1> DEFINE g == ips'[a]
<1>1. /\ ips' = [ips EXCEPT ![a] = IF @ = None THEN made ELSE @]
      /\ held' = [held EXCEPT ![<<a, <<a, ips'[a]>>>>] = @ + 1]
      /\ UNCHANGED <<now, sleep, made, level, log>>
      /\ TypeOK /\ HeldOK
  BY DEF GetLimiter, IInv
<1>2. /\ ips' \in [Addresses -> Nat \cup {None}] /\ g \in Nat /\ g <= made
      /\ \A b \in Addresses : ips'[b] # None => ips'[b] <= made
  <2>1. made \in Nat /\ ips \in [Addresses -> Nat \cup {None}]
    BY <1>1 DEF TypeOK
  <2>2. g = (IF ips[a] = None THEN made ELSE ips[a])
    BY <1>1, <2>1
  <2>3. g \in Nat /\ g <= made
    BY <1>1, <2>1, <2>2 DEF HeldOK
  <2>4. \A b \in Addresses : ips'[b] = IF b = a THEN g ELSE ips[b]
    BY <1>1, <2>1
  <2>5. ips' = [b \in Addresses |-> IF b = a THEN g ELSE ips[b]]
    BY <1>1, <2>1, <2>4
  <2> HIDE DEF g
  <2>6. ips' \in [Addresses -> Nat \cup {None}]
    BY <2>1, <2>3, <2>5
  <2> QED
    BY <1>1, <2>3, <2>4, <2>6 DEF HeldOK
<1>3. TypeOK'
  <2>1. held' \in [Addresses \X Limiters -> Nat]
    <3>1. held \in [Addresses \X Limiters -> Nat]
      BY <1>1 DEF TypeOK
    <3>2. PICK h : held' = [held EXCEPT ![h] = held[h] + 1]
      BY <1>1
    <3>3. \A x \in Addresses \X Limiters : held'[x] \in Nat
      BY <3>1, <3>2
    <3> QED
      BY <3>1, <3>2, <3>3
  <2> QED
    BY <1>1, <1>2, <2>1 DEF TypeOK
<1>4. ASSUME NEW b \in Addresses, NEW l \in Limiters, held'[<<b, l>>] > 0
      PROVE  l[1] = b /\ l[2] <= made
  <2>1. CASE <<b, l>> = <<a, <<a, g>>>>
    <3>1. b = a /\ l = <<a, g>>
      BY <2>1
    <3>2. l[1] = a /\ l[2] = g
      BY <3>1
    <3> QED
      BY <3>1, <3>2, <1>2
  <2>2. CASE <<b, l>> # <<a, <<a, g>>>>
    <3>1. held'[<<b, l>>] = held[<<b, l>>]
      BY <2>2, <1>1 DEF TypeOK
    <3> QED
      BY <3>1, <1>1, <1>4 DEF HeldOK
  <2> QED
    BY <2>1, <2>2
<1>5. HeldOK'
  BY <1>1, <1>2, <1>4 DEF HeldOK
<1>6. LogOK' /\ UpperOK' /\ PastOK' /\ LowerOK' /\ RefusedOK'
  <2>1. made' \in Nat /\ made' >= made
    BY <1>1 DEF TypeOK
  <2> QED
    BY <1>1, <2>1, SameLog
<1> QED
  BY <1>3, <1>5, <1>6 DEF IInv

LEMMA CleanUpStep ==
  ASSUME IInv, CleanUp
  PROVE  IInv'
<1>1. /\ made' = made + 1 /\ ips' = [a \in Addresses |-> None]
      /\ UNCHANGED <<now, level, held, log>>
      /\ TypeOK /\ HeldOK
  BY DEF CleanUp, IInv
<1>2. TypeOK' /\ HeldOK'
  <2>1. made \in Nat /\ made' \in Nat /\ \A l \in Limiters : l[2] <= made => l[2] <= made'
    BY <1>1, LimiterShape DEF TypeOK
  <2> QED
    BY <1>1, <2>1 DEF TypeOK, HeldOK
<1>3. LogOK' /\ UpperOK' /\ PastOK' /\ LowerOK' /\ RefusedOK'
  <2>1. made' \in Nat /\ made' >= made
    BY <1>1 DEF TypeOK
  <2> QED
    BY <1>1, <2>1, SameLog
<1> QED
  BY <1>2, <1>3 DEF IInv

(* A tick gives every bucket at most a tick's worth, and that unless full. *)
LEMMA TickStep ==
  ASSUME IInv, Tick
  PROVE  IInv'
<1>1. /\ now' = now + 1 /\ level' = [l \in Limiters |-> Gain(l)]
      /\ UNCHANGED <<made, ips, held, log>>
      /\ TypeOK /\ HeldOK /\ LogOK /\ UpperOK /\ PastOK /\ LowerOK /\ RefusedOK
  BY DEF Tick, IInv
<1>2. Full \in Nat /\ now \in Nat /\ now' \in Nat
  BY <1>1, FullIsNat DEF TypeOK
<1>3. ASSUME NEW l \in Limiters
      PROVE  /\ level[l] \in 0 .. Full /\ level'[l] \in 0 .. Full
             /\ level'[l] <= level[l] + 1
             /\ level'[l] # Full => level[l] # Full /\ level'[l] = level[l] + 1
  BY <1>1, <1>2 DEF TypeOK, Gain
<1>4. \A l, i, j : Passed(l, i, j)' = Passed(l, i, j)
  BY <1>1 DEF Passed
<1>5. \A l, i, j : Cost(l, i, j)' = Cost(l, i, j)
  BY <1>4 DEF Cost
<1>6. TypeOK'
  BY <1>1, <1>2, <1>3 DEF TypeOK
<1>7. HeldOK' /\ RefusedOK' /\ PastOK'
  BY <1>1, <1>4, <1>5 DEF HeldOK, RefusedOK, Spent, PastOK
<1>8. /\ log \in Seq(Answers)
      /\ \A i \in 1 .. Len(log) : log[i].time \in Nat /\ \A l : Cost(l, i, Len(log)) \in Nat
  <2>1. \A i \in 1 .. Len(log) : log[i] \in Answers
    BY <1>1 DEF TypeOK
  <2>2. \A i \in 1 .. Len(log) : \A l : Cost(l, i, Len(log)) \in Nat
    BY <1>1, CostIsNat DEF TypeOK
  <2> QED
    BY <1>1, <2>1, <2>2 DEF TypeOK, Answers
<1>9. LogOK'
  BY <1>1, <1>2, <1>8 DEF LogOK
<1>10. UpperOK'
  <2> SUFFICES ASSUME NEW l \in Limiters, NEW i \in 1 .. Len(log)
               PROVE  level'[l] + Cost(l, i, Len(log)) <= Full + (now' - log[i].time)
    BY <1>1, <1>5 DEF UpperOK
  <2>1. level[l] + Cost(l, i, Len(log)) <= Full + (now - log[i].time)
    BY <1>1 DEF UpperOK
  <2> QED
    BY <2>1, <1>1, <1>2, <1>3, <1>8
<1>11. LowerOK'
  <2> SUFFICES ASSUME NEW l \in Limiters, level'[l] # Full
               PROVE  \E i \in 1 .. Len(log) :
                        /\ log[i].from = l[1] /\ log[i].got = l[2] /\ log[i].ok
                        /\ level'[l] + Cost(l, i, Len(log)) >= Full + (now' - log[i].time)
    BY <1>1, <1>5 DEF LowerOK
  <2>1. level[l] # Full /\ level'[l] = level[l] + 1
    BY <1>3
  <2>2. PICK i \in 1 .. Len(log) :
          /\ log[i].from = l[1] /\ log[i].got = l[2] /\ log[i].ok
          /\ level[l] + Cost(l, i, Len(log)) >= Full + (now - log[i].time)
    BY <2>1, <1>1 DEF LowerOK
  <2>3. level'[l] + Cost(l, i, Len(log)) >= Full + (now' - log[i].time)
    BY <2>1, <2>2, <1>1, <1>2, <1>3, <1>8
  <2> QED
    BY <2>2, <2>3
<1> QED
  BY <1>6, <1>7, <1>9, <1>10, <1>11 DEF IInv
(* A bucket is asked: a token for a request let through, or a refusal of   *)
(* one that has spent what was due.                                        *)
LEMMA AllowStep ==
  ASSUME IInv, NEW a \in Addresses, NEW l \in Limiters, Allow(a, l)
  PROVE  IInv'
<1> DEFINE may == level[l] >= Every
<1>1. PICK N \in Nat : N = Len(log)
  BY DEF IInv, TypeOK
<1>2. PICK e : e = [from |-> a, time |-> now, ok |-> may, got |-> l[2], map |-> made]
  OBVIOUS
<1>3. /\ held[<<a, l>>] > 0 /\ held' = [held EXCEPT ![<<a, l>>] = @ - 1]
      /\ level' = [level EXCEPT ![l] = Left(l)]
      /\ log' = Append(log, e)
      /\ UNCHANGED <<now, made, ips>>
      /\ TypeOK /\ HeldOK /\ LogOK /\ UpperOK /\ PastOK /\ LowerOK /\ RefusedOK
  BY <1>2 DEF Allow, IInv
<1>4. /\ Full \in Nat /\ Every \in Nat /\ Every >= 1 /\ Full >= Every
      /\ now \in Nat /\ made \in Nat /\ level[l] \in 0 .. Full
      /\ l = <<a, l[2]>> /\ l[1] = a /\ l[2] \in Nat /\ l[2] <= made /\ <<a, l[2]>> \in Limiters
  BY <1>3, FullIsNat, LimiterShape DEF TypeOK, HeldOK
<1>5. /\ e \in Answers
      /\ e.from = a /\ e.time = now /\ e.got = l[2] /\ e.map = made /\ e.ok = may
      /\ may \in BOOLEAN
  <2>1. may \in BOOLEAN
    BY <1>4
  <2> HIDE DEF may
  <2> QED
    BY <1>2, <1>4, <2>1 DEF Answers
<1>6. /\ log' \in Seq(Answers) /\ Len(log') = N + 1 /\ log'[N + 1] = e
      /\ \A k \in 1 .. N : log'[k] = log[k]
      /\ \A m : \A i, j \in 1 .. N : Passed(m, i, j)' = Passed(m, i, j)
      /\ \A m : \A i \in 1 .. N : Cost(m, i, N + 1)' = Cost(m, i, N) +
              (IF e.from = m[1] /\ e.got = m[2] /\ e.ok THEN Every ELSE 0)
      /\ \A m : Cost(m, N + 1, N + 1)' =
              IF e.from = m[1] /\ e.got = m[2] /\ e.ok THEN Every ELSE 0
  BY <1>1, <1>3, <1>5, AppendedAnswer
<1>7. /\ \A k \in 1 .. N : log[k] \in Answers /\ log[k].time \in Nat /\ log[k].map \in Nat
      /\ \A m : \A i, j \in 1 .. N : Cost(m, i, j) \in Nat
      /\ \A m : \A i, j \in 1 .. N : Cost(m, i, j)' = Cost(m, i, j)
  <2>1. \A k \in 1 .. N : log[k] \in Answers
    BY <1>1, <1>3 DEF TypeOK
  <2>2. \A m : \A i, j \in 1 .. N : Cost(m, i, j) \in Nat
    BY <1>1, CostIsNat
  <2>3. \A m : \A i, j \in 1 .. N : Cost(m, i, j)' = Cost(m, i, j)
    BY <1>6 DEF Cost
  <2> QED
    BY <2>1, <2>2, <2>3 DEF Answers
(* The token: what the answer costs limiter m.                             *)
<1> DEFINE Token(m) == IF m = l /\ may THEN Every ELSE 0
<1>8. \A m \in Limiters :
        (IF e.from = m[1] /\ e.got = m[2] /\ e.ok THEN Every ELSE 0) = Token(m)
  <2>1. ASSUME NEW m \in Limiters PROVE m = l <=> a = m[1] /\ l[2] = m[2]
    BY <1>4, LimiterShape
  <2> QED
    BY <2>1, <1>5
<1>9. ASSUME NEW m \in Limiters
      PROVE  /\ level[m] \in 0 .. Full /\ level'[m] \in 0 .. Full
             /\ level'[m] = level[m] - Token(m)
             /\ Token(m) \in Nat
  BY <1>3, <1>4 DEF TypeOK, Left
<1>10. ASSUME NEW m \in Limiters
       PROVE  /\ \A i \in 1 .. N : Cost(m, i, N + 1)' = Cost(m, i, N) + Token(m)
              /\ Cost(m, N + 1, N + 1)' = Token(m)
  BY <1>6, <1>8
<1> HIDE DEF Token
<1>11. \A i : i \in 1 .. N + 1 <=> i \in 1 .. N \/ i = N + 1
  BY <1>1
<1>12. TypeOK'
  <2>1. held' \in [Addresses \X Limiters -> Nat]
    <3>1. held \in [Addresses \X Limiters -> Nat] /\ <<a, l>> \in Addresses \X Limiters
      BY <1>3 DEF TypeOK
    <3>2. PICK h \in Addresses \X Limiters : held[h] > 0 /\ held' = [held EXCEPT ![h] = @ - 1]
      BY <1>3, <3>1
    <3> QED
      BY <3>1, <3>2
  <2>2. level' \in [Limiters -> 0 .. Full]
    <3>1. level \in [Limiters -> 0 .. Full] /\ Left(l) \in 0 .. Full
      BY <1>3, <1>4 DEF TypeOK, Left
    <3> QED
      BY <1>3, <3>1
  <2> QED
    BY <1>3, <1>6, <2>1, <2>2 DEF TypeOK
<1>13. HeldOK'
  <2>1. ASSUME NEW b \in Addresses, NEW m \in Limiters, held'[<<b, m>>] > 0
        PROVE  held[<<b, m>>] > 0
    BY <2>1, <1>3 DEF TypeOK
  <2> QED
    BY <2>1, <1>3 DEF HeldOK
<1>14. LogOK'
  <2>1. ASSUME NEW k \in 1 .. N + 1
        PROVE  /\ <<log'[k].from, log'[k].got>> \in Limiters
               /\ log'[k].got <= log'[k].map /\ log'[k].map <= made /\ log'[k].time <= now
    <3>1. CASE k = N + 1
      BY <3>1, <1>4, <1>5, <1>6
    <3>2. CASE k \in 1 .. N
      BY <3>2, <1>1, <1>3, <1>6 DEF LogOK
    <3> QED
      BY <3>1, <3>2, <1>11
  <2>2. ASSUME NEW i \in 1 .. N + 1, NEW k \in 1 .. N + 1, i <= k
        PROVE  log'[i].time <= log'[k].time /\ log'[i].map <= log'[k].map
    <3>1. CASE k = N + 1
      BY <3>1, <2>1, <1>5, <1>6
    <3>2. CASE k \in 1 .. N
      BY <3>2, <2>2, <1>1, <1>3, <1>6 DEF LogOK
    <3> QED
      BY <3>1, <3>2, <1>11
  <2> QED
    BY <2>1, <2>2, <1>3, <1>6 DEF LogOK
<1>15. UpperOK'
  <2> SUFFICES ASSUME NEW m \in Limiters, NEW i \in 1 .. N + 1
               PROVE  level'[m] + Cost(m, i, N + 1)' <= Full + (now - log'[i].time)
    BY <1>3, <1>6 DEF UpperOK
  <2>1. CASE i = N + 1
    <3>1. level'[m] = level[m] - Token(m) /\ Token(m) \in Nat /\ level[m] \in 0 .. Full
      BY <1>9
    <3>2. Cost(m, N + 1, N + 1)' = Token(m)
      BY <1>10
    <3>3. log'[N + 1].time = now
      BY <1>5, <1>6
    <3>4. Full \in Nat /\ now \in Nat
      BY <1>4
    <3> QED
      BY <2>1, <3>1, <3>2, <3>3, <3>4
  <2>2. CASE i \in 1 .. N
    <3>1. level[m] + Cost(m, i, N) <= Full + (now - log[i].time)
      BY <2>2, <1>1, <1>3 DEF UpperOK
    <3>2. Cost(m, i, N + 1)' = Cost(m, i, N) + Token(m) /\ log'[i] = log[i]
      BY <2>2, <1>6, <1>10
    <3>3. Cost(m, i, N) \in Nat /\ log[i].time \in Nat
      BY <2>2, <1>1, <1>7
    <3> QED
      BY <3>1, <3>2, <3>3, <1>4, <1>9
  <2> QED
    BY <2>1, <2>2, <1>11
<1>16. PastOK'
  <2> SUFFICES ASSUME NEW m \in Limiters, NEW i \in 1 .. N + 1, NEW j \in 1 .. N + 1, i <= j
               PROVE  Cost(m, i, j)' <= Full + (log'[j].time - log'[i].time)
    BY <1>6 DEF PastOK
  <2>1. CASE j = N + 1
    <3>1. level'[m] + Cost(m, i, N + 1)' <= Full + (now - log'[i].time)
      BY <1>3, <1>6, <1>15 DEF UpperOK
    <3>2. level'[m] \in Nat /\ Cost(m, i, N + 1)' \in Nat /\ log'[i].time \in Nat
      <4>1. level'[m] \in Nat /\ Token(m) \in Nat
        BY <1>4, <1>9
      <4>2. CASE i = N + 1
        BY <4>1, <4>2, <1>4, <1>5, <1>6, <1>10
      <4>3. CASE i \in 1 .. N
        <5>1. N \in 1 .. N
          BY <4>3, <1>1
        <5>2. Cost(m, i, N) \in Nat /\ log'[i].time \in Nat
          BY <4>3, <5>1, <1>6, <1>7
        <5> QED
          BY <4>1, <4>3, <5>2, <1>10
      <4> QED
        BY <4>1, <4>2, <4>3, <1>11
    <3> QED
      BY <2>1, <3>1, <3>2, <1>4, <1>5, <1>6
  <2>2. CASE j \in 1 .. N
    <3>1. i \in 1 .. N
      BY <2>2, <1>1
    <3>2. Cost(m, i, j) <= Full + (log[j].time - log[i].time)
      BY <2>2, <3>1, <1>1, <1>3 DEF PastOK
    <3> QED
      BY <2>2, <3>1, <3>2, <1>6, <1>7
  <2> QED
    BY <2>1, <2>2, <1>11
<1>17. LowerOK'
  <2> SUFFICES ASSUME NEW m \in Limiters, level'[m] # Full
               PROVE  \E i \in 1 .. N + 1 :
                        /\ log'[i].from = m[1] /\ log'[i].got = m[2] /\ log'[i].ok
                        /\ level'[m] + Cost(m, i, N + 1)' >= Full + (now - log'[i].time)
    BY <1>3, <1>6 DEF LowerOK
  <2>1. CASE level[m] = Full
    <3>1. m = l /\ may /\ Token(m) = Every
      BY <2>1, <1>4, <1>9 DEF Token
    <3>2. Cost(m, N + 1, N + 1)' = Every /\ level'[m] = Full - Every /\ N + 1 \in 1 .. N + 1
      BY <2>1, <3>1, <1>9, <1>10, <1>1
    <3>3. log'[N + 1].from = m[1] /\ log'[N + 1].got = m[2] /\ log'[N + 1].ok
          /\ log'[N + 1].time = now
      BY <3>1, <1>4, <1>5, <1>6
    <3>4. level'[m] + Cost(m, N + 1, N + 1)' >= Full + (now - log'[N + 1].time)
      BY <3>2, <3>3, <1>4
    <3> QED
      BY <3>2, <3>3, <3>4
  <2>2. CASE level[m] # Full
    <3>1. PICK i \in 1 .. N :
            /\ log[i].from = m[1] /\ log[i].got = m[2] /\ log[i].ok
            /\ level[m] + Cost(m, i, N) >= Full + (now - log[i].time)
      BY <2>2, <1>1, <1>3 DEF LowerOK
    <3>2. log'[i] = log[i] /\ Cost(m, i, N + 1)' = Cost(m, i, N) + Token(m)
          /\ Cost(m, i, N) \in Nat /\ log[i].time \in Nat /\ i \in 1 .. N + 1
      BY <1>1, <1>6, <1>7, <1>10
    <3>3. level'[m] + Cost(m, i, N + 1)' >= Full + (now - log'[i].time)
      BY <3>1, <3>2, <1>4, <1>9
    <3> QED
      BY <3>1, <3>2, <3>3
  <2> QED
    BY <2>1, <2>2
<1>18. RefusedOK'
  <2> SUFFICES ASSUME NEW j \in 1 .. N + 1, ~log'[j].ok
               PROVE  Spent(<<log[j].from, log[j].got>>, j)'
    BY <1>6 DEF RefusedOK
  <2>1. CASE j = N + 1
    <3>1. ~may /\ level[l] < Every /\ level[l] # Full
      <4>1. ~may
        BY <2>1, <1>5, <1>6
      <4> QED
        BY <4>1, <1>4
    <3>2. PICK i \in 1 .. N :
            /\ log[i].from = l[1] /\ log[i].got = l[2] /\ log[i].ok
            /\ level[l] + Cost(l, i, N) >= Full + (now - log[i].time)
      BY <3>1, <1>1, <1>3 DEF LowerOK
    <3>3. log'[i] = log[i] /\ Cost(l, i, N + 1)' = Cost(l, i, N) + Token(l) /\ Token(l) = 0
          /\ Cost(l, i, N) \in Nat /\ log[i].time \in Nat /\ i \in 1 .. N + 1
      BY <3>1, <1>1, <1>6, <1>7, <1>10 DEF Token
    <3>4. Cost(l, i, N + 1)' + Every > Full + (log'[N + 1].time - log'[i].time)
      <4>1. log'[N + 1].time = now /\ log'[i].time = log[i].time
        BY <3>3, <1>5, <1>6
      <4>2. level[l] \in Nat
        BY <1>4
      <4> QED
        BY <4>1, <4>2, <3>1, <3>2, <3>3, <1>4
    <3>5. i \in Passed(l, 1, N + 1)'
      BY <3>2, <3>3 DEF Passed
    <3>6. Spent(l, N + 1)'
      BY <3>4, <3>5 DEF Spent
    <3>7. l = <<log'[j].from, log'[j].got>>
      BY <2>1, <1>4, <1>5, <1>6
    <3> QED
      BY <3>6, <3>7, <2>1
  <2>2. CASE j \in 1 .. N
    <3>1. PICK m : m = <<log[j].from, log[j].got>>
      OBVIOUS
    <3>2. log'[j] = log[j] /\ Spent(m, j)
      BY <2>2, <3>1, <1>1, <1>3, <1>6 DEF RefusedOK
    <3>3. PICK i \in Passed(m, 1, j) :
            Cost(m, i, j) + Every > Full + (log[j].time - log[i].time)
      BY <3>2 DEF Spent
    <3>4. i \in 1 .. N /\ 1 \in 1 .. N
      BY <2>2, <3>3, <1>1 DEF Passed
    <3>5. /\ i \in Passed(m, 1, j)' /\ log'[i] = log[i]
          /\ Cost(m, i, j)' = Cost(m, i, j)
      BY <2>2, <3>3, <3>4, <1>6, <1>7
    <3>6. Spent(m, j)'
      BY <3>2, <3>3, <3>5 DEF Spent
    <3> QED
      BY <3>1, <3>2, <3>6
  <2> QED
    BY <2>1, <2>2, <1>11
<1> QED
  BY <1>12, <1>13, <1>14, <1>15, <1>16, <1>17, <1>18 DEF IInv

(* The inductive invariant: the account of every bucket.                   *)
THEOREM Invariance == Spec => []IInv
<1>1. IInv /\ [Next]_vars => IInv'
  <2> SUFFICES ASSUME IInv, [Next]_vars PROVE IInv'
    OBVIOUS
  <2>1. ASSUME UNCHANGED vars PROVE IInv'
    <3>1. UNCHANGED <<now, made, ips, level, held, log>>
      BY <2>1 DEF vars
    <3>2. TypeOK' /\ HeldOK' /\ made' \in Nat /\ made' >= made
      BY <3>1 DEF IInv, TypeOK, HeldOK
    <3> QED
      BY <3>1, <3>2, SameLog DEF IInv
  <2> QED
    BY <2>1, LookStep, AllowStep, TickStep, CleanUpStep DEF Next
<1> QED
  BY <1>1, InitIInv, PTL DEF Spec

-----------------------------------------------------------------------------
(* Theorems.                                                               *)

LEMMA AllowedFinite ==
  ASSUME NEW a, NEW i \in Nat, NEW j \in Nat
  PROVE  IsFiniteSet(Allowed(a, i, j)) /\ Cardinality(Allowed(a, i, j)) \in Nat
<1>1. IsFiniteSet(i .. j)
  BY FS_Interval
<1>2. Allowed(a, i, j) \in SUBSET (i .. j)
  BY DEF Allowed
<1>3. IsFiniteSet(Allowed(a, i, j))
  BY <1>1, <1>2, FS_Subset
<1> QED
  BY <1>3, FS_CardinalityType

(* Who is refused has used up what the address was due: nobody pays for    *)
(* other addresses, for requests refused or for a clean-up.                *)
THEOREM RefusedSafe == Spec => []RefusedOnlyIfSpent
<1>1. ASSUME IInv PROVE RefusedOnlyIfSpent
  <2> SUFFICES ASSUME NEW j \in 1 .. Len(log), ~log[j].ok
               PROVE  \E i \in Allowed(log[j].from, 1, j) :
                        (Cardinality(Allowed(log[j].from, i, j)) + 1 - Burst) * Every
                          > log[j].time - log[i].time
    BY <1>1 DEF RefusedOnlyIfSpent, IInv, TypeOK
  <2>1. PICK a : a = log[j].from
    OBVIOUS
  <2>2. PICK m : m = <<a, log[j].got>>
    OBVIOUS
  <2>3. PICK i \in Passed(m, 1, j) :
          Cost(m, i, j) + Every > Full + (log[j].time - log[i].time)
    BY <1>1, <2>1, <2>2 DEF IInv, RefusedOK, Spent
  <2>4. i \in 1 .. j /\ i \in Nat /\ j \in Nat /\ i \in 1 .. Len(log)
    BY <1>1, <2>3 DEF Passed, IInv, TypeOK
  <2>5. i \in Allowed(a, 1, j) /\ Passed(m, i, j) \in SUBSET Allowed(a, i, j)
    <3>1. m[1] = a
      BY <2>2
    <3> QED
      BY <2>3, <3>1 DEF Passed, Allowed
  <2>6. PICK p \in Nat : p = Cardinality(Passed(m, i, j))
    BY <2>4, PassedFinite
  <2>7. PICK n \in Nat : n = Cardinality(Allowed(a, i, j)) /\ p <= n
    BY <2>4, <2>5, <2>6, AllowedFinite, FS_Subset
  <2>8. Every * p <= Every * n /\ Every * p \in Nat /\ Every * n \in Nat
    BY <2>7, TimesEvery
  <2>9. Cost(m, i, j) = Every * p
    BY <2>6 DEF Cost
  <2>10. log[j].time \in Nat /\ log[i].time \in Nat
    BY <1>1, <2>4, AnswersTyped DEF IInv
  <2>11. Every * n + Every > Full + (log[j].time - log[i].time)
    BY <2>3, <2>8, <2>9, <2>10, FullIsNat
  <2>12. (n + 1 - Burst) * Every = Every * n + Every - Full
    BY LimiterAssumption DEF Full
  <2>13. (n + 1 - Burst) * Every > log[j].time - log[i].time
    BY <2>8, <2>10, <2>11, <2>12, FullIsNat
  <2> QED
    BY <2>1, <2>5, <2>7, <2>13
<1> QED
  BY <1>1, Invariance, PTL

(* In less than the time of a token one limiter lets a burst through.      *)
LEMMA OneLimiter ==
  ASSUME IInv, NEW l \in Limiters, NEW i \in 1 .. Len(log), NEW j \in 1 .. Len(log),
         i <= j, log[j].time - log[i].time < Every
  PROVE  Cardinality(Passed(l, i, j)) <= Burst
<1>1. PICK p \in Nat : p = Cardinality(Passed(l, i, j))
  BY PassedFinite DEF IInv, TypeOK
<1>2. Every * p <= Full + (log[j].time - log[i].time)
  BY <1>1 DEF IInv, PastOK, Cost
<1>3. log[j].time \in Nat /\ log[i].time \in Nat
  BY AnswersTyped DEF IInv
<1>4. Every * p < Every * (Burst + 1) /\ Every * p \in Nat
  <2>1. Every * (Burst + 1) = Full + Every
    BY LimiterAssumption DEF Full
  <2> QED
    BY <2>1, <1>1, <1>2, <1>3, TimesEvery, FullIsNat
<1>5. ~(Burst + 1 <= p)
  <2>1. Burst + 1 \in Nat /\ Every * (Burst + 1) \in Nat
    BY LimiterAssumption, TimesEvery
  <2>2. Burst + 1 <= p => Every * (Burst + 1) <= Every * p
    BY <1>1, <2>1, TimesEvery
  <2> QED
    BY <2>1, <2>2, <1>4
<1> QED
  BY <1>1, <1>5, LimiterAssumption

(* In less than the time of one token an address gets no more than the     *)
(* burst through, and a burst more for each clean-up since the limiters    *)
(* were looked up.  Every request let through is named by the map of its   *)
(* limiter and its place among those that limiter let through.             *)
THEOREM LimitSafe == Spec => []WithinTheLimit
<1>1. ASSUME IInv PROVE WithinTheLimit
  <2> SUFFICES ASSUME NEW a \in Addresses, NEW i \in 1 .. Len(log), NEW j \in 1 .. Len(log),
                      log[j].time - log[i].time < Every,
                      NEW k \in Allowed(a, i, j),
                      \A n \in Allowed(a, i, j) : log[k].got <= log[n].got
               PROVE  Cardinality(Allowed(a, i, j)) <= Burst * (1 + log[j].map - log[k].got)
    BY <1>1, AnswersTyped DEF WithinTheLimit, IInv
  <2> DEFINE in == Allowed(a, i, j)
             Of(n) == Passed(<<a, log[n].got>>, i, n)
             T == (log[k].got .. log[j].map) \X (1 .. Burst)
             f == [n \in in |-> <<log[n].got, Cardinality(Of(n))>>]
  <2>1. i <= j /\ i \in Nat /\ j \in Nat /\ Len(log) \in Nat
    BY <1>1 DEF Allowed, IInv, TypeOK
  <2>2. \A n \in 1 .. Len(log) :
          log[n].time \in Nat /\ log[n].got \in Nat /\ log[n].map \in Nat
    BY <1>1, AnswersTyped DEF IInv
  <2>3. ASSUME NEW n \in in
        PROVE  /\ n \in i .. j /\ n \in 1 .. Len(log) /\ n \in Nat /\ i <= n
               /\ log[n].from = a /\ log[n].ok
               /\ <<a, log[n].got>> \in Limiters
               /\ log[n].got \in log[k].got .. log[j].map
               /\ log[n].time - log[i].time < Every
    <3>1. n \in i .. j /\ log[n].from = a /\ log[n].ok
      BY DEF Allowed
    <3>2. n \in 1 .. Len(log) /\ n \in Nat /\ i <= n /\ n <= j
      BY <2>1, <3>1
    <3>3. k \in 1 .. Len(log) /\ log[k].got <= log[n].got
      BY <2>1 DEF Allowed
    <3>4. /\ <<log[n].from, log[n].got>> \in Limiters /\ log[n].got <= log[n].map
          /\ log[n].map <= log[j].map /\ log[n].time <= log[j].time
      BY <1>1, <3>2 DEF IInv, LogOK
    <3> QED
      BY <2>2, <3>1, <3>2, <3>3, <3>4, FullIsNat
  <2>4. ASSUME NEW n \in in
        PROVE  /\ n \in Of(n) /\ IsFiniteSet(Of(n)) /\ Cardinality(Of(n)) \in 1 .. Burst
    <3>1. PICK l : l = <<a, log[n].got>> /\ l \in Limiters /\ l[1] = a /\ l[2] = log[n].got
      <4>1. PICK g : g = log[n].got
        OBVIOUS
      <4>2. <<a, g>> \in Limiters /\ <<a, g>>[1] = a /\ <<a, g>>[2] = g
        BY <2>3, <4>1
      <4> QED
        BY <4>1, <4>2
    <3>2. n \in Passed(l, i, n)
      BY <2>3, <3>1 DEF Passed
    <3>3. IsFiniteSet(Passed(l, i, n)) /\ Cardinality(Passed(l, i, n)) \in Nat
      BY <2>1, <2>3, PassedFinite
    <3>4. Cardinality(Passed(l, i, n)) # 0
      BY <3>2, <3>3, FS_EmptySet
    <3>5. Cardinality(Passed(l, i, n)) <= Burst
      BY <1>1, <2>3, <3>1, OneLimiter
    <3> QED
      BY <3>1, <3>2, <3>3, <3>4, <3>5, LimiterAssumption
  <2>5. f \in [in -> T]
    BY <2>3, <2>4
  <2>6. ASSUME NEW m \in in, NEW n \in in, m < n, log[m].got = log[n].got
        PROVE  Cardinality(Of(m)) # Cardinality(Of(n))
    <3>1. m \in Nat /\ n \in Nat /\ i \in Nat /\ m < n
      BY <2>1, <2>3, <2>6
    <3>2. \A k1 \in i .. m : k1 \in i .. n /\ k1 # n
      BY <3>1
    <3>3. PICK l : l = <<a, log[m].got>> /\ l = <<a, log[n].got>>
      BY <2>6
    <3>4. Passed(l, i, m) \in SUBSET Passed(l, i, n) /\ n \notin Passed(l, i, m)
      BY <3>2 DEF Passed
    <3>5. Of(m) \in SUBSET Of(n) /\ n \notin Of(m)
      BY <3>3, <3>4
    <3>6. n \in Of(n) /\ IsFiniteSet(Of(n))
      BY <2>4
    <3> HIDE DEF Of
    <3> QED
      BY <3>5, <3>6, FS_Subset
  <2>7. ASSUME NEW m \in in, NEW n \in in, f[m] = f[n]
        PROVE  m = n
    <3>1. log[m].got = log[n].got /\ Cardinality(Of(m)) = Cardinality(Of(n))
      BY <2>7
    <3>2. m \in Nat /\ n \in Nat
      BY <2>3
    <3>3. ~(m < n) /\ ~(n < m)
      BY <3>1, <2>6
    <3> QED
      BY <3>2, <3>3
  <2>8. IsFiniteSet(T) /\ Cardinality(T) = Burst * (1 + log[j].map - log[k].got)
    <3>1. k \in 1 .. Len(log) /\ log[k].got \in Nat /\ log[j].map \in Nat /\ log[k].got <= log[j].map
      <4>1. k \in in
        OBVIOUS
      <4>2. k \in 1 .. Len(log) /\ log[k].got \in log[k].got .. log[j].map
        BY <4>1, <2>3
      <4> QED
        BY <4>2, <2>2
    <3>2. PICK lo \in Nat, hi \in Nat : lo = log[k].got /\ hi = log[j].map /\ lo <= hi
      BY <3>1
    <3>3. IsFiniteSet(lo .. hi) /\ Cardinality(lo .. hi) = hi - lo + 1
      <4>1. lo \in Int /\ hi \in Int
        BY <3>2
      <4>2. IsFiniteSet(lo .. hi) /\ Cardinality(lo .. hi) = IF lo > hi THEN 0 ELSE hi - lo + 1
        BY <4>1, FS_Interval, Zenon
      <4> QED
        BY <3>2, <4>2
    <3>4. IsFiniteSet(1 .. Burst) /\ Cardinality(1 .. Burst) = Burst
      <4>1. 1 \in Int /\ Burst \in Int /\ Burst >= 1
        BY LimiterAssumption
      <4>2. /\ IsFiniteSet(1 .. Burst)
            /\ Cardinality(1 .. Burst) = IF 1 > Burst THEN 0 ELSE Burst - 1 + 1
        BY <4>1, FS_Interval, Zenon
      <4> QED
        BY <4>1, <4>2
    <3>5. /\ IsFiniteSet((lo .. hi) \X (1 .. Burst))
          /\ Cardinality((lo .. hi) \X (1 .. Burst)) = Cardinality(lo .. hi) * Cardinality(1 .. Burst)
      BY <3>3, <3>4, FS_Product
    <3>6. (hi - lo + 1) * Burst = Burst * (1 + hi - lo)
      BY <3>2, LimiterAssumption
    <3> QED
      BY <3>2, <3>3, <3>4, <3>5, <3>6
  <2>9. f \in Injection(in, T)
    <3> HIDE DEF f, T
    <3> QED
      BY <2>5, <2>7 DEF Injection, IsInjective
  <2>10. Cardinality(in) <= Cardinality(T)
    <3> HIDE DEF f, T, in
    <3> QED
      BY <2>8, <2>9, FS_Injection
  <2> QED
    BY <2>8, <2>10
<1> QED
  BY <1>1, Invariance, PTL

(* The maps made so far: a clean-up sleeps a Period before the next.       *)
MapsOK ==
  /\ now \in 0 .. MaxTime
  /\ sleep \in 0 .. Period
  /\ made \in Nat
  /\ made * Period <= now + sleep

(* Limiters has a limiter for every map that can be made, so that the      *)
(* bound on time is the only one: no request is left without its bucket.   *)
THEOREM LimitersEnough == Spec => [](\A a \in Addresses : <<a, made>> \in Limiters)
<1>1. Init => MapsOK
  BY LimiterAssumption DEF Init, MapsOK
<1>2. MapsOK /\ [Next]_vars => MapsOK'
  <2> SUFFICES ASSUME MapsOK, [Next]_vars PROVE MapsOK'
    OBVIOUS
  <2>1. CASE Tick
    BY <2>1, LimiterAssumption DEF Tick, MapsOK
  <2>2. CASE CleanUp
    <3>1. (made + 1) * Period = made * Period + Period
      BY LimiterAssumption DEF MapsOK
    <3>2. made * Period \in Nat
      BY LimiterAssumption DEF MapsOK
    <3> QED
      BY <2>2, <3>1, <3>2, LimiterAssumption DEF CleanUp, MapsOK
  <2>3. CASE UNCHANGED <<now, sleep, made>>
    BY <2>3 DEF MapsOK
  <2> QED
    BY <2>1, <2>2, <2>3 DEF Next, vars, GetLimiter, Allow
<1>3. ASSUME MapsOK PROVE \A a \in Addresses : <<a, made>> \in Limiters
  <2>1. made * Period <= MaxTime + Period
    <3>1. made * Period <= now + sleep /\ now <= MaxTime /\ sleep <= Period
      BY <1>3 DEF MapsOK
    <3>2. made * Period \in Nat /\ now \in Nat /\ sleep \in Nat /\ MaxTime \in Nat /\ Period \in Nat
      BY <1>3, LimiterAssumption DEF MapsOK
    <3> QED
      BY <3>1, <3>2
  <2>2. \A m, p, t \in Nat : p > 0 /\ m * p <= t + p => m <= t \div p + 1
    <3> SUFFICES ASSUME NEW m \in Nat, NEW p \in Nat, NEW t \in Nat, p > 0, m * p <= t + p,
                        ~(m <= t \div p + 1)
                 PROVE  FALSE
      OBVIOUS
    <3>1. PICK q \in Nat : q = t \div p
      OBVIOUS
    <3>2. t < p * q + p
      BY <3>1
    <3>3. m >= q + 2
      BY <3>1
    <3>4. m * p >= (q + 2) * p
      BY <3>3
    <3>5. (q + 2) * p = p * q + p + p
      OBVIOUS
    <3>6. p * q \in Nat /\ m * p \in Nat
      OBVIOUS
    <3> QED
      BY <3>2, <3>4, <3>5, <3>6
  <2>3. made <= MaxTime \div Period + 1 /\ made \in Nat
    <3>1. made \in Nat /\ Period \in Nat /\ MaxTime \in Nat /\ Period > 0
      BY <1>3, LimiterAssumption DEF MapsOK
    <3> QED
      BY <2>1, <2>2, <3>1
  <2>4. MaxTime \div Period \in Int
    BY LimiterAssumption
  <2> QED
    BY <2>3, <2>4 DEF Limiters
<1> QED
  BY <1>1, <1>2, <1>3, PTL DEF Spec
=============================================================================
