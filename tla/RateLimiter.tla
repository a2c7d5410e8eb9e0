---------------------------- MODULE RateLimiter ----------------------------
(***************************************************************************)
(* The limiter in front of an endpoint (internal/middleware/               *)
(* rate_limiter.go): a map from the address of a client to a token bucket, *)
(* looked up under a mutex; the bucket is asked after the mutex has been   *)
(* released, and every ten minutes the whole map is thrown away, whoever   *)
(* is using it.                                                            *)
(*                                                                         *)
(* Time passes in ticks.  A bucket gains one token in Every ticks, so its  *)
(* level is counted in parts of 1/Every of a token.                        *)
(***************************************************************************)
EXTENDS Naturals, Sequences, FiniteSets

CONSTANTS
  Addresses,  (* what ClientIP can give                                      *)
  Burst,      (* b: 5 for the auth limiter, 3 for the AI limiter             *)
  Every,      (* ticks to gain a token: 12 seconds and 6 seconds             *)
  Period,     (* ticks between two clean-ups: ten minutes                    *)
  MaxTime,    (* bound: ticks                                                *)
  MaxCalls,   (* bound: requests                                             *)
  None

ASSUME LimiterAssumption ==
  /\ Burst \in Nat \ {0} /\ Every \in Nat \ {0} /\ Period \in Nat \ {0}
  /\ MaxTime \in Nat /\ MaxCalls \in Nat
  /\ None \notin Nat

Full == Burst * Every

VARIABLES
  now,        (* the clock                                                   *)
  sleep,      (* ticks until the clean-up goroutine may wake up              *)
  made,       (* maps made so far                                            *)
  ips,        (* IPRateLimiter.ips: the map an address's limiter was made in,*)
              (* which names the limiter, or None                            *)
  level,      (* what a limiter <<address, map>> holds                       *)
  held,       (* how many requests of an address have got a limiter and not  *)
              (* asked it yet                                                *)
  calls,      (* requests so far                                             *)
  log         (* history: the answers, in order                              *)

vars == <<now, sleep, made, ips, level, held, calls, log>>

Limiters == Addresses \X (0 .. MaxTime \div Period + 1)

(* Some time after NewIPRateLimiter, when nobody has called for a while:   *)
(* every limiter of the map is full, as one yet to be made will be.        *)
Init ==
  /\ now = 0
  /\ sleep \in 0 .. Period
  /\ made = 0
  /\ ips = [a \in Addresses |-> None]
  /\ level = [l \in Limiters |-> Full]
  /\ held = [h \in Addresses \X Limiters |-> 0]
  /\ calls = 0
  /\ log = <<>>

-----------------------------------------------------------------------------

(* Mutant: the new limiter is not put in the map.                          *)
GetLimiter_NotKept(a) ==
  /\ calls < MaxCalls
  /\ calls' = calls + 1
  /\ \E l \in Limiters : /\ l[1] = a /\ level[l] = Full /\ held[<<a, l>>] = 0
                        /\ held' = [held EXCEPT ![<<a, l>>] = 1]
  /\ UNCHANGED <<now, sleep, made, ips, level, log>>

(* Mutant: one limiter for all addresses.                                  *)
GetLimiter_Shared(a) ==
  LET first == CHOOSE b \in Addresses : TRUE IN
  /\ calls < MaxCalls
  /\ calls' = calls + 1
  /\ ips' = [ips EXCEPT ![first] = IF @ = None THEN made ELSE @]
  /\ held' = [held EXCEPT ![<<a, <<first, ips'[first]>>>>] = @ + 1]
  /\ UNCHANGED <<now, sleep, made, level, log>>

(* GetLimiter, under the mutex: the limiter of the address, made full if   *)
(* the map has none.                                                       *)
GetLimiter(a) ==
  /\ calls < MaxCalls
  /\ calls' = calls + 1
  /\ ips' = [ips EXCEPT ![a] = IF @ = None THEN made ELSE @]
  /\ held' = [held EXCEPT ![<<a, <<a, ips'[a]>>>>] = @ + 1]
  /\ UNCHANGED <<now, sleep, made, level, log>>

(* What Allow leaves in a bucket: a token less, or all if there is none.   *)
Left(l) == IF level[l] >= Every THEN level[l] - Every ELSE level[l]

(* Allow, on a limiter that may be in the map no more; then the handler,   *)
(* or 429.                                                                 *)
Allow(a, l) ==
  /\ held[<<a, l>>] > 0
  /\ held' = [held EXCEPT ![<<a, l>>] = @ - 1]
  /\ level' = [level EXCEPT ![l] = Left(l)]
  /\ log' = Append(log, [from |-> a, time |-> now, ok |-> level[l] >= Every,
                         got |-> l[2], map |-> made])
  /\ UNCHANGED <<now, sleep, made, ips, calls>>

Gain(l) == IF level[l] < Full THEN level[l] + 1 ELSE Full

Tick ==
  /\ now < MaxTime
  /\ now' = now + 1
  /\ sleep' = IF sleep = 0 THEN 0 ELSE sleep - 1
  /\ level' = [l \in Limiters |-> Gain(l)]
  /\ UNCHANGED <<made, ips, held, calls, log>>

(* The clean-up wakes up, at once or late, and makes a new map.            *)
CleanUp ==
  /\ sleep = 0
  /\ sleep' = Period
  /\ made' = made + 1
  /\ ips' = [a \in Addresses |-> None]
  /\ UNCHANGED <<now, level, held, calls, log>>

Next ==
  \/ \E a \in Addresses : GetLimiter(a)
  \/ \E a \in Addresses, l \in Limiters : Allow(a, l)
  \/ Tick
  \/ CleanUp

Spec == Init /\ [][Next]_vars

-----------------------------------------------------------------------------
(* Properties.                                                             *)

Allowed(a, i, j) == {k \in i .. j : log[k].from = a /\ log[k].ok}

(* API_REFERENCE.md:66-67, "5 request / 12 detik per IP" and "3 request /  *)
(* 6 detik per IP": in less than the time of one token an address gets no  *)
(* more than the burst through, and one burst more for each clean-up since *)
(* the limiters used were looked up, which is all a clean-up costs even if *)
(* requests still hold limiters of the old map.                            *)
WithinTheLimit ==
  \A a \in Addresses : \A i, j \in DOMAIN log :
    LET in == Allowed(a, i, j) IN
    in # {} /\ log[j].time - log[i].time < Every =>
      \A k \in in :
        (\A n \in in : log[k].got <= log[n].got) =>
          Cardinality(in) <= Burst * (1 + log[j].map - log[k].got)

(* Who is refused has used up what the address was due: counted from some  *)
(* request that was let through, one more would be more than a burst and   *)
(* the tokens gained since.  Other addresses, refusals and clean-ups cost  *)
(* nobody anything.                                                        *)
RefusedOnlyIfSpent ==
  \A j \in DOMAIN log : ~log[j].ok =>
    \E i \in Allowed(log[j].from, 1, j) :
      (Cardinality(Allowed(log[j].from, i, j)) + 1 - Burst) * Every > log[j].time - log[i].time
=============================================================================
