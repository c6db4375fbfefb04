---------------------------- MODULE DagRegistryProofs ----------------------------
(***************************************************************************)
(* Theorems about DagRegistry, for every set of requests and models.       *)
(***************************************************************************)
EXTENDS DagRegistry, SequenceTheorems, TLAPS

LEMMA InitInvariant == Init => IInv
<1>1. SUFFICES ASSUME Init PROVE IInv
  OBVIOUS
<1>2. builtFor \in Seq(Config) /\ Len(builtFor) = 0
  BY <1>1 DEF Init
<1>3. TypeOK
  BY <1>1, <1>2 DEF Init, TypeOK
<1>4. QED
  BY <1>1, <1>3 DEF Init, OwnTopology, IInv

\* A step that builds nothing: what it reads, it reads for the right key.
LEMMA UnbuiltStep ==
  ASSUME IInv, TypeOK', builtFor' = builtFor, config' = config,
         \A r \in Request : pc'[r] = "executing" =>
           \/ pc[r] = "executing" /\ using'[r] = using[r]
           \/ Hit(r) /\ using'[r] = cached[Key(config[r])],
         buffered' \subseteq buffered,
         \A k \in Config : cached'[k] \in {0, cached[k]} \/ <<k, cached'[k]>> \in buffered
  PROVE  IInv'
<1>1. \A k \in Config : cached'[k] # 0 => Key(builtFor[cached'[k]]) = k
  BY DEF IInv, TypeOK
<1>2. OwnTopology'
  BY DEF IInv, TypeOK, OwnTopology, Hit, Key
<1>3. QED
  BY <1>1, <1>2 DEF IInv, Key

LEMMA BuildStep ==
  ASSUME IInv, NEW r \in Request, Build(r)
  PROVE  IInv'
<1> DEFINE id == Len(builtFor) + 1
<1>1. /\ config[r] \in Config /\ builtFor \in Seq(Config) /\ Len(builtFor) \in Nat
  BY DEF IInv, TypeOK
<1>2. /\ builtFor' \in Seq(Config) /\ Len(builtFor') = id
      /\ builtFor'[id] = config[r]
      /\ \A i \in 1..Len(builtFor) : builtFor'[i] = builtFor[i]
  BY <1>1, AppendProperties DEF Build
<1>3. TypeOK'
  <2>1. using' \in [Request -> 0..id] /\ cached' \in [Config -> 0..id]
    BY <1>1 DEF IInv, TypeOK, Build
  <2>2. buffered' \subseteq Config \X (1..id) /\ timers' \subseteq Config \X (1..id)
    BY <1>1 DEF IInv, TypeOK, Build, Key
  <2>3. pc' \in [Request -> {"lookup", "locking", "rechecking", "building", "executing",
                             "nilTopology", "done"}]
        /\ mutex' \in Request \cup {Nobody} /\ config' \in [Request -> Config]
    BY DEF IInv, TypeOK, Build
  <2>4. QED
    BY <1>2, <2>1, <2>2, <2>3 DEF TypeOK
<1>4. OwnTopology'
  <2>1. SUFFICES ASSUME NEW q \in Request, pc'[q] = "executing"
                 PROVE  using'[q] # 0 /\ builtFor'[using'[q]] = config'[q]
    BY DEF OwnTopology
  <2>2. CASE q = r
    BY <1>1, <1>2, <2>2 DEF Build, IInv, TypeOK
  <2>3. CASE q # r
    BY <1>1, <1>2, <2>1, <2>3 DEF Build, IInv, TypeOK, OwnTopology
  <2>4. QED
    BY <2>2, <2>3
<1>5. \A k \in Config : cached'[k] # 0 => Key(builtFor'[cached'[k]]) = k
  BY <1>1, <1>2 DEF IInv, TypeOK, Build, Key
<1>6. \A s \in buffered' : Key(builtFor'[s[2]]) = s[1]
  BY <1>1, <1>2 DEF IInv, TypeOK, Build, Key
<1>7. QED
  BY <1>3, <1>4, <1>5, <1>6 DEF IInv

LEMMA StepInvariant == IInv /\ [Next]_vars => IInv'
<1>1. SUFFICES ASSUME IInv, [Next]_vars PROVE IInv'
  OBVIOUS
<1> USE DEF IInv, TypeOK
<1>2. ASSUME NEW r \in Request, Lookup(r)
      PROVE  IInv'
  BY <1>1, <1>2, UnbuiltStep DEF Lookup, UseCached, Hit, Key
<1>3. ASSUME NEW r \in Request, Lock(r)
      PROVE  IInv'
  BY <1>1, <1>3, UnbuiltStep DEF Lock
<1>4. ASSUME NEW r \in Request, Recheck(r)
      PROVE  IInv'
  BY <1>1, <1>4, UnbuiltStep DEF Recheck, UseCached, Hit, Key
<1>5. ASSUME NEW r \in Request, Build(r)
      PROVE  IInv'
  BY <1>1, <1>5, BuildStep
<1>6. ASSUME NEW r \in Request, Reject(r) \/ Finish(r)
      PROVE  IInv'
  BY <1>1, <1>6, UnbuiltStep DEF Reject, Finish
<1>7. ASSUME NEW x \in buffered,
             buffered' = buffered \ {x}, cached' = [cached EXCEPT ![x[1]] = x[2]],
             UNCHANGED <<config, pc, mutex, builtFor, timers, using>>
      PROVE  IInv'
  <2>1. x[1] \in Config /\ x[2] \in 1..Len(builtFor) /\ x = <<x[1], x[2]>>
    BY <1>1
  <2>2. TypeOK'
    BY <1>1, <1>7, <2>1
  <2>3. \A k \in Config : cached'[k] \in {0, cached[k]} \/ <<k, cached'[k]>> \in buffered
    BY <1>1, <1>7, <2>1
  <2>4. QED
    BY <1>1, <1>7, <2>2, <2>3, UnbuiltStep
<1>8. ASSUME NEW k \in Config,
             cached' = [cached EXCEPT ![k] = 0] \/ cached' = cached,
             buffered' \subseteq buffered, timers' \subseteq timers,
             UNCHANGED <<config, pc, mutex, builtFor, using>>
      PROVE  IInv'
  <2>1. TypeOK'
    BY <1>1, <1>8
  <2>2. \A n \in Config : cached'[n] \in {0, cached[n]}
    BY <1>1, <1>8
  <2>3. QED
    BY <1>1, <1>8, <2>1, <2>2, UnbuiltStep
<1>9. ASSUME NEW t \in timers,
             timers' = timers \ {t}, cached' = [cached EXCEPT ![t[1]] = 0],
             buffered' = {s \in buffered : s[1] # t[1]},
             UNCHANGED <<config, pc, mutex, builtFor, using>>
      PROVE  IInv'
  <2>1. t[1] \in Config
    BY <1>1
  <2>2. QED
    BY <1>8, <1>9, <2>1
<1>12. CASE DropSet
  <2>1. PICK x \in buffered : buffered' = buffered \ {x}
    BY <1>12 DEF DropSet
  <2>2. x[1] \in Config /\ UNCHANGED <<config, pc, mutex, builtFor, cached, timers, using>>
    BY <1>1, <1>12 DEF DropSet
  <2>3. QED
    BY <1>8, <2>1, <2>2
<1>13. CASE ApplySet
  BY <1>7, <1>13 DEF ApplySet
<1>14. CASE Evict
  BY <1>8, <1>14 DEF Evict
<1>15. CASE TimerFires
  BY <1>9, <1>15 DEF TimerFires
<1>10. CASE UNCHANGED vars
  BY <1>1, <1>10, UnbuiltStep DEF vars
<1>11. QED
  BY <1>1, <1>2, <1>3, <1>4, <1>5, <1>6, <1>10, <1>12, <1>13, <1>14, <1>15 DEF Next, Handler, Over

\* A request executes a topology built for its own configuration, for any
\* number of requests and models.
THEOREM AlwaysOwnTopology == Spec => []OwnTopology
<1>1. IInv => OwnTopology
  BY DEF IInv
<1>2. QED
  BY <1>1, InitInvariant, StepInvariant, PTL DEF Spec

=============================================================================
