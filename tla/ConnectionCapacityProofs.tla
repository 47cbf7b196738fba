---------------------- MODULE ConnectionCapacityProofs ----------------------
(***************************************************************************)
(* Proofs that the admission of connections counts what is held and keeps  *)
(* its limits, for every number of calls and identities and every limit.   *)
(***************************************************************************)
EXTENDS ConnectionCapacity, FiniteSetTheorems, TLAPS

\* The counters that acquire compares stay within what it compares them with.
SharesHold ==
    /\ total <= MaximumTotal
    /\ retainedTotal <= RetainedShare(MaximumTotal)
    /\ \A i \in Identities :
         /\ byIdentity[i] <= MaximumPerIdentity
         /\ retainedByIdentity[i] <= RetainedShare(MaximumPerIdentity)

CapacityInv == CapacityTypeOK /\ PermitsAreCounted /\ SharesHold

-----------------------------------------------------------------------------
(* The sets that the counters count *)

\* Holders are clients, so every set that is counted is finite.
LEMMA FiniteHolders ==
  /\ IsFiniteSet(Holders) /\ IsFiniteSet(Leased) /\ IsFiniteSet(Retained)
  /\ \A i \in Identities : IsFiniteSet(HoldersOf(i)) /\ IsFiniteSet(RetainedOf(i))
  BY FS_Subset, CapacityAssumption
     DEF Holders, Leased, Retained, HoldersOf, RetainedOf

\* A call that holds nothing and stays without a permit changes no set.
LEMMA QuietSets ==
  ASSUME CapacityTypeOK, NEW c \in Clients, c \notin Holders,
         NEW q \in Permit, q.phase \notin {"opening", "leased"},
         permit' = [permit EXCEPT ![c] = q]
  PROVE  /\ Holders' = Holders /\ Leased' = Leased /\ Retained' = Retained
         /\ \A i \in Identities : /\ HoldersOf(i)' = HoldersOf(i)
                                  /\ RetainedOf(i)' = RetainedOf(i)
  BY DEF CapacityTypeOK, Holders, Leased, Retained, HoldersOf, RetainedOf

\* A permit that is taken enters the sets of its identity.
LEMMA TakeSets ==
  ASSUME CapacityTypeOK, NEW c \in Clients, c \notin Holders,
         NEW i \in Identities, NEW r \in BOOLEAN, Take(c, i, r)
  PROVE  /\ Holders' = Holders \cup {c}
         /\ Leased' = Leased
         /\ Retained' = IF r THEN Retained \cup {c} ELSE Retained
         /\ HoldersOf(i)' = HoldersOf(i) \cup {c}
         /\ RetainedOf(i)' = IF r THEN RetainedOf(i) \cup {c} ELSE RetainedOf(i)
         /\ \A j \in Identities \ {i} : /\ HoldersOf(j)' = HoldersOf(j)
                                        /\ RetainedOf(j)' = RetainedOf(j)
         /\ c \notin HoldersOf(i) /\ c \notin RetainedOf(i) /\ c \notin Retained
  BY DEF CapacityTypeOK, Take, Holders, Leased, Retained, HoldersOf, RetainedOf

\* A released permit leaves them.
LEMMA ReleaseSets ==
  ASSUME CapacityTypeOK, NEW c \in Holders,
         NEW i \in Identities, i = permit[c].identity,
         permit' = [permit EXCEPT ![c].phase = "idle", ![c].retained = FALSE]
  PROVE  /\ Holders' = Holders \ {c}
         /\ Leased' = Leased \ {c}
         /\ Retained' = Retained \ {c}
         /\ HoldersOf(i)' = HoldersOf(i) \ {c}
         /\ RetainedOf(i)' = RetainedOf(i) \ {c}
         /\ \A j \in Identities \ {i} : /\ HoldersOf(j)' = HoldersOf(j)
                                        /\ RetainedOf(j)' = RetainedOf(j)
         /\ c \in HoldersOf(i)
         /\ c \in Leased <=> permit[c].phase = "leased"
         /\ c \in Retained <=> permit[c].retained
         /\ c \in RetainedOf(i) <=> permit[c].retained
  <1>1. /\ c \in Clients /\ permit[c] \in Permit
        /\ permit[c].phase \in {"opening", "leased"}
    BY DEF CapacityTypeOK, Holders
  <1>2. /\ \A d \in Clients \ {c} : permit'[d] = permit[d]
        /\ permit'[c].phase = "idle"
    BY <1>1 DEF CapacityTypeOK, Permit
  <1>3. Holders' = Holders \ {c}
    BY <1>1, <1>2 DEF Holders
  <1>4. /\ Leased' = Leased \ {c} /\ Retained' = Retained \ {c}
        /\ \A j \in Identities : /\ HoldersOf(j)' = HoldersOf(j) \ {c}
                                 /\ RetainedOf(j)' = RetainedOf(j) \ {c}
    <2>1. \A d \in Holders' : d \in Holders /\ permit'[d] = permit[d]
      BY <1>2, <1>3 DEF Holders
    <2>2. Leased' = Leased \ {c} /\ Retained' = Retained \ {c}
      BY <1>3, <2>1 DEF Leased, Retained
    <2>3. \A j \in Identities : HoldersOf(j)' = HoldersOf(j) \ {c}
      BY <1>3, <2>1 DEF HoldersOf
    <2>4. \A j \in Identities : RetainedOf(j)' = RetainedOf(j) \ {c}
      <3> SUFFICES ASSUME NEW j \in Identities
                   PROVE  RetainedOf(j)' = RetainedOf(j) \ {c}
        OBVIOUS
      <3>1. HoldersOf(j)' = HoldersOf(j) \ {c} /\ HoldersOf(j)' \subseteq Holders'
        BY <2>3 DEF HoldersOf
      <3>2. \A d \in HoldersOf(j)' : permit'[d] = permit[d]
        BY <2>1, <3>1
      <3> QED
        BY <3>1, <3>2 DEF RetainedOf
    <2> QED
      BY <2>2, <2>3, <2>4
  <1>6. \A j \in Identities \ {i} : c \notin HoldersOf(j) /\ c \notin RetainedOf(j)
    BY DEF HoldersOf, RetainedOf
  <1>7. /\ c \in HoldersOf(i)
        /\ c \in Leased <=> permit[c].phase = "leased"
        /\ c \in Retained <=> permit[c].retained
        /\ c \in RetainedOf(i) <=> permit[c].retained
    BY DEF HoldersOf, RetainedOf, Leased, Retained
  <1>8. \A j \in Identities \ {i} : /\ HoldersOf(j)' = HoldersOf(j)
                                    /\ RetainedOf(j)' = RetainedOf(j)
    <2> SUFFICES ASSUME NEW j \in Identities \ {i}
                 PROVE  HoldersOf(j)' = HoldersOf(j) /\ RetainedOf(j)' = RetainedOf(j)
      OBVIOUS
    <2>1. /\ HoldersOf(j)' = HoldersOf(j) \ {c} /\ RetainedOf(j)' = RetainedOf(j) \ {c}
          /\ c \notin HoldersOf(j) /\ c \notin RetainedOf(j)
      BY <1>4, <1>6
    <2> QED
      BY <2>1
  <1>9. HoldersOf(i)' = HoldersOf(i) \ {c} /\ RetainedOf(i)' = RetainedOf(i) \ {c}
    BY <1>4
  <1> QED
    BY <1>3, <1>4, <1>7, <1>8, <1>9

-----------------------------------------------------------------------------
(* Preservation *)

\* The first state holds nothing.
LEMMA CapacityInitInv ==
  ASSUME CapacityInit
  PROVE  CapacityInv
  <1>1. CapacityTypeOK
    BY DEF CapacityInit, CapacityTypeOK
  <1>2. /\ Holders = {} /\ Leased = {} /\ Retained = {}
        /\ \A i \in Identities : HoldersOf(i) = {} /\ RetainedOf(i) = {}
    BY DEF CapacityInit, Holders, Leased, Retained, HoldersOf, RetainedOf
  <1>3. PermitsAreCounted
    BY <1>2, FS_EmptySet DEF PermitsAreCounted, CapacityInit
  <1>4. SharesHold
    BY CapacityAssumption DEF SharesHold, CapacityInit, RetainedShare
  <1> QED
    BY <1>1, <1>3, <1>4 DEF CapacityInv

\* A step that leaves the counters alone and moves a call without a permit.
LEMMA QuietStep ==
  ASSUME CapacityInv, NEW c \in Clients, c \notin Holders,
         NEW q \in Permit, q.phase \notin {"opening", "leased"},
         permit' = [permit EXCEPT ![c] = q], UNCHANGED counters
  PROVE  CapacityInv'
  <1>1. CapacityTypeOK'
    BY DEF CapacityInv, CapacityTypeOK, counters
  <1>2. PermitsAreCounted'
    BY QuietSets DEF CapacityInv, PermitsAreCounted, counters
  <1>3. SharesHold'
    BY DEF CapacityInv, SharesHold, counters
  <1> QED
    BY <1>1, <1>2, <1>3 DEF CapacityInv

\* A granted permit is counted once in each counter it belongs to, and only
\* where there was room.
LEMMA GrantStep ==
  ASSUME CapacityInv, NEW c \in Clients, c \notin Holders,
         NEW i \in Identities, NEW r \in BOOLEAN, Grant(c, i, r)
  PROVE  CapacityInv'
  <1> USE DEF CapacityInv
  <1>0. Take(c, i, r) /\ Reached(i, r) = "none"
    BY DEF Grant
  <1>1. /\ permit' = [permit EXCEPT ![c] = [phase |-> "opening", identity |-> i,
                                            retained |-> r]]
        /\ total' = total + 1 /\ connected' = connected
        /\ byIdentity' = [byIdentity EXCEPT ![i] = @ + 1]
        /\ retainedTotal' = IF r THEN retainedTotal + 1 ELSE retainedTotal
        /\ retainedByIdentity' = IF r THEN [retainedByIdentity EXCEPT ![i] = @ + 1]
                                 ELSE retainedByIdentity
    BY <1>0 DEF Take
  <1>2. CapacityTypeOK'
    BY <1>1 DEF CapacityTypeOK, Permit, Phases
  <1>3. PermitsAreCounted'
    <2>1. /\ Cardinality(Holders') = total + 1
          /\ Cardinality(HoldersOf(i)') = byIdentity[i] + 1
          /\ Cardinality(Leased') = connected
      BY <1>0, TakeSets, FiniteHolders, FS_AddElement DEF PermitsAreCounted
    <2>2. /\ Cardinality(Retained') = IF r THEN retainedTotal + 1 ELSE retainedTotal
          /\ Cardinality(RetainedOf(i)') = IF r THEN retainedByIdentity[i] + 1
                                           ELSE retainedByIdentity[i]
      BY <1>0, TakeSets, FiniteHolders, FS_AddElement, SMTT(15), Z3T(15), ZenonT(40) DEF PermitsAreCounted
    <2>3. \A j \in Identities \ {i} :
            /\ Cardinality(HoldersOf(j)') = byIdentity[j]
            /\ Cardinality(RetainedOf(j)') = retainedByIdentity[j]
      BY <1>0, TakeSets DEF PermitsAreCounted
    <2>4. \A j \in Identities : /\ byIdentity'[j] = Cardinality(HoldersOf(j)')
                                /\ retainedByIdentity'[j] = Cardinality(RetainedOf(j)')
      BY <1>1, <2>1, <2>2, <2>3 DEF CapacityTypeOK
    <2> QED
      BY <1>1, <2>1, <2>2, <2>4 DEF PermitsAreCounted
  <1>4. SharesHold'
    <2>1. /\ byIdentity[i] < MaximumPerIdentity /\ total < MaximumTotal
          /\ r => /\ retainedByIdentity[i] < RetainedShare(MaximumPerIdentity)
                  /\ retainedTotal < RetainedShare(MaximumTotal)
      BY <1>0, CapacityAssumption DEF Reached, RetainedShare, CapacityTypeOK
    <2>2. RetainedShare(MaximumPerIdentity) \in Nat /\ RetainedShare(MaximumTotal) \in Nat
      BY CapacityAssumption DEF RetainedShare
    <2> QED
      BY <1>1, <2>1, <2>2, CapacityAssumption DEF SharesHold, CapacityTypeOK
  <1> QED
    BY <1>2, <1>3, <1>4

\* A released permit is counted down once in each counter it belongs to; the
\* early return of release is never taken.
LEMMA ReleaseStep ==
  ASSUME CapacityInv, NEW c \in Holders,
         Release(c, permit[c].phase = "leased")
  PROVE  CapacityInv'
  <1> USE DEF CapacityInv
  <1> DEFINE r == permit[c].retained
             w == permit[c].phase = "leased"
  <1>0. c \in Clients /\ permit[c] \in Permit
    BY DEF CapacityTypeOK, Holders
  <1>b. PICK i \in Identities : i = permit[c].identity
    BY <1>0 DEF Permit
  <1>1. c \in Clients /\ i \in Identities /\ r \in BOOLEAN /\ w \in BOOLEAN
    BY <1>0 DEF Permit
  <1>2. permit' = [permit EXCEPT ![c].phase = "idle", ![c].retained = FALSE]
    BY DEF Release
  <1>3. /\ Holders' = Holders \ {c} /\ Leased' = Leased \ {c}
        /\ Retained' = Retained \ {c}
        /\ HoldersOf(i)' = HoldersOf(i) \ {c}
        /\ RetainedOf(i)' = RetainedOf(i) \ {c}
        /\ \A j \in Identities \ {i} : /\ HoldersOf(j)' = HoldersOf(j)
                                       /\ RetainedOf(j)' = RetainedOf(j)
        /\ c \in HoldersOf(i)
        /\ c \in Leased <=> w
        /\ c \in Retained <=> r
        /\ c \in RetainedOf(i) <=> r
    BY <1>b, <1>2, ReleaseSets
  <1>4. /\ Cardinality(Holders') = total - 1
        /\ Cardinality(Leased') = IF w THEN connected - 1 ELSE connected
        /\ Cardinality(Retained') = IF r THEN retainedTotal - 1 ELSE retainedTotal
    BY <1>3, FiniteHolders, FS_RemoveElement DEF PermitsAreCounted
  <1>5. /\ Cardinality(HoldersOf(i)') = byIdentity[i] - 1
        /\ Cardinality(RetainedOf(i)') = IF r THEN retainedByIdentity[i] - 1
                                         ELSE retainedByIdentity[i]
    <2>1. IsFiniteSet(HoldersOf(i)) /\ IsFiniteSet(RetainedOf(i))
      BY <1>1, FiniteHolders
    <2>2. /\ byIdentity[i] = Cardinality(HoldersOf(i))
          /\ retainedByIdentity[i] = Cardinality(RetainedOf(i))
      BY <1>1 DEF PermitsAreCounted
    <2> HIDE DEF r, w
    <2>5. /\ Cardinality(HoldersOf(i) \ {c}) =
               IF c \in HoldersOf(i) THEN byIdentity[i] - 1 ELSE byIdentity[i]
          /\ Cardinality(RetainedOf(i) \ {c}) =
               IF c \in RetainedOf(i) THEN retainedByIdentity[i] - 1
               ELSE retainedByIdentity[i]
      BY <2>1, <2>2, FS_RemoveElement
    <2>3. Cardinality(HoldersOf(i)') = byIdentity[i] - 1
      BY <1>3, <2>5, Zenon
    <2>4. Cardinality(RetainedOf(i)') = IF r THEN retainedByIdentity[i] - 1
                                        ELSE retainedByIdentity[i]
      BY <1>3, <2>5, Zenon
    <2> QED
      BY <2>3, <2>4
  <1>6. /\ Cardinality(Holders') \in Nat /\ Cardinality(Leased') \in Nat
        /\ Cardinality(Retained') \in Nat
        /\ Cardinality(HoldersOf(i)') \in Nat /\ Cardinality(RetainedOf(i)') \in Nat
    BY <1>1, <1>3, FiniteHolders, FS_RemoveElement, FS_CardinalityType
  <1>7. byIdentity[i] \in Nat /\ retainedByIdentity[i] \in Nat
    BY <1>1 DEF CapacityTypeOK
  <1>8. byIdentity[i] > 0 /\ (r => retainedByIdentity[i] > 0)
    BY <1>5, <1>6, <1>7
  <1>9. /\ total' = total - 1
        /\ connected' = IF w THEN connected - 1 ELSE connected
        /\ byIdentity' = [byIdentity EXCEPT ![i] = @ - 1]
        /\ retainedTotal' = IF r THEN retainedTotal - 1 ELSE retainedTotal
        /\ retainedByIdentity' = IF r THEN [retainedByIdentity EXCEPT ![i] = @ - 1]
                                 ELSE retainedByIdentity
    BY <1>b, <1>7, <1>8 DEF Release
  <1> HIDE DEF r, w
  <1>10. \A j \in Identities :
           /\ byIdentity'[j] = Cardinality(HoldersOf(j)')
           /\ retainedByIdentity'[j] = Cardinality(RetainedOf(j)')
    <2>1. \A j \in Identities \ {i} :
            /\ Cardinality(HoldersOf(j)') = byIdentity[j]
            /\ Cardinality(RetainedOf(j)') = retainedByIdentity[j]
      BY <1>3 DEF PermitsAreCounted
    <2>2. /\ byIdentity \in [Identities -> Nat]
          /\ retainedByIdentity \in [Identities -> Nat]
      BY DEF CapacityTypeOK
    <2>3. \A j \in Identities \ {i} : /\ byIdentity'[j] = byIdentity[j]
                                      /\ retainedByIdentity'[j] = retainedByIdentity[j]
      BY <1>9, <2>2
    <2>4. /\ byIdentity'[i] = Cardinality(HoldersOf(i)')
          /\ retainedByIdentity'[i] = Cardinality(RetainedOf(i)')
      BY <1>1, <1>5, <1>9, <2>2
    <2> QED
      BY <2>1, <2>3, <2>4
  <1>11. PermitsAreCounted'
    BY <1>4, <1>9, <1>10 DEF PermitsAreCounted
  <1>12. CapacityTypeOK'
    <2>1. permit' \in [Clients -> Permit]
      BY <1>1, <1>2 DEF CapacityTypeOK, Permit, Phases
    <2>2. total' \in Nat /\ connected' \in Nat /\ retainedTotal' \in Nat
      BY <1>4, <1>6, <1>9
    <2>3. /\ byIdentity' \in [Identities -> Nat]
          /\ retainedByIdentity' \in [Identities -> Nat]
      BY <1>1, <1>7, <1>8, <1>9 DEF CapacityTypeOK
    <2> QED
      BY <2>1, <2>2, <2>3 DEF CapacityTypeOK
  <1>13. SharesHold'
    <2>1. RetainedShare(MaximumPerIdentity) \in Nat /\ RetainedShare(MaximumTotal) \in Nat
      BY CapacityAssumption DEF RetainedShare
    <2> QED
      BY <1>1, <1>7, <1>9, <2>1, CapacityAssumption DEF SharesHold, CapacityTypeOK
  <1> QED
    BY <1>11, <1>12, <1>13

\* A connection that opens is counted as connected.
LEMMA OpenedStep ==
  ASSUME CapacityInv, NEW c \in Clients, Opened(c)
  PROVE  CapacityInv'
  <1> USE DEF CapacityInv
  <1>1. /\ permit[c].phase = "opening"
        /\ permit' = [permit EXCEPT ![c].phase = "leased"]
        /\ connected' = connected + 1
        /\ UNCHANGED <<total, byIdentity, retainedTotal, retainedByIdentity>>
    BY DEF Opened
  <1>2. /\ Holders' = Holders /\ Retained' = Retained
        /\ \A i \in Identities : /\ HoldersOf(i)' = HoldersOf(i)
                                 /\ RetainedOf(i)' = RetainedOf(i)
        /\ Leased' = Leased \cup {c} /\ c \notin Leased
    BY <1>1 DEF CapacityTypeOK, Permit, Holders, Leased, Retained, HoldersOf, RetainedOf
  <1>3. Cardinality(Leased') = connected + 1
    BY <1>2, FiniteHolders, FS_AddElement DEF PermitsAreCounted
  <1>4. PermitsAreCounted'
    BY <1>1, <1>2, <1>3 DEF PermitsAreCounted
  <1>5. CapacityTypeOK'
    BY <1>1 DEF CapacityTypeOK, Permit, Phases
  <1>6. SharesHold'
    BY <1>1 DEF SharesHold
  <1> QED
    BY <1>4, <1>5, <1>6

\* After a restart nothing is held and nothing is counted.
LEMMA RestartStep ==
  ASSUME CapacityInv, CapacityRestart
  PROVE  CapacityInv'
  <1>1. CapacityTypeOK'
    <2>1. \A c \in Clients : permit[c] \in Permit
      BY DEF CapacityInv, CapacityTypeOK
    <2>2. permit' \in [Clients -> Permit]
      BY <2>1 DEF CapacityRestart, Permit, Phases
    <2> QED
      BY <2>2 DEF CapacityRestart, CapacityTypeOK
  <1>2. \A c \in Clients : permit'[c].phase = "idle"
    <2>1. \A c \in Clients : permit[c] \in Permit
      BY DEF CapacityInv, CapacityTypeOK
    <2>2. \A c \in Clients : permit'[c] = [permit[c] EXCEPT !.phase = "idle",
                                                           !.retained = FALSE]
      BY DEF CapacityRestart
    <2> QED
      BY <2>1, <2>2 DEF Permit
  <1>3. /\ Holders' = {} /\ Leased' = {} /\ Retained' = {}
        /\ \A i \in Identities : HoldersOf(i)' = {} /\ RetainedOf(i)' = {}
    BY <1>2 DEF Holders, Leased, Retained, HoldersOf, RetainedOf
  <1>4. PermitsAreCounted'
    BY <1>3, FS_EmptySet DEF PermitsAreCounted, CapacityRestart
  <1>5. SharesHold'
    <2>1. 0 <= RetainedShare(MaximumPerIdentity) /\ 0 <= RetainedShare(MaximumTotal)
      BY CapacityAssumption DEF RetainedShare
    <2>2. /\ total' = 0 /\ retainedTotal' = 0
          /\ \A i \in Identities : byIdentity'[i] = 0 /\ retainedByIdentity'[i] = 0
      BY DEF CapacityRestart
    <2>3. 0 <= MaximumTotal /\ 0 <= MaximumPerIdentity
      BY CapacityAssumption
    <2> QED
      BY <2>1, <2>2, <2>3, Zenon DEF SharesHold
  <1> QED
    BY <1>1, <1>4, <1>5 DEF CapacityInv

\* Every step of an admission keeps the invariant.
LEMMA CapacityStep ==
  ASSUME CapacityInv, [CapacityNext]_capacityVars
  PROVE  CapacityInv'
  <1>1. ASSUME NEW c \in Clients, NEW i \in Identities, NEW r \in BOOLEAN,
               Connect(c, i, r)
        PROVE  CapacityInv'
    <2>1. c \notin Holders
      BY <1>1 DEF Connect, Holders
    <2>2. CASE Grant(c, i, r)
      BY <2>1, <2>2, GrantStep
    <2>3. CASE ~Grant(c, i, r)
      <3> DEFINE q == [phase |-> IF r THEN Reclaiming(i) ELSE "wait",
                       identity |-> i, retained |-> r]
      <3>1. permit' = [permit EXCEPT ![c] = q] /\ UNCHANGED counters
        BY <1>1, <2>3 DEF Connect
      <3>2. q \in Permit /\ q.phase \notin {"opening", "leased"}
        BY DEF Permit, Phases, Reclaiming
      <3> QED
        BY <2>1, <3>1, <3>2, QuietStep
    <2> QED
      BY <2>2, <2>3
  <1>2. ASSUME NEW c \in Clients, ReclaimerGave(c) \/ NothingToReclaim(c) \/ TimeOut(c)
        PROVE  CapacityInv'
    <2>1. c \notin Holders /\ UNCHANGED counters /\ permit[c] \in Permit
      BY <1>2 DEF ReclaimerGave, NothingToReclaim, TimeOut, Holders, CapacityInv,
                  CapacityTypeOK
    <2>2. PICK q \in Permit : /\ q.phase \notin {"opening", "leased"}
                              /\ permit' = [permit EXCEPT ![c] = q]
      <3>1. CASE ReclaimerGave(c)
        <4>1. permit' = [permit EXCEPT ![c] = [permit[c] EXCEPT !.phase = "retry"]]
          BY <3>1 DEF ReclaimerGave
        <4> QED
          BY <2>1, <4>1 DEF Permit, Phases
      <3>2. CASE NothingToReclaim(c)
        <4>1. permit' = [permit EXCEPT ![c] = [permit[c] EXCEPT !.phase = "wait"]]
          BY <3>2 DEF NothingToReclaim
        <4> QED
          BY <2>1, <4>1 DEF Permit, Phases
      <3>3. CASE TimeOut(c)
        <4>1. permit' = [permit EXCEPT ![c] = [permit[c] EXCEPT !.phase = "idle",
                                                                !.retained = FALSE]]
          BY <3>3 DEF TimeOut
        <4> QED
          BY <2>1, <4>1 DEF Permit, Phases
      <3> QED
        BY <1>2, <3>1, <3>2, <3>3
    <2> QED
      BY <2>1, <2>2, QuietStep
  <1>3. ASSUME NEW c \in Clients, RetryAfterReclaim(c)
        PROVE  CapacityInv'
    <2>1. c \notin Holders /\ permit[c] \in Permit /\ permit[c].identity \in Identities
      BY <1>3 DEF RetryAfterReclaim, Holders, CapacityInv, CapacityTypeOK, Permit
    <2>2. CASE Grant(c, permit[c].identity, TRUE)
      BY <2>1, <2>2, GrantStep
    <2>3. CASE ~Grant(c, permit[c].identity, TRUE)
      <3> DEFINE q == [permit[c] EXCEPT !.phase = Reclaiming(permit[c].identity)]
      <3>1. permit' = [permit EXCEPT ![c] = q] /\ UNCHANGED counters
        BY <1>3, <2>3 DEF RetryAfterReclaim
      <3>2. q \in Permit /\ q.phase \notin {"opening", "leased"}
        BY <2>1 DEF Permit, Phases, Reclaiming
      <3> QED
        BY <2>1, <3>1, <3>2, QuietStep
    <2> QED
      BY <2>2, <2>3
  <1>4. ASSUME NEW c \in Clients, Admit(c)
        PROVE  CapacityInv'
    <2>1. /\ c \notin Holders /\ permit[c].identity \in Identities
          /\ permit[c].retained \in BOOLEAN
          /\ Grant(c, permit[c].identity, permit[c].retained)
      BY <1>4 DEF Admit, Holders, CapacityInv, CapacityTypeOK, Permit
    <2> QED
      BY <2>1, GrantStep
  <1>5. ASSUME NEW c \in Clients, OpenFailed(c) \/ Close(c)
        PROVE  CapacityInv'
    <2>1. c \in Holders
      BY <1>5 DEF OpenFailed, Close, Holders
    <2>2. CASE OpenFailed(c)
      <3>1. Release(c, permit[c].phase = "leased")
        BY <2>2 DEF OpenFailed, Release
      <3> QED
        BY <2>1, <3>1, ReleaseStep
    <2>3. CASE Close(c)
      <3>1. Release(c, permit[c].phase = "leased")
        BY <2>3 DEF Close, Release
      <3> QED
        BY <2>1, <3>1, ReleaseStep
    <2> QED
      BY <1>5, <2>2, <2>3
  <1>6. CASE UNCHANGED capacityVars
    BY <1>6 DEF capacityVars, counters, CapacityInv, CapacityTypeOK, PermitsAreCounted,
                SharesHold, Holders, Leased, Retained, HoldersOf, RetainedOf
  <1> QED
    BY <1>1, <1>2, <1>3, <1>4, <1>5, <1>6, OpenedStep, RestartStep DEF CapacityNext

-----------------------------------------------------------------------------
(* Theorems *)

\* The counters of _ConnectionCapacity always count the permits that are held
\* and stay within what acquire compares them with.
THEOREM Capacity_Inv == CapacitySpec => []CapacityInv
  BY CapacityInitInv, CapacityStep, PTL DEF CapacitySpec

\* Every permit is counted exactly once, whatever fails, is reclaimed or times
\* out (_ConnectionCapacity.acquire, connected and release).
THEOREM Permits_Are_Counted == CapacitySpec => []PermitsAreCounted
  <1>1. CapacityInv => PermitsAreCounted
    BY DEF CapacityInv
  <1> QED
    BY <1>1, Capacity_Inv, PTL

\* No more connections are open or being opened than the configured limits.
THEOREM Limits_Hold == CapacitySpec => []LimitsHold
  <1>1. CapacityInv => LimitsHold
    BY DEF CapacityInv, PermitsAreCounted, SharesHold, LimitsHold
  <1> QED
    BY <1>1, Capacity_Inv, PTL

\* While only retained sessions hold permits an ordinary call finds room.
THEOREM Slot_For_Ordinary_Work == CapacitySpec => []SlotForOrdinaryWork
  <1>1. CapacityInv => SlotForOrdinaryWork
    <2> SUFFICES ASSUME CapacityInv, MaximumPerIdentity > 1, NEW i \in Identities,
                        Holders = Retained
                 PROVE  Reached(i, FALSE) = "none"
      BY DEF SlotForOrdinaryWork
    <2>1. HoldersOf(i) = RetainedOf(i)
      BY DEF HoldersOf, RetainedOf, Retained
    <2>2. total = retainedTotal /\ byIdentity[i] = retainedByIdentity[i]
      BY <2>1 DEF CapacityInv, PermitsAreCounted
    <2>3. /\ total <= MaximumTotal - 1 /\ byIdentity[i] <= MaximumPerIdentity - 1
          /\ total \in Nat /\ byIdentity[i] \in Nat
      BY <2>2, CapacityAssumption DEF CapacityInv, CapacityTypeOK, SharesHold, RetainedShare
    <2> QED
      BY <2>3, CapacityAssumption DEF Reached
  <1> QED
    BY <1>1, Capacity_Inv, PTL
=============================================================================
