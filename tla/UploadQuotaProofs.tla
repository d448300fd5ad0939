------------------------- MODULE UploadQuotaProofs -------------------------
(***************************************************************************)
(* Theorems of UploadQuota, for any number of uploads and deletes, any      *)
(* sizes, crashes and failing statements.                                   *)
(***************************************************************************)
EXTENDS UploadQuota, TLAPS, FiniteSetTheorems

(* Sums.  The fold that computes Bytes is a recursive function on the       *)
(* subsets of a set; a smallest counterexample shows each fact about it.    *)

Step(S, f) == [s \in SUBSET S |->
                 IF s = {} THEN 0
                 ELSE Size[CHOOSE x \in s : TRUE] + f[s \ {CHOOSE x \in s : TRUE}]]
Iter(S) == CHOOSE f : f = Step(S, f)

LEMMA BytesIsIter == ASSUME NEW S PROVE Bytes(S) = Iter(S)[S]
BY DEF Bytes, MapThenSumSet, MapThenFoldSet, Iter, Step

LEMMA SmallestSubset ==
  ASSUME NEW S, IsFiniteSet(S), NEW T \in SUBSET (SUBSET S), T # {}
  PROVE  \E m \in T : \A s \in T : s \subseteq m => s = m
<1>1. IsWellFoundedOn(StrictSubsetOrdering(S), SUBSET S)
  BY FS_StrictSubsetOrderingWellFounded, FS_FiniteSubsetsOfFinite
<1>2. PICK m \in T : \A s \in T : <<s, m>> \notin StrictSubsetOrdering(S)
  BY <1>1, WFMin, Zenon
<1>3. ASSUME NEW s \in T, s \subseteq m, s # m PROVE FALSE
  BY <1>2, <1>3 DEF StrictSubsetOrdering
<1> QED BY <1>3

LEMMA IterIsUnique ==
  ASSUME NEW S, IsFiniteSet(S), NEW f, f = Step(S, f), NEW R \in SUBSET S, NEW g, g = Step(R, g)
  PROVE  \A s \in SUBSET R : f[s] = g[s]
<1> DEFINE T == {s \in SUBSET R : f[s] # g[s]}
<1> SUFFICES ASSUME T # {} PROVE FALSE OBVIOUS
<1>1. PICK m \in T : \A s \in T : s \subseteq m => s = m
  <2>1. T \in SUBSET (SUBSET S) OBVIOUS
  <2> HIDE DEF T
  <2> QED BY <2>1, SmallestSubset
<1> DEFINE x == CHOOSE x \in m : TRUE
<1>2. m # {} BY <1>1 DEF Step
<1>3. x \in m BY <1>2
<1>4. f[m \ {x}] = g[m \ {x}] BY <1>1, <1>3
<1>5. f[m] = Size[x] + f[m \ {x}] /\ g[m] = Size[x] + g[m \ {x}]
  BY <1>1, <1>2 DEF Step
<1> QED BY <1>1, <1>4, <1>5

LEMMA IterExists ==
  ASSUME NEW S, IsFiniteSet(S)
  PROVE  Iter(S) = Step(S, Iter(S))
<1> DEFINE T == {s \in SUBSET S : ~ \E f : f = Step(s, f)}
<1>1. SUFFICES T = {}
  <2>1. \E f : f = Step(S, f) BY <1>1
  <2> QED BY <2>1 DEF Iter
<1> SUFFICES ASSUME T # {} PROVE FALSE OBVIOUS
<1>2. PICK m \in T : \A s \in T : s \subseteq m => s = m
  <2>1. T \in SUBSET (SUBSET S) OBVIOUS
  <2> HIDE DEF T
  <2> QED BY <2>1, SmallestSubset
<1>3. ASSUME NEW s \in SUBSET m, s # m PROVE IsFiniteSet(s) /\ Iter(s) = Step(s, Iter(s))
  <2>1. s \in SUBSET S /\ s \notin T BY <1>2, <1>3
  <2>2. \E f : f = Step(s, f) BY <2>1
  <2>3. IsFiniteSet(s) BY <2>1, FS_Subset
  <2> QED BY <2>2, <2>3 DEF Iter
<1> DEFINE pick(s) == CHOOSE x \in s : TRUE
           h == [s \in SUBSET m |-> IF s = {} THEN 0
                                    ELSE Size[pick(s)] + Iter(s \ {pick(s)})[s \ {pick(s)}]]
<1>4. ASSUME NEW r \in SUBSET m, r # m PROVE h[r] = Iter(r)[r]
  <2>1. Iter(r) = Step(r, Iter(r)) /\ IsFiniteSet(r) BY <1>3, <1>4
  <2>2. CASE r = {} BY <2>1, <2>2 DEF Step
  <2>3. CASE r # {}
    <3>1. pick(r) \in r BY <2>3
    <3> DEFINE q == r \ {pick(r)}
    <3>2. q \in SUBSET m /\ q # m /\ q \in SUBSET r BY <1>4, <3>1
    <3>3. Iter(q) = Step(q, Iter(q)) BY <1>3, <3>2
    <3>4. Iter(r)[q] = Iter(q)[q] BY <2>1, <3>2, <3>3, IterIsUnique
    <3>5. Iter(r)[r] = Size[pick(r)] + Iter(r)[q] BY <2>1, <2>3 DEF Step
    <3>6. h[r] = Size[pick(r)] + Iter(q)[q] BY <2>3
    <3> QED BY <3>4, <3>5, <3>6
  <2> QED BY <2>2, <2>3
<1>5. ASSUME NEW s \in SUBSET m, s # {} PROVE h[s \ {pick(s)}] = Iter(s \ {pick(s)})[s \ {pick(s)}]
  <2>1. pick(s) \in s BY <1>5
  <2>2. s \ {pick(s)} \in SUBSET m /\ s \ {pick(s)} # m BY <2>1
  <2> HIDE DEF pick, h
  <2> QED BY <1>4, <2>2
<1>6. h = Step(m, h)
  <2> DEFINE k == Step(m, h)
  <2>1. ASSUME NEW s \in SUBSET m PROVE h[s] = k[s]
    <3>1. CASE s = {} BY <3>1 DEF Step
    <3>2. CASE s # {}
      <4>1. h[s] = Size[pick(s)] + Iter(s \ {pick(s)})[s \ {pick(s)}] BY <3>2
      <4>2. k[s] = Size[pick(s)] + h[s \ {pick(s)}] BY <3>2 DEF Step
      <4> QED BY <1>5, <3>2, <4>1, <4>2
    <3> QED BY <3>1, <3>2
  <2>2. h = [s \in SUBSET m |-> h[s]] OBVIOUS
  <2>3. k = [s \in SUBSET m |-> k[s]] BY DEF Step
  <2> HIDE DEF h, k
  <2>4. h = k BY <2>1, <2>2, <2>3
  <2> QED BY <2>4 DEF k
<1> QED BY <1>2, <1>6

LEMMA BytesUnfold ==
  ASSUME NEW S, IsFiniteSet(S), S # {}
  PROVE  \E x \in S : Bytes(S) = Size[x] + Bytes(S \ {x})
<1> DEFINE x == CHOOSE x \in S : TRUE
           R == S \ {x}
<1>1. x \in S OBVIOUS
<1>2. IsFiniteSet(R) /\ R \in SUBSET S BY FS_Subset
<1>3. Iter(S) = Step(S, Iter(S)) /\ Iter(R) = Step(R, Iter(R)) BY <1>2, IterExists
<1>4. Iter(S)[S] = Size[x] + Iter(S)[R] BY <1>3 DEF Step
<1>5. Iter(S)[R] = Iter(R)[R] BY <1>2, <1>3, IterIsUnique
<1> HIDE DEF x, R
<1>6. Bytes(S) = Size[x] + Bytes(R) BY <1>4, <1>5, BytesIsIter
<1> QED BY <1>1, <1>6 DEF R

LEMMA BytesEmpty == Bytes({}) = 0
<1>1. Iter({}) = Step({}, Iter({})) BY FS_EmptySet, IterExists
<1> QED BY <1>1, BytesIsIter DEF Step

\* The sum does not depend on the order in which the fold takes the elements.
LEMMA BytesRemove ==
  ASSUME NEW S \in SUBSET Uploads, IsFiniteSet(S)
  PROVE  Bytes(S) \in Nat /\ \A u \in S : Bytes(S) = Size[u] + Bytes(S \ {u})
<1> DEFINE Good(s) == Bytes(s) \in Nat /\ \A u \in s : Bytes(s) = Size[u] + Bytes(s \ {u})
           T == {s \in SUBSET S : ~Good(s)}
<1> SUFFICES ASSUME T # {} PROVE FALSE OBVIOUS
<1>1. PICK m \in T : \A s \in T : s \subseteq m => s = m
  <2>1. T \in SUBSET (SUBSET S) OBVIOUS
  <2> HIDE DEF T
  <2> QED BY <2>1, SmallestSubset
<1>2. m # {}
  <2>1. Good({}) BY BytesEmpty
  <2> QED BY <1>1, <2>1
<1>3. IsFiniteSet(m) /\ m \in SUBSET Uploads BY <1>1, FS_Subset
<1>4. \A s \in SUBSET m : s # m => Good(s) BY <1>1
<1>5. PICK x \in m : Bytes(m) = Size[x] + Bytes(m \ {x}) BY <1>2, <1>3, BytesUnfold
<1> HIDE DEF Good
<1>6. \A u \in m : Good(m \ {u}) BY <1>4
<1>7. \A u \in m : Size[u] \in Nat BY <1>3, SizeAssumption
<1>8. ASSUME NEW u \in m PROVE Bytes(m) = Size[u] + Bytes(m \ {u})
  <2>1. CASE u = x BY <1>5, <2>1
  <2>2. CASE u # x
    <3>1. Bytes(m \ {x}) = Size[u] + Bytes((m \ {x}) \ {u}) BY <1>6, <2>2 DEF Good
    <3>2. Bytes(m \ {u}) = Size[x] + Bytes((m \ {u}) \ {x}) BY <1>6, <2>2 DEF Good
    <3>3. (m \ {x}) \ {u} = (m \ {u}) \ {x} OBVIOUS
    <3> DEFINE q == (m \ {u}) \ {x}
    <3>4. Good(q) BY <1>4, <1>5
    <3>5. Bytes(q) \in Nat BY <3>4 DEF Good
    <3>6. Bytes(m \ {x}) = Size[u] + Bytes(q) /\ Bytes(m \ {u}) = Size[x] + Bytes(q)
      BY <3>1, <3>2, <3>3
    <3> HIDE DEF q
    <3> QED BY <1>5, <1>7, <3>5, <3>6
  <2> QED BY <2>1, <2>2
<1>9. Bytes(m) \in Nat BY <1>5, <1>6, <1>7 DEF Good
<1> QED BY <1>1, <1>8, <1>9 DEF Good

LEMMA BytesAdd ==
  ASSUME NEW S \in SUBSET Uploads, IsFiniteSet(S), NEW u \in Uploads, u \notin S
  PROVE  Bytes(S \cup {u}) = Bytes(S) + Size[u]
<1> DEFINE R == S \cup {u}
<1>1. R \in SUBSET Uploads /\ IsFiniteSet(R) /\ u \in R /\ R \ {u} = S
  BY FS_AddElement
<1> HIDE DEF R
<1>2. Bytes(R) = Size[u] + Bytes(S) BY <1>1, BytesRemove
<1>3. Bytes(S) \in Nat /\ Size[u] \in Nat BY BytesRemove, SizeAssumption
<1> QED BY <1>2, <1>3 DEF R

LEMMA BytesMono ==
  ASSUME NEW S \in SUBSET Uploads, IsFiniteSet(S), NEW R \in SUBSET S
  PROVE  Bytes(R) <= Bytes(S)
<1> DEFINE T == {s \in SUBSET S : R \subseteq s /\ ~(Bytes(R) <= Bytes(s))}
<1> SUFFICES ASSUME T # {} PROVE FALSE OBVIOUS
<1>1. PICK m \in T : \A s \in T : s \subseteq m => s = m
  <2>1. T \in SUBSET (SUBSET S) OBVIOUS
  <2> HIDE DEF T
  <2> QED BY <2>1, SmallestSubset
<1>2. IsFiniteSet(m) /\ m \in SUBSET Uploads BY <1>1, FS_Subset
<1>3. Bytes(m) \in Nat BY <1>2, BytesRemove
<1>4. PICK u \in m : u \notin R
  <2>1. m # R BY <1>1, <1>3
  <2> QED BY <1>1, <2>1
<1> DEFINE q == m \ {u}
<1>5. q \in SUBSET S /\ R \subseteq q /\ q \subseteq m /\ q # m /\ IsFiniteSet(q)
  BY <1>1, <1>2, <1>4, FS_Subset
<1>6. Bytes(R) <= Bytes(q)
  <2>1. q \notin T BY <1>1, <1>5
  <2> HIDE DEF q
  <2> QED BY <1>5, <2>1
<1>7. Bytes(m) = Size[u] + Bytes(q) /\ Bytes(q) \in Nat /\ Size[u] \in Nat
  BY <1>2, <1>5, BytesRemove, SizeAssumption
<1>8. IsFiniteSet(R) /\ R \in SUBSET Uploads BY FS_Subset
<1>9. Bytes(R) \in Nat BY <1>8, BytesRemove
<1>10. ~(Bytes(R) <= Bytes(m)) BY <1>1
<1> HIDE DEF q
<1> QED BY <1>6, <1>7, <1>9, <1>10

LEMMA BytesSplit ==
  ASSUME NEW S \in SUBSET Uploads, IsFiniteSet(S), NEW R \in SUBSET Uploads, IsFiniteSet(R),
         S \cap R = {}
  PROVE  Bytes(S \cup R) = Bytes(S) + Bytes(R)
<1> DEFINE T == {q \in SUBSET R : Bytes(S \cup q) # Bytes(S) + Bytes(q)}
<1> SUFFICES ASSUME T # {} PROVE FALSE OBVIOUS
<1>1. PICK m \in T : \A q \in T : q \subseteq m => q = m
  <2>1. T \in SUBSET (SUBSET R) OBVIOUS
  <2> HIDE DEF T
  <2> QED BY <2>1, SmallestSubset
<1>2. Bytes(S) \in Nat BY BytesRemove
<1>3. PICK u \in m : TRUE
  <2> SUFFICES ASSUME m = {} PROVE FALSE OBVIOUS
  <2>1. S \cup m = S OBVIOUS
  <2>2. Bytes(S \cup m) = Bytes(S) /\ Bytes(m) = 0 BY <2>1, BytesEmpty
  <2>3. Bytes(S \cup m) # Bytes(S) + Bytes(m) BY <1>1
  <2> QED BY <1>2, <2>2, <2>3
<1> DEFINE q == m \ {u}  B == S \cup q
<1>4. q \in SUBSET R /\ q \subseteq m /\ q # m /\ m = q \cup {u} /\ u \notin q /\ u \in Uploads
  BY <1>1, <1>3
<1>5. Bytes(S \cup q) = Bytes(S) + Bytes(q)
  <2>1. q \notin T BY <1>1, <1>4
  <2> HIDE DEF q
  <2> QED BY <1>4, <2>1
<1>6. IsFiniteSet(q) /\ IsFiniteSet(B) /\ B \in SUBSET Uploads /\ u \notin B
  <2>1. IsFiniteSet(q) BY <1>4, FS_Subset
  <2> QED BY <1>1, <1>4, <2>1, FS_Union
<1>7. q \in SUBSET Uploads BY <1>4
<1> HIDE DEF q
<1>8. Bytes(m) = Bytes(q) + Size[u] /\ Bytes(q) \in Nat BY <1>4, <1>6, <1>7, BytesAdd, BytesRemove
<1>9. S \cup m = B \cup {u} BY <1>4
<1>10. Bytes(B) = Bytes(S) + Bytes(q) BY <1>5
<1> HIDE DEF B
<1>11. Bytes(S \cup m) = Bytes(B) + Size[u] BY <1>4, <1>6, <1>9, BytesAdd
<1>12. Size[u] \in Nat BY <1>4, SizeAssumption
<1>13. Bytes(S \cup m) = Bytes(S) + Bytes(m) BY <1>2, <1>8, <1>10, <1>11, <1>12
<1> QED BY <1>1, <1>13

-----------------------------------------------------------------------------
(* The rows and the deletes.                                                *)

Shape == TypeOK /\ RowInv /\ DeleteInv /\ SizeInv

LEMMA QuotaInit == Init => QuotaInv
<1> SUFFICES ASSUME Init PROVE QuotaInv OBVIOUS
<1> USE SizeAssumption, QuotaAssumption DEF Init
<1>1. TypeOK BY DEF TypeOK
<1>2. RowInv
  <2>1. {u \in Uploads : up[u] # "idle"} = {} OBVIOUS
  <2> QED BY <2>1, FS_EmptySet DEF RowInv
<1>3. DeleteInv /\ SizeInv BY DEF DeleteInv, SizeInv
<1>4. Charged = {} /\ Credited = {} /\ Open = {} BY DEF Charged, Credited, Open
<1>5. AccountInv BY <1>4, BytesEmpty DEF AccountInv
<1>6. OpenInv
  <2>1. Charged \cup Open = {} BY <1>4
  <2> QED BY <1>4, <2>1, BytesEmpty DEF OpenInv
<1> QED BY <1>1, <1>2, <1>3, <1>5, <1>6 DEF QuotaInv

LEMMA UploadShape ==
  ASSUME Shape, NEW u \in Uploads, Upload(u)
  PROVE  Shape'
<1> USE SizeAssumption, QuotaAssumption DEF Shape, delVars, troubles
<1>1. CASE CheckQuota(u)
  <2> USE <1>1 DEF CheckQuota
  <2>1. TypeOK' BY DEF TypeOK
  <2>2. {v \in Uploads : up'[v] # "idle"} = {v \in Uploads : up[v] # "idle"} \cup {u}
    BY DEF TypeOK
  <2> DEFINE here == {v \in Uploads : up[v] # "idle"}
  <2>7. IsFiniteSet(here) BY DEF RowInv
  <2>8. IsFiniteSet(here \cup {u})
    <3> HIDE DEF here
    <3> QED BY <2>7, FS_AddElement
  <2>3. IsFiniteSet({v \in Uploads : up'[v] # "idle"}) BY <2>2, <2>8
  <2>4. RowInv' BY <2>3 DEF TypeOK, RowInv
  <2>5. DeleteInv' BY DEF TypeOK, RowInv, DeleteInv
  <2>6. SizeInv' BY DEF TypeOK, RowInv, DeleteInv, SizeInv
  <2> QED BY <2>1, <2>4, <2>5, <2>6
<1>2. CASE CreateVideo(u) \/ Assemble(u) \/ UpdateSizeBytes(u) \/ IncUsedBytes(u)
  <2> USE DEF CreateVideo, Assemble, UpdateSizeBytes, IncUsedBytes, NoFault, DbFault
  <2>1. TypeOK'
    <3>1. CASE CreateVideo(u) BY <3>1 DEF TypeOK
    <3>2. CASE Assemble(u) BY <3>2 DEF TypeOK
    <3>3. CASE UpdateSizeBytes(u) BY <3>3 DEF TypeOK
    <3>4. CASE IncUsedBytes(u) BY <3>4 DEF TypeOK
    <3> QED BY <1>2, <3>1, <3>2, <3>3, <3>4
  <2>2. {v \in Uploads : up'[v] # "idle"} = {v \in Uploads : up[v] # "idle"}
    BY <1>2 DEF TypeOK
  <2>3. IsFiniteSet({v \in Uploads : up'[v] # "idle"}) BY <2>2 DEF RowInv
  <2>4. RowInv'
    <3>1. CASE CreateVideo(u) BY <2>3, <3>1 DEF TypeOK, RowInv
    <3>2. CASE Assemble(u) BY <2>3, <3>2 DEF TypeOK, RowInv
    <3>3. CASE UpdateSizeBytes(u) BY <2>3, <3>3 DEF TypeOK, RowInv
    <3>4. CASE IncUsedBytes(u) BY <2>3, <3>4 DEF TypeOK, RowInv
    <3> QED BY <1>2, <3>1, <3>2, <3>3, <3>4
  <2>5. DeleteInv'
    <3>1. CASE CreateVideo(u) BY <3>1 DEF TypeOK, RowInv, DeleteInv
    <3>2. CASE Assemble(u) BY <3>2 DEF TypeOK, RowInv, DeleteInv
    <3>3. CASE UpdateSizeBytes(u) BY <3>3 DEF TypeOK, RowInv, DeleteInv
    <3>4. CASE IncUsedBytes(u) BY <3>4 DEF TypeOK, RowInv, DeleteInv
    <3> QED BY <1>2, <3>1, <3>2, <3>3, <3>4
  <2>6. SizeInv'
    <3>1. CASE CreateVideo(u) BY <3>1 DEF TypeOK, SizeInv
    <3>2. CASE Assemble(u) BY <3>2 DEF TypeOK, SizeInv
    <3>3. CASE UpdateSizeBytes(u)
      <4>1. "early" \notin habits /\ faults' = 0 /\ faults \in Nat => row[u] = "there" /\ faults' = faults
        BY <3>3 DEF TypeOK, RowInv, DeleteInv
      <4> QED BY <3>3, <4>1 DEF TypeOK, SizeInv
    <3>4. CASE IncUsedBytes(u)
      <4>1. /\ crashes' = 0 /\ faults' = 0 => crashes = 0 /\ faults = 0 /\ uncharged' = uncharged
            /\ up[u] = "sized" /\ up'[u] = "stored"
            /\ (\A v \in Uploads \ {u} : up'[v] = up[v]) /\ UNCHANGED <<habits, sizeCol, target, read>>
        <5>1. /\ up[u] = "sized" /\ up'[u] = "stored" /\ crashes' = crashes
              /\ (\A v \in Uploads \ {u} : up'[v] = up[v])
              /\ UNCHANGED <<habits, sizeCol, target, read>>
          BY <3>4 DEF TypeOK
        <5>2. \/ faults' = faults /\ uncharged' = uncharged
              \/ faults' = faults + 1
          BY <3>4
        <5>3. faults \in Nat BY DEF TypeOK
        <5> QED BY <5>1, <5>2, <5>3
      <4>2. "early" \notin habits => \A d \in Deletes : u \notin target[d] BY <4>1 DEF DeleteInv
      <4> SUFFICES ASSUME (crashes = 0 /\ faults = 0)' PROVE SizeInv' BY DEF SizeInv
      <4>3. uncharged' = {} BY <4>1 DEF SizeInv
      <4>4. ASSUME "early" \notin habits, NEW v \in Uploads, up'[v] \in {"sized", "stored"}
            PROVE  sizeCol[v] = Size[v]
        <5>1. up[v] \in {"sized", "stored"} BY <4>1, <4>4
        <5> QED BY <4>1, <4>4, <5>1 DEF SizeInv
      <4>5. ASSUME "early" \notin habits, NEW d \in Deletes, NEW v \in target[d], up'[v] = "stored"
            PROVE  read[d] = Size[v]
        <5>1. v \in Uploads \ {u} BY <4>2, <4>5 DEF TypeOK
        <5>2. up[v] = "stored" BY <4>1, <4>5, <5>1
        <5> QED BY <4>1, <4>5, <5>2 DEF SizeInv
      <4> QED BY <4>1, <4>3, <4>4, <4>5 DEF SizeInv
    <3> QED BY <1>2, <3>1, <3>2, <3>3, <3>4
  <2> QED BY <2>1, <2>4, <2>5, <2>6
<1> QED BY <1>1, <1>2 DEF Upload

LEMMA DeleteShape ==
  ASSUME Shape, NEW d \in Deletes, Delete(d)
  PROVE  Shape'
<1> USE SizeAssumption, QuotaAssumption DEF Shape, troubles
<1>1. CASE \E u \in Uploads : ReadForDelete(d, u)
  <2>1. PICK u \in Uploads : ReadForDelete(d, u) BY <1>1
  <2> USE <2>1 DEF ReadForDelete, MayDelete
  <2>2. target[d] = {} BY DEF TypeOK, DeleteInv
  <2>3. TypeOK' BY DEF TypeOK
  <2>5. ASSUME NEW e \in Deletes, e # d
        PROVE  target'[e] = target[e] /\ del'[e] = del[e] /\ read'[e] = read[e]
    BY <2>5 DEF TypeOK
  <2>6. target'[d] = {u} /\ del'[d] = "delete" /\ read'[d] = sizeCol[u] BY DEF TypeOK
  <2>4. RowInv'
    <3>1. \A v \in Uploads : row[v] = "deleted" => \E e \in Deletes : v \in target'[e]
      BY <2>2, <2>5 DEF RowInv
    <3> QED BY <3>1 DEF RowInv
  <2>7. "twice" \notin habits => \A e \in Deletes : u \in target[e] => del[e] = "done"
    OBVIOUS
  <2>8. DeleteInv' BY <2>2, <2>5, <2>6, <2>7 DEF TypeOK, RowInv, DeleteInv
  <2>9. SizeInv' BY <2>5, <2>6 DEF TypeOK, SizeInv
  <2> QED BY <2>3, <2>4, <2>8, <2>9
<1>2. CASE DeleteRow(d)
  <2> USE <1>2 DEF DeleteRow, NoFault, DbFault
  <2>1. TypeOK' BY DEF TypeOK
  <2>2. RowInv' BY DEF TypeOK, RowInv, DeleteInv
  <2>3. DeleteInv' BY DEF TypeOK, DeleteInv
  <2>4. SizeInv' BY DEF TypeOK, SizeInv
  <2> QED BY <2>1, <2>2, <2>3, <2>4
<1>3. CASE DecUsedBytes(d)
  <2> USE <1>3 DEF DecUsedBytes, NoFault, DbFault
  <2>1. TypeOK' BY DEF TypeOK
  <2>2. RowInv' BY DEF RowInv
  <2>3. DeleteInv' BY DEF TypeOK, DeleteInv
  <2>4. SizeInv' BY DEF TypeOK, SizeInv
  <2> QED BY <2>1, <2>2, <2>3, <2>4
<1> QED BY <1>1, <1>2, <1>3 DEF Delete

LEMMA CrashShape == Shape /\ Crash => Shape'
<1> SUFFICES ASSUME Shape, Crash PROVE Shape' OBVIOUS
<1> USE SizeAssumption, QuotaAssumption DEF Shape, Crash
<1>1. TypeOK' BY DEF TypeOK
<1>2. {v \in Uploads : up'[v] # "idle"} = {v \in Uploads : up[v] # "idle"} BY DEF TypeOK
<1>3. IsFiniteSet({v \in Uploads : up'[v] # "idle"}) BY <1>2 DEF RowInv
<1>4. RowInv' BY <1>3 DEF TypeOK, RowInv
<1>5. DeleteInv' BY DEF TypeOK, DeleteInv
<1>6. SizeInv' BY DEF TypeOK, SizeInv
<1> QED BY <1>1, <1>4, <1>5, <1>6

-----------------------------------------------------------------------------
(* The account.                                                             *)

LEMMA FiniteSums ==
  ASSUME TypeOK, RowInv, NEW S \in SUBSET {u \in Uploads : up[u] # "idle"}
  PROVE  S \in SUBSET Uploads /\ IsFiniteSet(S)
BY FS_Subset DEF RowInv

\* How the counter and the two sets of the account move together.
LEMMA AccountFrame ==
  ASSUME TypeOK, AccountInv, UNCHANGED <<habits, used, uncharged>>, crashes' = crashes,
         faults' = 0 => faults = 0, Charged' = Charged, Credited' = Credited
  PROVE  AccountInv'
BY DEF AccountInv

LEMMA UploadAccount ==
  ASSUME Shape, AccountInv, NEW u \in Uploads, Upload(u)
  PROVE  AccountInv'
<1> USE SizeAssumption, QuotaAssumption DEF delVars, troubles
<1>1. TypeOK /\ RowInv /\ DeleteInv BY DEF Shape
<1>2. /\ UNCHANGED <<habits, crashes, del, target>> /\ (faults' = 0 => faults = 0)
      /\ up[u] \in {"idle", "init", "uploading", "assembling", "sized"}
      /\ \A v \in Uploads \ {u} : up'[v] = up[v] /\ row'[v] = row[v]
      /\ row'[u] = row[u] \/ (row[u] = "none" /\ row'[u] = "there")
  BY <1>1 DEF Upload, CheckQuota, CreateVideo, Assemble, UpdateSizeBytes, IncUsedBytes, NoFault,
     DbFault, TypeOK, RowInv
<1>3. \A v \in Uploads : Gone(v)' <=> Gone(v)
  <2>1. \A v \in Uploads : Crediting(v)' <=> Crediting(v) BY <1>2 DEF Crediting
  <2>2. \A v \in Uploads : row'[v] = "deleted" <=> row[v] = "deleted" BY <1>2
  <2> QED BY <2>1, <2>2 DEF Gone
<1>4. u \notin uncharged /\ u \notin Charged BY <1>1, <1>2 DEF RowInv, Charged
<1> DEFINE here == {v \in Uploads : up[v] # "idle"}
<1>5. Charged \in SUBSET here /\ Credited \in SUBSET here
  BY <1>1 DEF Charged, Credited, RowInv
<1>6. IsFiniteSet(Charged) /\ IsFiniteSet(Credited) /\ Charged \in SUBSET Uploads
      /\ Credited \in SUBSET Uploads
  BY <1>1, <1>5, FiniteSums
<1>7. Bytes(Charged) \in Nat /\ Bytes(Credited) \in Nat /\ Size[u] \in Nat /\ used \in Nat
  BY <1>1, <1>6, BytesRemove DEF TypeOK
<1>8. CASE CheckQuota(u) \/ CreateVideo(u) \/ Assemble(u)
  <2>1. /\ UNCHANGED <<used, uncharged>>
        /\ up'[u] \notin {"sized", "stored"} /\ up[u] \notin {"sized", "stored"}
    BY <1>1, <1>8 DEF CheckQuota, CreateVideo, Assemble, TypeOK
  <2>2. Charged' = Charged BY <1>2, <1>3, <2>1 DEF Charged
  <2>3. Credited' = Credited BY <1>2, <1>3, <2>1 DEF Credited
  <2> QED BY <1>1, <1>2, <2>1, <2>2, <2>3, AccountFrame
<1>9. CASE UpdateSizeBytes(u)
  <2>1. UNCHANGED <<used, uncharged>> /\ up[u] = "assembling" /\ up'[u] = "sized"
    BY <1>1, <1>9 DEF UpdateSizeBytes, TypeOK
  <2>2. Charged' = Charged BY <1>2, <1>3, <2>1 DEF Charged
  <2>3. Credited \subseteq Credited' BY <1>2, <1>3, <2>1 DEF Credited
  <2>4. Credited' \in SUBSET here BY <1>1, <1>2, <1>3, <2>1 DEF Credited, RowInv
  <2>5. IsFiniteSet(Credited') /\ Credited' \in SUBSET Uploads BY <1>1, <2>4, FiniteSums
  <2>6. Bytes(Credited) <= Bytes(Credited') /\ Bytes(Credited') \in Nat
    BY <1>6, <2>3, <2>5, BytesMono, BytesRemove
  <2> QED BY <1>2, <1>7, <2>1, <2>2, <2>6 DEF AccountInv
<1>10. CASE IncUsedBytes(u)
  <2>1. /\ up[u] = "sized" /\ up'[u] = "stored"
        /\ \/ used' = used + Size[u] /\ uncharged' = uncharged
           \/ used' = used /\ uncharged' = uncharged \cup {u} /\ faults' # 0
    BY <1>1, <1>10 DEF IncUsedBytes, NoFault, DbFault, TypeOK
  <2>2. CASE uncharged' = uncharged \cup {u} /\ used' = used /\ faults' # 0
    <3>1. Charged' = Charged BY <1>2, <1>3, <1>4, <2>1, <2>2 DEF Charged
    <3>2. Credited' = Credited BY <1>2, <1>3, <1>4, <2>1, <2>2 DEF Credited
    <3> QED BY <1>2, <2>2, <3>1, <3>2 DEF AccountInv
  <2>3. CASE uncharged' = uncharged /\ used' = used + Size[u] /\ ~Gone(u)
    <3>1. Charged' = Charged \cup {u} BY <1>2, <1>3, <1>4, <2>1, <2>3 DEF Charged
    <3>2. Credited' = Credited BY <1>2, <1>3, <2>1, <2>3 DEF Credited
    <3>3. Bytes(Charged') = Bytes(Charged) + Size[u] BY <1>4, <1>6, <3>1, BytesAdd
    <3> QED BY <1>2, <1>7, <2>3, <3>2, <3>3 DEF AccountInv
  <2>4. CASE uncharged' = uncharged /\ used' = used + Size[u] /\ Gone(u)
    <3>1. Charged' = Charged BY <1>2, <1>3, <1>4, <2>1, <2>4 DEF Charged
    <3> DEFINE rest == Credited \ {u}
    <3>2. Credited' = rest /\ u \in Credited
      BY <1>2, <1>3, <1>4, <2>1, <2>4 DEF Credited
    <3>3. IsFiniteSet(rest) /\ rest \in SUBSET Uploads BY <1>6, FS_Subset
    <3> HIDE DEF rest
    <3>4. Bytes(rest) \in Nat BY <3>3, BytesRemove
    <3>5. Bytes(Credited) = Size[u] + Bytes(rest) BY <1>6, <3>2, BytesRemove DEF rest
    <3>6. "early" \in habits BY <1>1, <2>1, <2>4 DEF Gone, RowInv, DeleteInv
    <3>7. Bytes(Credited') = Bytes(rest) /\ Bytes(Charged') = Bytes(Charged) BY <3>1, <3>2
    <3> QED BY <1>2, <1>7, <2>4, <3>4, <3>5, <3>6, <3>7 DEF AccountInv
  <2> QED BY <2>1, <2>2, <2>3, <2>4
<1> QED BY <1>8, <1>9, <1>10 DEF Upload

LEMMA DeleteAccount ==
  ASSUME Shape, AccountInv, NEW d \in Deletes, Delete(d)
  PROVE  AccountInv'
<1> USE SizeAssumption, QuotaAssumption DEF troubles
<1>1. TypeOK /\ RowInv /\ DeleteInv BY DEF Shape
<1>2. CASE \E u \in Uploads : ReadForDelete(d, u)
  <2>1. /\ UNCHANGED <<habits, used, uncharged, crashes, faults, up, row>>
        /\ del[d] = "idle" /\ del'[d] = "delete"
        /\ \A e \in Deletes : e # d => target'[e] = target[e] /\ del'[e] = del[e]
    BY <1>1, <1>2 DEF ReadForDelete, TypeOK
  <2>2. \A v \in Uploads : Gone(v)' <=> Gone(v) BY <2>1 DEF Gone, Crediting
  <2>3. Charged' = Charged BY <2>1, <2>2 DEF Charged
  <2>4. Credited' = Credited BY <2>1, <2>2 DEF Credited
  <2> QED BY <1>1, <2>1, <2>3, <2>4, AccountFrame
<1>3. CASE DeleteRow(d)
  <2>1. /\ UNCHANGED <<habits, used, uncharged, crashes, up, target>>
        /\ (faults' = 0 => faults = 0) /\ del[d] = "delete"
        /\ \A e \in Deletes : e # d => del'[e] = del[e]
        /\ \/ /\ del'[d] = "credit"
              /\ \A v \in Uploads : row'[v] = IF v \in target[d] THEN "deleted" ELSE row[v]
           \/ del'[d] = "done" /\ row' = row
    BY <1>1, <1>3 DEF DeleteRow, NoFault, DbFault, TypeOK
  <2>2. CASE "twice" \in habits
    <3>1. UNCHANGED <<habits, used>> BY <2>1
    <3> QED BY <2>2, <3>1 DEF AccountInv
  <2>3. CASE "twice" \notin habits
    <3>1. \A v \in target[d] : row[v] = "there" BY <1>1, <2>1, <2>3 DEF DeleteInv
    <3>2. ASSUME NEW v \in Uploads PROVE Gone(v)' <=> Gone(v)
      <4>1. CASE v \in target[d] BY <2>1, <3>1, <4>1 DEF Gone, Crediting
      <4>2. CASE v \notin target[d] BY <2>1, <4>2 DEF Gone, Crediting
      <4> QED BY <4>1, <4>2
    <3>3. Charged' = Charged BY <2>1, <3>2 DEF Charged
    <3>4. Credited' = Credited BY <2>1, <3>2 DEF Credited
    <3> QED BY <1>1, <2>1, <3>3, <3>4, AccountFrame
  <2> QED BY <2>2, <2>3
<1>4. CASE DecUsedBytes(d)
  <2>1. /\ UNCHANGED <<habits, uncharged, crashes, up, target, row>>
        /\ del[d] = "credit" /\ del'[d] = "done"
        /\ \A e \in Deletes : e # d => del'[e] = del[e]
        /\ \/ used' = (IF used >= read[d] THEN used - read[d] ELSE 0) /\ faults' = faults
           \/ used' = used /\ faults' # 0
    BY <1>1, <1>4 DEF DecUsedBytes, NoFault, DbFault, TypeOK
  <2>2. CASE "twice" \in habits BY <2>1, <2>2 DEF AccountInv
  <2>3. CASE "twice" \notin habits
    <3>1. PICK u \in Uploads : target[d] = {u} BY <1>1, <2>1 DEF TypeOK, DeleteInv
    <3>2. row[u] = "deleted" /\ \A e \in Deletes : u \in target[e] /\ del[e] = "credit" => e = d
      BY <1>1, <2>1, <2>3, <3>1 DEF DeleteInv
    <3>3. ~Gone(u) /\ Gone(u)' BY <2>1, <3>1, <3>2 DEF Gone, Crediting
    <3>4. \A v \in Uploads \ {u} : Gone(v)' <=> Gone(v) BY <2>1, <3>1 DEF Gone, Crediting
    <3>5. Charged' = Charged \ {u} BY <2>1, <3>3, <3>4 DEF Charged
    <3>6. Credited' = IF up[u] = "sized" \/ u \in uncharged THEN Credited \cup {u} ELSE Credited
      BY <2>1, <3>3, <3>4 DEF Credited
    <3>7. u \notin Credited BY <3>3 DEF Credited
    <3>8. u \in Charged <=> up[u] = "stored" /\ u \notin uncharged BY <3>3 DEF Charged
    <3>9. Charged \in SUBSET {v \in Uploads : up[v] # "idle"}
          /\ Credited \in SUBSET {v \in Uploads : up[v] # "idle"}
      BY <1>1 DEF Charged, Credited, RowInv
    <3> DEFINE rest == Charged \ {u}
    <3>10. IsFiniteSet(Credited) /\ IsFiniteSet(Charged) /\ IsFiniteSet(rest)
           /\ Credited \in SUBSET Uploads /\ Charged \in SUBSET Uploads /\ rest \in SUBSET Uploads
      BY <1>1, <3>9, FiniteSums
    <3> HIDE DEF rest
    <3>11. Bytes(Credited) \in Nat /\ Bytes(rest) \in Nat /\ Bytes(Charged) \in Nat /\ Size[u] \in Nat
      BY <3>10, BytesRemove
    <3>12. IF u \in Charged THEN Bytes(Charged) = Size[u] + Bytes(rest)
           ELSE Bytes(Charged) = Bytes(rest)
      BY <3>10, BytesRemove DEF rest
    <3>13. Bytes(Credited') = IF up[u] = "sized" \/ u \in uncharged THEN Bytes(Credited) + Size[u]
                              ELSE Bytes(Credited)
      BY <3>6, <3>7, <3>10, BytesAdd
    <3>14. Bytes(Charged') = Bytes(rest) BY <3>5 DEF rest
    <3>15. /\ read[d] \in {0, Size[u]}
           /\ read[d] # 0 => up[u] \in {"sized", "stored"} \/ u \in uncharged
           /\ "early" \notin habits => up[u] \in {"stored", "failed"}
      BY <1>1, <3>1 DEF DeleteInv
    <3>16. crashes = 0 /\ faults = 0 =>
             uncharged = {} /\ ("early" \notin habits /\ up[u] = "stored" => read[d] = Size[u])
      BY <3>1 DEF Shape, SizeInv
    <3>17. (habits \cap {"early", "twice"} = {} /\ crashes = 0 /\ faults = 0 => used = Bytes(Charged))'
      BY <1>1, <2>1, <3>8, <3>11, <3>12, <3>14, <3>15, <3>16 DEF AccountInv, TypeOK
    <3>18. used' + Bytes(Credited') >= Bytes(Charged')
      BY <1>1, <2>1, <2>3, <3>8, <3>11, <3>12, <3>13, <3>14, <3>15 DEF AccountInv, TypeOK
    <3> QED BY <2>1, <3>17, <3>18 DEF AccountInv
  <2> QED BY <2>2, <2>3
<1> QED BY <1>2, <1>3, <1>4 DEF Delete

\* A crash takes charges out of reach of a credit, and no credit out of the account.
LEMMA CrashAccount == Shape /\ AccountInv /\ Crash => AccountInv'
<1> SUFFICES ASSUME Shape, AccountInv, Crash PROVE AccountInv' OBVIOUS
<1>1. TypeOK /\ RowInv /\ DeleteInv BY DEF Shape
<1>2. /\ crashes' # 0 /\ UNCHANGED <<habits, used, row, target>>
      /\ uncharged' = uncharged \cup {u \in Uploads : up[u] = "sized"}
      /\ \A u \in Uploads : /\ up'[u] = "stored" <=> up[u] = "stored"
                            /\ up'[u] # "sized" /\ (up'[u] = "idle" <=> up[u] = "idle")
      /\ \A d \in Deletes : del'[d] # "credit"
  BY <1>1, QuotaAssumption DEF Crash, TypeOK
<1> SUFFICES ASSUME "twice" \notin habits
             PROVE  used' + Bytes(Credited') >= Bytes(Charged')
  BY <1>2 DEF AccountInv
<1>3. \A u \in Uploads : Gone(u) => Gone(u)' BY <1>2 DEF Gone, Crediting
<1>4. Charged' \subseteq Charged BY <1>2, <1>3 DEF Charged
<1>5. Credited \subseteq Credited' BY <1>2, <1>3 DEF Credited
<1>6. Charged \in SUBSET {v \in Uploads : up[v] # "idle"}
      /\ Credited' \in SUBSET {v \in Uploads : up[v] # "idle"}
  BY <1>1, <1>2 DEF Charged, Credited, RowInv
<1>7. IsFiniteSet(Charged) /\ Charged \in SUBSET Uploads /\ IsFiniteSet(Credited')
      /\ Credited' \in SUBSET Uploads
  BY <1>1, <1>6, FiniteSums
<1>8. IsFiniteSet(Charged') /\ Charged' \in SUBSET Uploads /\ IsFiniteSet(Credited)
      /\ Credited \in SUBSET Uploads
  BY <1>4, <1>5, <1>7, FS_Subset
<1>9. Bytes(Charged') <= Bytes(Charged) /\ Bytes(Credited) <= Bytes(Credited')
  BY <1>4, <1>5, <1>7, BytesMono
<1>10. Bytes(Charged) \in Nat /\ Bytes(Charged') \in Nat /\ Bytes(Credited) \in Nat
       /\ Bytes(Credited') \in Nat
  BY <1>7, <1>8, BytesRemove
<1>11. used + Bytes(Credited) >= Bytes(Charged) BY DEF AccountInv
<1> QED BY <1>1, <1>2, <1>9, <1>10, <1>11 DEF TypeOK

-----------------------------------------------------------------------------
(* The quota.                                                               *)

LEMMA OpenShrinks ==
  ASSUME TypeOK, RowInv, OpenInv, habits' = habits,
         uncharged' = {} => uncharged = {},
         "twice" \notin habits /\ uncharged' = {}
           => Charged' \cup Open' \subseteq Charged \cup Open,
         Open' \subseteq Open
  PROVE  OpenInv'
<1> SUFFICES ASSUME habits \cap {"tabs", "twice"} = {}, uncharged' = {}
             PROVE  /\ Quota = 0 \/ Bytes(Charged' \cup Open') <= Quota
                    /\ \A u, v \in Open' : u = v
  BY DEF OpenInv
<1> DEFINE S == Charged \cup Open  R == Charged' \cup Open'
<1>1. S \in SUBSET {v \in Uploads : up[v] # "idle"} BY DEF Charged, Open
<1>2. R \in SUBSET S OBVIOUS
<1>3. Quota = 0 \/ Bytes(S) <= Quota BY DEF OpenInv
<1> HIDE DEF S, R
<1>4. IsFiniteSet(S) /\ S \in SUBSET Uploads BY <1>1, FiniteSums
<1>5. IsFiniteSet(R) /\ R \in SUBSET Uploads BY <1>2, <1>4, FS_Subset
<1>6. Bytes(R) <= Bytes(S) /\ Bytes(R) \in Nat /\ Bytes(S) \in Nat
  BY <1>2, <1>4, <1>5, BytesMono, BytesRemove
<1>7. Quota = 0 \/ Bytes(R) <= Quota BY <1>3, <1>6, QuotaAssumption
<1>8. \A u, v \in Open' : u = v BY DEF OpenInv
<1> QED BY <1>7, <1>8 DEF R

LEMMA OpenStep == Shape /\ AccountInv /\ OpenInv /\ [Next]_vars => OpenInv'
<1> SUFFICES ASSUME Shape, AccountInv, OpenInv, [Next]_vars PROVE OpenInv' OBVIOUS
<1> USE SizeAssumption, QuotaAssumption DEF troubles, delVars
<1>1. TypeOK /\ RowInv /\ DeleteInv BY DEF Shape
<1>2. ASSUME NEW u \in Uploads, CheckQuota(u) PROVE OpenInv'
  <2>1. /\ UNCHANGED <<habits, used, uncharged, row, del, target>>
        /\ up[u] = "idle" /\ (Open = {} \/ "tabs" \in habits)
        /\ up' = [up EXCEPT ![u] = IF HasQuotaFor(u) THEN "init" ELSE "refused"]
    BY <1>2 DEF CheckQuota
  <2> SUFFICES ASSUME habits \cap {"tabs", "twice"} = {}, uncharged = {}
               PROVE  /\ Quota = 0 \/ Bytes(Charged' \cup Open') <= Quota
                      /\ \A v, w \in Open' : v = w
    BY <2>1 DEF OpenInv
  <2>2. Open' \subseteq {u} BY <1>1, <2>1 DEF Open, TypeOK
  <2>3. Charged' = Charged /\ u \notin Charged
    <3>1. \A v \in Uploads : Gone(v)' <=> Gone(v) BY <2>1 DEF Gone, Crediting
    <3>2. \A v \in Uploads : up'[v] = "stored" <=> up[v] = "stored" BY <1>1, <2>1 DEF TypeOK
    <3> QED BY <2>1, <3>1, <3>2 DEF Charged
  <2>4. CASE Quota = 0 BY <2>2, <2>4
  <2>5. CASE Open' = {}
    <3>1. Charged' \cup Open' = Charged \cup Open BY <2>1, <2>3, <2>5
    <3> QED BY <2>5, <3>1 DEF OpenInv
  <2>6. CASE Quota # 0 /\ Open' = {u}
    <3>1. HasQuotaFor(u) BY <1>1, <2>1, <2>6 DEF Open, TypeOK
    <3>2. used + Size[u] <= Quota BY <2>6, <3>1 DEF HasQuotaFor
    <3>3. Credited = {} BY <2>1 DEF Credited, Open
    <3>4. Charged \in SUBSET {v \in Uploads : up[v] # "idle"} BY DEF Charged
    <3>5. IsFiniteSet(Charged) /\ Charged \in SUBSET Uploads BY <1>1, <3>4, FiniteSums
    <3>6. Bytes(Charged \cup {u}) = Bytes(Charged) + Size[u] BY <2>3, <3>5, BytesAdd
    <3>7. Bytes(Charged) \in Nat /\ Bytes(Credited) = 0 BY <3>3, <3>5, BytesRemove, BytesEmpty
    <3>8. used + Bytes(Credited) >= Bytes(Charged) BY DEF AccountInv
    <3>9. Bytes(Charged \cup {u}) <= Quota BY <1>1, <3>2, <3>6, <3>7, <3>8 DEF TypeOK
    <3>10. Charged' \cup Open' = Charged \cup {u} BY <2>3, <2>6
    <3> QED BY <2>6, <3>9, <3>10
  <2> QED BY <2>2, <2>4, <2>5, <2>6
<1>3. ASSUME NEW u \in Uploads, CreateVideo(u) \/ Assemble(u) \/ UpdateSizeBytes(u) \/ IncUsedBytes(u)
      PROVE  OpenInv'
  <2>1. /\ UNCHANGED <<habits, del, target>>
        /\ uncharged' = {} => uncharged = {}
        /\ \A v \in Uploads \ {u} : up'[v] = up[v] /\ row'[v] = row[v]
        /\ u \in Open /\ up'[u] \notin {"idle", "refused"}
    BY <1>1, <1>3 DEF CreateVideo, Assemble, UpdateSizeBytes, IncUsedBytes, Open, TypeOK
  <2>2. Open' \subseteq Open BY <2>1 DEF Open
  <2>3. \A v \in Uploads \ {u} : Gone(v)' <=> Gone(v) BY <2>1 DEF Gone, Crediting
  <2>4. uncharged' = {} => Charged' \subseteq Charged \cup {u} BY <2>1, <2>3 DEF Charged
  <2> QED BY <1>1, <2>1, <2>2, <2>4, OpenShrinks
<1>4. ASSUME NEW d \in Deletes, Delete(d) PROVE OpenInv'
  <2>1. /\ UNCHANGED <<habits, uncharged, up>>
        /\ \A e \in Deletes \ {d} : target'[e] = target[e] /\ del'[e] = del[e]
        /\ \A v \in Uploads : row'[v] = row[v] \/ row'[v] = "deleted"
    BY <1>1, <1>4 DEF Delete, ReadForDelete, DeleteRow, DecUsedBytes, TypeOK
  <2>2. Open' = Open BY <2>1 DEF Open
  <2>3. ASSUME "twice" \notin habits, del'[d] = "credit" PROVE \A v \in target'[d] : row[v] = "there"
    BY <1>1, <1>4, <2>3 DEF Delete, ReadForDelete, DeleteRow, DecUsedBytes, TypeOK, DeleteInv
  <2>4. ASSUME "twice" \notin habits, NEW v \in Uploads, Gone(v) PROVE Gone(v)'
    BY <2>1, <2>3, <2>4 DEF Gone, Crediting
  <2>5. "twice" \notin habits => Charged' \subseteq Charged BY <2>1, <2>4 DEF Charged
  <2> QED BY <1>1, <2>1, <2>2, <2>5, OpenShrinks
<1>5. CASE Crash
  <2>1. /\ UNCHANGED <<habits, row, target>> /\ uncharged \subseteq uncharged'
        /\ \A u \in Uploads : up'[u] = up[u] \/ up'[u] = "failed"
        /\ \A d \in Deletes : del'[d] # "credit"
    BY <1>1, <1>5 DEF Crash, TypeOK
  <2>2. Open' \subseteq Open BY <2>1 DEF Open
  <2>3. \A v \in Uploads : Gone(v) => Gone(v)' BY <2>1 DEF Gone, Crediting
  <2>4. Charged' \subseteq Charged BY <2>1, <2>3 DEF Charged
  <2> QED BY <1>1, <2>1, <2>2, <2>4, OpenShrinks
<1>6. CASE UNCHANGED vars
  <2>1. UNCHANGED <<habits, uncharged, up, row, del, target>> BY <1>6 DEF vars
  <2>2. \A v \in Uploads : Gone(v)' <=> Gone(v) BY <2>1 DEF Gone, Crediting
  <2>3. Charged' = Charged /\ Open' = Open BY <2>1, <2>2 DEF Charged, Open
  <2> QED BY <2>1, <2>3 DEF OpenInv
<1> QED BY <1>2, <1>3, <1>4, <1>5, <1>6 DEF Next, Upload

LEMMA QuotaStep == QuotaInv /\ [Next]_vars => QuotaInv'
<1> SUFFICES ASSUME QuotaInv, [Next]_vars PROVE QuotaInv' OBVIOUS
<1>1. Shape /\ AccountInv /\ OpenInv BY DEF QuotaInv, Shape
<1>2. Shape' /\ AccountInv'
  <2>1. CASE UNCHANGED vars
    <3>1. UNCHANGED <<habits, used, up, row, sizeCol, del, target, read, crashes, faults, uncharged>>
      BY <2>1 DEF vars, delVars, troubles
    <3>2. Shape' BY <1>1, <3>1 DEF Shape, TypeOK, RowInv, DeleteInv, SizeInv
    <3>4. \A v \in Uploads : Gone(v)' <=> Gone(v) BY <3>1 DEF Gone, Crediting
    <3>3. Charged' = Charged /\ Credited' = Credited BY <3>1, <3>4 DEF Charged, Credited
    <3> QED BY <1>1, <3>1, <3>2, <3>3 DEF AccountInv
  <2>2. ASSUME NEW u \in Uploads, Upload(u) PROVE Shape' /\ AccountInv'
    BY <1>1, <2>2, UploadShape, UploadAccount
  <2>3. ASSUME NEW d \in Deletes, Delete(d) PROVE Shape' /\ AccountInv'
    BY <1>1, <2>3, DeleteShape, DeleteAccount
  <2>4. CASE Crash BY <1>1, <2>4, CrashShape, CrashAccount
  <2> QED BY <2>1, <2>2, <2>3, <2>4 DEF Next
<1>3. OpenInv' BY <1>1, OpenStep
<1> QED BY <1>2, <1>3 DEF QuotaInv, Shape

LEMMA QuotaInvariant == Spec => []QuotaInv
BY QuotaInit, QuotaStep, PTL DEF Spec

\* At rest what is charged is what is stored, but for lost charges; and only
\* videos whose charge was lost are credited without one.
LEMMA ChargedIsStored ==
  ASSUME QuotaInv
  PROVE  /\ Stored \ uncharged \subseteq Charged
         /\ AtRest => Charged = Stored \ uncharged /\ Credited \subseteq uncharged \ Stored
         /\ IsFiniteSet(Stored) /\ Stored \in SUBSET Uploads
         /\ IsFiniteSet(uncharged) /\ uncharged \in SUBSET Uploads
<1>1. Stored \ uncharged \subseteq Charged BY DEF Stored, Charged, Gone
<1>2. AtRest => Charged = Stored \ uncharged /\ Credited \subseteq uncharged \ Stored
  <2> SUFFICES ASSUME AtRest
               PROVE  Charged = Stored \ uncharged /\ Credited \subseteq uncharged \ Stored
    OBVIOUS
  <2>1. \A u \in Uploads : ~Crediting(u) /\ up[u] # "sized" BY DEF AtRest, Crediting
  <2>2. \A u \in Uploads : up[u] = "stored" /\ row[u] # "deleted" => row[u] = "there"
    BY DEF QuotaInv, TypeOK, RowInv
  <2> QED BY <2>1, <2>2 DEF Stored, Charged, Credited, Gone
<1>3. Stored \in SUBSET {v \in Uploads : up[v] # "idle"}
      /\ uncharged \in SUBSET {v \in Uploads : up[v] # "idle"}
  BY DEF Stored, QuotaInv, TypeOK, RowInv
<1> QED BY <1>1, <1>2, <1>3, FiniteSums DEF QuotaInv

\* The quota holds for a user who uploads one video at a time and sends no second
\* request for a delete under way, whatever deletes run beside the upload and
\* whatever crashes, as long as no charge is lost: the check of InitUpload and
\* the charge of assemble need no transaction for that.
THEOREM QuotaHolds == Spec => []CarefulQuota
<1>1. ASSUME QuotaInv PROVE CarefulQuota
  <2> SUFFICES ASSUME habits \cap {"tabs", "twice"} = {}, uncharged = {}, Quota # 0
               PROVE  Bytes(Stored) <= Quota
    BY DEF CarefulQuota, QuotaRespected
  <2> DEFINE S == Charged \cup Open
  <2>1. Bytes(S) <= Quota BY <1>1 DEF QuotaInv, OpenInv
  <2>2. S \in SUBSET {v \in Uploads : up[v] # "idle"} BY DEF Charged, Open
  <2>3. Stored \in SUBSET S BY <1>1, ChargedIsStored
  <2> HIDE DEF S
  <2>4. S \in SUBSET Uploads /\ IsFiniteSet(S) BY <1>1, <2>2, FiniteSums DEF QuotaInv
  <2>5. Bytes(Stored) <= Bytes(S) BY <2>3, <2>4, BytesMono
  <2>6. Bytes(S) \in Nat /\ Bytes(Stored) \in Nat BY <1>1, <2>4, ChargedIsStored, BytesRemove
  <2> QED BY <2>1, <2>5, <2>6, QuotaAssumption
<1> QED BY <1>1, QuotaInvariant, PTL

\* At rest users.used_bytes is the size of the stored videos, with any number of
\* uploads and deletes of different videos at the same time, until a statement
\* fails or the server crashes.
THEOREM AccountBalances == Spec => []CarefulAccount
<1>1. ASSUME QuotaInv PROVE CarefulAccount
  <2> SUFFICES ASSUME habits \cap {"early", "twice"} = {}, crashes = 0, faults = 0, AtRest
               PROVE  used = Bytes(Stored)
    BY DEF CarefulAccount
  <2>1. uncharged = {} BY <1>1 DEF QuotaInv, SizeInv
  <2>2. Charged = Stored BY <1>1, <2>1, ChargedIsStored
  <2> QED BY <1>1, <2>2 DEF QuotaInv, AccountInv
<1> QED BY <1>1, QuotaInvariant, PTL

\* Whatever fails, crashes or is deleted early, the counter is below what is
\* stored by no more than the charges that were lost, unless two deletes of one
\* video are under way at the same time.
THEOREM CounterCoversStored == Spec => []NeverUndercharged
<1>1. ASSUME QuotaInv PROVE NeverUndercharged
  <2> SUFFICES ASSUME "twice" \notin habits, AtRest
               PROVE  used + Bytes(uncharged) >= Bytes(Stored)
    BY DEF NeverUndercharged
  <2> DEFINE kept == Stored \ uncharged  lost == Stored \cap uncharged  gone == uncharged \ Stored
  <2>1. Charged = kept /\ Credited \subseteq gone BY <1>1, ChargedIsStored
  <2>2. used + Bytes(Credited) >= Bytes(Charged) BY <1>1 DEF QuotaInv, AccountInv
  <2>3. IsFiniteSet(Stored) /\ Stored \in SUBSET Uploads
        /\ IsFiniteSet(uncharged) /\ uncharged \in SUBSET Uploads
    BY <1>1, ChargedIsStored
  <2>4. /\ kept \in SUBSET Uploads /\ lost \in SUBSET Uploads /\ gone \in SUBSET Uploads
        /\ kept \cap lost = {} /\ lost \cap gone = {}
        /\ Stored = kept \cup lost /\ uncharged = lost \cup gone
    BY <2>3
  <2>5. IsFiniteSet(kept) /\ IsFiniteSet(lost) /\ IsFiniteSet(gone) BY <2>3, FS_Subset
  <2>6. Credited \in SUBSET gone BY <2>1
  <2> HIDE DEF kept, lost, gone
  <2>7. Bytes(Stored) = Bytes(kept) + Bytes(lost) /\ Bytes(uncharged) = Bytes(lost) + Bytes(gone)
    BY <2>4, <2>5, BytesSplit
  <2>8. Bytes(Credited) <= Bytes(gone) BY <2>4, <2>5, <2>6, BytesMono
  <2>9. IsFiniteSet(Credited) /\ Credited \in SUBSET Uploads BY <2>4, <2>5, <2>6, FS_Subset
  <2>10. Bytes(kept) \in Nat /\ Bytes(lost) \in Nat /\ Bytes(gone) \in Nat /\ Bytes(Credited) \in Nat
    BY <2>4, <2>5, <2>9, BytesRemove
  <2>11. used \in Nat BY <1>1 DEF QuotaInv, TypeOK
  <2>12. used + Bytes(Credited) >= Bytes(kept) BY <2>1, <2>2
  <2> QED BY <2>7, <2>8, <2>10, <2>11, <2>12
<1> QED BY <1>1, QuotaInvariant, PTL
=============================================================================
