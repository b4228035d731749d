------------------------- MODULE HandleManagerProofs -------------------------
(***************************************************************************)
(* handle_mgr for any number of threads, addresses and hinfos: what is     *)
(* counted is what is used, and what is used is there.                     *)
(***************************************************************************)
EXTENDS HandleManager, FiniteSetTheorems, TLAPS

Holders(i) == {t \in Thread : h[t] = i}

\* One thread binds a connection, which nobody uses before it is bound.
BindersAreAlone ==
    \A t \in Thread : pc[t] = "bind" =>
        /\ h[t] # NULL
        /\ info[h[t]].cl = "binding"
        /\ result[t] = NULL
        /\ \A u \in Thread : pc[u] = "bind" /\ h[u] = h[t] => u = t

\* A handle knows how its last safebind ended from its hinfo.
ResultsAreKept ==
    /\ \A t \in Thread : pc[t] = "none" => h[t] = NULL /\ result[t] = NULL
    /\ \A t \in Thread : h[t] # NULL /\ result[t] = "failed" => info[h[t]].del
    /\ \A i \in Info : Live(i) /\ info[i].del /\ info[i].m \notin Forgotten => info[i].cl = "none"

HInv ==
    /\ HandleTypeOK
    /\ HandlesAreLive
    /\ HandlesAreCounted
    /\ BindersAreAlone
    /\ ResultsAreKept

-----------------------------------------------------------------------------
\* What the types say of a hinfo.
LEMMA InfoShape ==
  ASSUME HandleTypeOK, NEW i \in Info
  PROVE  /\ info[i].cl \in Connection
         /\ info[i].refcnt \in Nat
         /\ info[i].del \in BOOLEAN
         /\ Live(i) => info[i] \in [cl : Connection, refcnt : Nat, del : BOOLEAN, m : Address]
         /\ Live(i) => info[i].m \in Address
         /\ ~Live(i) => info[i] = Deleted
<1>1. CASE info[i] = Deleted
  BY <1>1 DEF Deleted, Live, Connection
<1>2. CASE info[i] \in [cl : Connection, refcnt : Nat, del : BOOLEAN, m : Address]
  BY <1>2, NULLIsNone DEF Live
<1> QED
  BY <1>1, <1>2 DEF HandleTypeOK

\* refcnt goes up and down with the handles.
LEMMA HoldersAreFinite ==
  ASSUME NEW i
  PROVE  IsFiniteSet(Holders(i)) /\ Cardinality(Holders(i)) \in Nat
BY ThreadsAreFinite, FS_Subset, FS_CardinalityType DEF Holders

LEMMA HandleCounts ==
  ASSUME HandleTypeOK, NEW t \in Thread, NEW i \in Info, h[t] = NULL, h' = [h EXCEPT ![t] = i]
  PROVE  /\ Cardinality(Holders(i)') = Cardinality(Holders(i)) + 1
         /\ \A j \in Info \ {i} : Holders(j)' = Holders(j)
<1>1. Holders(i)' = Holders(i) \cup {t} /\ t \notin Holders(i)
  BY NULLIsNone DEF Holders, HandleTypeOK
<1>2. \A j \in Info \ {i} : Holders(j)' = Holders(j)
  BY NULLIsNone DEF Holders, HandleTypeOK
<1> QED
  BY <1>1, <1>2, HoldersAreFinite, FS_AddElement

LEMMA DoneCounts ==
  ASSUME HandleTypeOK, NEW t \in Thread, h[t] \in Info, h' = [h EXCEPT ![t] = NULL]
  PROVE  /\ Cardinality(Holders(h[t])) \in Nat \ {0}
         /\ Cardinality({u \in Thread : h'[u] = h[t]}) = Cardinality(Holders(h[t])) - 1
         /\ \A j \in Info \ {h[t]} : Holders(j)' = Holders(j)
<1> DEFINE i == h[t]
           rest == {u \in Thread : h'[u] = i}
<1>1. rest = Holders(i) \ {t} /\ t \in Holders(i)
  BY NULLIsNone DEF Holders, HandleTypeOK
<1>2. \A j \in Info \ {i} : Holders(j)' = Holders(j)
  BY NULLIsNone DEF Holders, HandleTypeOK
<1> HIDE DEF rest
<1>3. IsFiniteSet(Holders(i)) /\ Cardinality(Holders(i)) \in Nat /\ Holders(i) # {}
  BY <1>1, HoldersAreFinite
<1>4. Cardinality(Holders(i)) # 0
  BY <1>3, FS_EmptySet
<1>5. Cardinality(rest) = Cardinality(Holders(i)) - 1
  BY <1>1, <1>3, FS_RemoveElement
<1> QED
  BY <1>2, <1>3, <1>4, <1>5 DEF rest

\* The counts are right when that of the hinfo is whose handles change.
LEMMA CountsFollow ==
  ASSUME HandlesAreCounted, NEW i \in Info,
         \A j \in Info \ {i} : Live(j)' => /\ Live(j) /\ info'[j].refcnt = info[j].refcnt
                                           /\ Holders(j)' = Holders(j),
         Live(i)' => info'[i].refcnt = Cardinality(Holders(i)')
  PROVE  HandlesAreCounted'
<1> SUFFICES ASSUME NEW j \in Info, Live(j)'
             PROVE  info'[j].refcnt = Cardinality({t \in Thread : h'[t] = j})
  BY DEF HandlesAreCounted
<1>1. Holders(j)' = {t \in Thread : h'[t] = j}
  BY DEF Holders
<1>2. CASE j = i
  BY <1>1, <1>2
<1>3. CASE j # i
  <2>1. Live(j) /\ info'[j].refcnt = info[j].refcnt /\ Holders(j)' = Holders(j)
    BY <1>3
  <2>2. info[j].refcnt = Cardinality(Holders(j))
    BY <2>1 DEF HandlesAreCounted, Holders
  <2> QED
    BY <1>1, <2>1, <2>2
<1> QED
  BY <1>2, <1>3

-----------------------------------------------------------------------------
\* What each step does to hinfos: it changes fields of one of them.
LEMMA InitHasHandles == HandleInit => HInv
<1> SUFFICES ASSUME HandleInit PROVE HInv
  OBVIOUS
<1>1. \A i \in Info : ~Live(i)
  BY DEF HandleInit, Live, Deleted
<1>2. HandleTypeOK
  BY DEF HandleInit, HandleTypeOK
<1>3. HandlesAreLive /\ BindersAreAlone /\ ResultsAreKept
  BY <1>1 DEF HandleInit, HandlesAreLive, BindersAreAlone, ResultsAreKept
<1>4. HandlesAreCounted
  BY <1>1 DEF HandlesAreCounted
<1> QED
  BY <1>2, <1>3, <1>4 DEF HInv

\* get_handle
LEMMA GetHandleKeeps ==
  ASSUME HInv, NEW t \in Thread, NEW m \in Address, GetHandle(t, m)
  PROVE  HInv'
<1> USE NULLIsNone DEF HInv
<1>0. pc[t] = "none" /\ h[t] = NULL /\ pc' = [pc EXCEPT ![t] = "handle"] /\ result' = result
  BY DEF GetHandle, ResultsAreKept
<1>p. pc'[t] = "handle" /\ \A u \in Thread \ {t} : pc'[u] = pc[u]
  BY <1>0 DEF HandleTypeOK
<1>1. CASE /\ hmap[m] = NULL
           /\ \E i \in Info : /\ ~Live(i)
                              /\ info' = [info EXCEPT ![i] = NewInfo(m)]
                              /\ hmap' = [hmap EXCEPT ![m] = i]
                              /\ h' = [h EXCEPT ![t] = i]
  <2>1. PICK i \in Info : /\ ~Live(i)
                          /\ info' = [info EXCEPT ![i] = NewInfo(m)]
                          /\ hmap' = [hmap EXCEPT ![m] = i]
                          /\ h' = [h EXCEPT ![t] = i]
    BY <1>1
  <2>2. /\ info'[i] = NewInfo(m) /\ \A j \in Info \ {i} : info'[j] = info[j]
        /\ hmap'[m] = i /\ \A n \in Address \ {m} : hmap'[n] = hmap[n]
        /\ h'[t] = i /\ \A u \in Thread \ {t} : h'[u] = h[u]
    BY <2>1 DEF HandleTypeOK
  <2>3. HandleTypeOK'
    <3>1. NewInfo(m) \in [cl : Connection, refcnt : Nat, del : BOOLEAN, m : Address]
      BY DEF NewInfo, Connection
    <3>2. info' \in [Info -> [cl : Connection, refcnt : Nat, del : BOOLEAN, m : Address]
                                \cup {Deleted}]
      BY <2>1, <3>1 DEF HandleTypeOK
    <3> QED
      BY <1>0, <2>1, <3>2 DEF HandleTypeOK
  <2>4. /\ \A u \in Thread : h[u] # i
        /\ \A n \in Address : hmap[n] # i
    BY <2>1 DEF HandlesAreLive
  <2>5. HandlesAreLive'
    <3>1. ASSUME NEW n \in Address, hmap'[n] # NULL
          PROVE  info'[hmap'[n]].m # NULL /\ info'[hmap'[n]].m = n
      BY <2>2, <2>4, <3>1 DEF HandlesAreLive, Live, NewInfo, HandleTypeOK
    <3>2. ASSUME NEW u \in Thread, h'[u] # NULL
          PROVE  /\ info'[h'[u]].m # NULL
                 /\ hmap'[info'[h'[u]].m] = h'[u]
                 /\ result'[u] = "rpcc" => info'[h'[u]].cl = "bound"
      <4>1. CASE u = t
        BY <1>0, <2>2, <4>1 DEF Live, NewInfo, ResultsAreKept
      <4>2. CASE u # t
        <5>1. h'[u] = h[u] /\ h[u] \in Info \ {i} /\ Live(h[u])
          BY <2>2, <2>4, <3>2, <4>2 DEF HandlesAreLive, HandleTypeOK
        <5>2. info[h[u]].m \in Address /\ info[h[u]].m # m
          BY <1>1, <3>2, <4>2, <5>1, InfoShape DEF HandlesAreLive
        <5> QED
          BY <1>0, <2>2, <3>2, <5>1, <5>2 DEF HandlesAreLive, Live
      <4> QED
        BY <4>1, <4>2
    <3> QED
      BY <3>1, <3>2 DEF HandlesAreLive, Live
  <2>6. HandlesAreCounted'
    <3>1. Holders(i) = {} /\ Cardinality(Holders(i)) = 0
      BY <2>4, FS_EmptySet DEF Holders
    <3>2. /\ Cardinality(Holders(i)') = Cardinality(Holders(i)) + 1
          /\ \A j \in Info \ {i} : Holders(j)' = Holders(j)
      BY <1>0, <2>1, HandleCounts
    <3>3. info'[i].refcnt = Cardinality(Holders(i)')
      BY <2>2, <3>1, <3>2 DEF NewInfo
    <3> QED
      BY <2>2, <3>2, <3>3, CountsFollow DEF Live
  <2>7. BindersAreAlone'
    BY <1>0, <1>p, <2>2, <2>4 DEF BindersAreAlone, HandleTypeOK
  <2>8. ResultsAreKept'
    BY <1>0, <1>p, <2>2, <2>4 DEF ResultsAreKept, NewInfo, Live, HandleTypeOK, HandlesAreLive
  <2> QED
    BY <2>3, <2>5, <2>6, <2>7, <2>8
<1>2. CASE hmap[m] # NULL /\ info[hmap[m]].del /\ UNCHANGED <<hmap, info, h>>
  <2>1. HandleTypeOK'
    BY <1>0, <1>2 DEF HandleTypeOK
  <2>2. HandlesAreLive' /\ HandlesAreCounted'
    BY <1>0, <1>2 DEF HandlesAreLive, HandlesAreCounted, Live
  <2>3. BindersAreAlone' /\ ResultsAreKept'
    BY <1>0, <1>p, <1>2 DEF BindersAreAlone, ResultsAreKept, Live
  <2> QED
    BY <2>1, <2>2, <2>3
<1>3. CASE /\ hmap[m] # NULL
           /\ info' = [info EXCEPT ![hmap[m]].refcnt = @ + 1]
           /\ h' = [h EXCEPT ![t] = hmap[m]]
           /\ UNCHANGED hmap
  <2>1. PICK i \in Info : i = hmap[m] /\ Live(i) /\ info[i].m = m
    BY <1>3 DEF HandleTypeOK, HandlesAreLive
  <2>2. info[i] \in [cl : Connection, refcnt : Nat, del : BOOLEAN, m : Address]
    BY <2>1, InfoShape
  <2>3. /\ info'[i] = [info[i] EXCEPT !.refcnt = @ + 1]
        /\ \A j \in Info \ {i} : info'[j] = info[j]
        /\ h'[t] = i /\ \A u \in Thread \ {t} : h'[u] = h[u]
    BY <1>3, <2>1 DEF HandleTypeOK
  <2>4. /\ info'[i] \in [cl : Connection, refcnt : Nat, del : BOOLEAN, m : Address]
        /\ info'[i].cl = info[i].cl /\ info'[i].del = info[i].del /\ info'[i].m = m
        /\ info'[i].refcnt = info[i].refcnt + 1
    BY <2>1, <2>2, <2>3
  <2>5. HandleTypeOK'
    BY <1>0, <1>3, <2>1, <2>4 DEF HandleTypeOK
  <2>6. HandlesAreLive'
    BY <1>0, <1>3, <2>1, <2>3, <2>4 DEF HandlesAreLive, Live, BindersAreAlone, ResultsAreKept
  <2>7. HandlesAreCounted'
    <3>1. /\ Cardinality(Holders(i)') = Cardinality(Holders(i)) + 1
          /\ \A j \in Info \ {i} : Holders(j)' = Holders(j)
      BY <1>0, <1>3, <2>1, HandleCounts
    <3>2. info[i].refcnt = Cardinality(Holders(i))
      BY <2>1 DEF HandlesAreCounted, Holders
    <3> QED
      BY <2>1, <2>3, <2>4, <3>1, <3>2, CountsFollow DEF Live
  <2>8. BindersAreAlone'
    BY <1>0, <1>p, <2>3, <2>4 DEF BindersAreAlone, HandleTypeOK
  <2>9. ResultsAreKept'
    BY <1>0, <1>p, <2>1, <2>3, <2>4 DEF ResultsAreKept, Live, HandleTypeOK
  <2> QED
    BY <2>5, <2>6, <2>7, <2>8, <2>9
<1> QED
  BY <1>1, <1>2, <1>3 DEF GetHandle


\* A hinfo changes for its holders to see, who stay.
InfoChange(i, e) ==
    /\ Live(i)
    /\ e \in [cl : Connection, refcnt : Nat, del : BOOLEAN, m : Address]
    /\ e.m = info[i].m /\ e.refcnt = info[i].refcnt
    /\ info' = [info EXCEPT ![i] = e]
    /\ UNCHANGED <<hmap, h>>
    /\ pc' \in [Thread -> {"none", "handle", "bind"}]
    /\ result' \in [Thread -> {NULL, "failed", "rpcc"}]
    /\ \A t \in Thread : h[t] = i /\ result'[t] = "rpcc" => e.cl = "bound"
    /\ \A t \in Thread : h[t] # i /\ h[t] # NULL => result'[t] = result[t]

LEMMA InfoChanges ==
  ASSUME HInv, NEW i \in Info, NEW e, InfoChange(i, e)
  PROVE  /\ HandleTypeOK' /\ HandlesAreLive' /\ HandlesAreCounted'
         /\ info'[i] = e
         /\ \A j \in Info \ {i} : info'[j] = info[j]
<1> USE NULLIsNone DEF HInv, InfoChange
<1>1. info'[i] = e /\ \A j \in Info \ {i} : info'[j] = info[j]
  BY DEF HandleTypeOK
<1>2. HandleTypeOK'
  BY DEF HandleTypeOK
<1>3. HandlesAreLive'
  BY <1>1 DEF HandlesAreLive, Live, HandleTypeOK
<1>4. HandlesAreCounted'
  <2>1. \A j \in Info : Holders(j)' = Holders(j)
    BY DEF Holders
  <2>2. info[i].refcnt = Cardinality(Holders(i))
    BY DEF HandlesAreCounted, Holders
  <2> QED
    BY <1>1, <2>1, <2>2, CountsFollow DEF Live
<1> QED
  BY <1>1, <1>2, <1>3, <1>4

\* A hinfo that a handle points to is there.
LEMMA HolderHasInfo ==
  ASSUME HInv, NEW t \in Thread, h[t] # NULL
  PROVE  h[t] \in Info /\ Live(h[t]) /\ info[h[t]].m \in Address
<1>1. h[t] \in Info /\ Live(h[t])
  BY DEF HInv, HandleTypeOK, HandlesAreLive
<1> QED
  BY <1>1, InfoShape DEF HInv

\* safebind without a bind.
LEMMA SafebindReturnsKeeps ==
  ASSUME HInv, NEW t \in Thread, SafebindReturns(t)
  PROVE  HInv'
<1> USE NULLIsNone DEF HInv
<1>1. PICK r \in {"failed", "rpcc"} :
         /\ result' = [result EXCEPT ![t] = r]
         /\ pc' = [pc EXCEPT ![t] = "handle"]
         /\ h[t] # NULL => \/ r = "failed" /\ info[h[t]].del
                           \/ r = "rpcc" /\ info[h[t]].cl = "bound"
         /\ h[t] = NULL => r = "failed"
  BY DEF SafebindReturns, Return
<1>2. /\ pc[t] = "handle" /\ UNCHANGED <<hmap, info, h>>
      /\ pc' = pc
  BY <1>1 DEF SafebindReturns, HandleTypeOK
<1>3. HandleTypeOK'
  BY <1>1, <1>2 DEF HandleTypeOK
<1>4. HandlesAreLive'
  BY <1>1, <1>2 DEF HandlesAreLive, Live, HandleTypeOK
<1>5. HandlesAreCounted'
  BY <1>2 DEF HandlesAreCounted, Live
<1>6. BindersAreAlone' /\ ResultsAreKept'
  BY <1>1, <1>2 DEF BindersAreAlone, ResultsAreKept, Live, HandleTypeOK
<1> QED
  BY <1>3, <1>4, <1>5, <1>6

LEMMA SafebindBindsKeeps ==
  ASSUME HInv, NEW t \in Thread, SafebindBinds(t)
  PROVE  HInv'
<1> USE NULLIsNone DEF HInv
<1>1. PICK i \in Info : i = h[t] /\ Live(i)
  BY HolderHasInfo DEF SafebindBinds
<1>2. /\ pc[t] = "handle" /\ ~info[i].del /\ info[i].cl = "none"
      /\ info' = [info EXCEPT ![i].cl = "binding"]
      /\ pc' = [pc EXCEPT ![t] = "bind"]
      /\ UNCHANGED <<hmap, h, result>>
  BY <1>1 DEF SafebindBinds
<1>3. result[t] = NULL
  BY <1>1, <1>2 DEF ResultsAreKept, HandlesAreLive, HandleTypeOK
<1> DEFINE e == [info[i] EXCEPT !.cl = "binding"]
<1>4. /\ e \in [cl : Connection, refcnt : Nat, del : BOOLEAN, m : Address]
      /\ e.cl = "binding" /\ e.del = info[i].del
      /\ e.m = info[i].m /\ e.refcnt = info[i].refcnt
  BY <1>1, InfoShape DEF Connection
<1>5. info' = [info EXCEPT ![i] = e]
  BY <1>2
<1> HIDE DEF e
<1>6. /\ HandleTypeOK' /\ HandlesAreLive' /\ HandlesAreCounted'
      /\ info'[i] = e
      /\ \A j \in Info \ {i} : info'[j] = info[j]
  <2>1. \A u \in Thread : h[u] = i /\ result'[u] = "rpcc" => e.cl = "bound"
    BY <1>1, <1>2 DEF HandlesAreLive
  <2>2. \A u \in Thread : h[u] # i /\ h[u] # NULL => result'[u] = result[u]
    BY <1>2
  <2>3. /\ pc' \in [Thread -> {"none", "handle", "bind"}]
        /\ result' \in [Thread -> {NULL, "failed", "rpcc"}]
    BY <1>2 DEF HandleTypeOK
  <2>4. UNCHANGED <<hmap, h>>
    BY <1>2
  <2>5. InfoChange(i, e)
    BY <1>1, <1>4, <1>5, <2>1, <2>2, <2>3, <2>4 DEF InfoChange
  <2>6. HInv
    OBVIOUS
  <2> HIDE DEF HInv
  <2> QED
    BY <1>1, <2>5, <2>6, InfoChanges
<1>7. pc'[t] = "bind" /\ \A u \in Thread \ {t} : pc'[u] = pc[u]
  BY <1>2 DEF HandleTypeOK
<1>8. \A u \in Thread : pc[u] = "bind" => h[u] # i
  BY <1>2 DEF BindersAreAlone
<1>9. BindersAreAlone'
  BY <1>1, <1>2, <1>3, <1>4, <1>6, <1>7, <1>8 DEF BindersAreAlone, HandleTypeOK
<1>10. ResultsAreKept'
  BY <1>1, <1>2, <1>4, <1>6, <1>7 DEF ResultsAreKept, Live, HandleTypeOK
<1> QED
  BY <1>6, <1>9, <1>10

\* The bind ends, for better or worse.
LEMMA BindReturnsKeeps ==
  ASSUME HInv, NEW t \in Thread, Bound(t) \/ BindFailed(t)
  PROVE  HInv'
<1> USE NULLIsNone DEF HInv
<1>1. PICK i \in Info : i = h[t] /\ Live(i)
  BY HolderHasInfo DEF Bound, BindFailed, BindersAreAlone
<1>2. info[i] \in [cl : Connection, refcnt : Nat, del : BOOLEAN, m : Address]
  BY <1>1, InfoShape
<1>3. PICK r \in {"failed", "rpcc"},
           e \in [cl : Connection, refcnt : Nat, del : BOOLEAN, m : Address] :
         /\ info' = [info EXCEPT ![i] = e]
         /\ result' = [result EXCEPT ![t] = r]
         /\ pc' = [pc EXCEPT ![t] = "handle"]
         /\ e.m = info[i].m /\ e.refcnt = info[i].refcnt
         /\ \/ r = "failed" /\ e.cl = "none" /\ e.del = TRUE
            \/ r = "rpcc" /\ e.cl = "bound" /\ e.del = info[i].del
  <2>1. CASE Bound(t)
    <3> DEFINE b == [info[i] EXCEPT !.cl = "bound"]
    <3>1. /\ b \in [cl : Connection, refcnt : Nat, del : BOOLEAN, m : Address]
          /\ b.cl = "bound" /\ b.del = info[i].del
          /\ b.m = info[i].m /\ b.refcnt = info[i].refcnt
      BY <1>2 DEF Connection
    <3>2. info' = [info EXCEPT ![i] = b]
      BY <1>1, <2>1 DEF Bound
    <3> HIDE DEF b
    <3> QED
      BY <2>1, <3>1, <3>2 DEF Bound, Return
  <2>2. CASE BindFailed(t)
    <3> DEFINE f == [info[i] EXCEPT !.cl = "none", !.del = TRUE]
    <3>1. /\ f \in [cl : Connection, refcnt : Nat, del : BOOLEAN, m : Address]
          /\ f.cl = "none" /\ f.del = TRUE
          /\ f.m = info[i].m /\ f.refcnt = info[i].refcnt
      BY <1>2 DEF Connection
    <3>2. info' = [info EXCEPT ![i] = f]
      BY <1>1, <1>2, <2>2 DEF BindFailed, HandleTypeOK
    <3> HIDE DEF f
    <3> QED
      BY <2>2, <3>1, <3>2 DEF BindFailed, Return
  <2> QED
    BY <2>1, <2>2
<1>4. /\ pc[t] = "bind" /\ UNCHANGED <<hmap, h>>
      /\ info[i].cl = "binding"
      /\ \A u \in Thread \ {t} : pc[u] = "bind" => h[u] # i
  BY <1>1 DEF Bound, BindFailed, BindersAreAlone
<1>5. /\ pc'[t] = "handle" /\ result'[t] = r
      /\ \A u \in Thread \ {t} : pc'[u] = pc[u] /\ result'[u] = result[u]
      /\ pc' \in [Thread -> {"none", "handle", "bind"}]
      /\ result' \in [Thread -> {NULL, "failed", "rpcc"}]
  BY <1>3 DEF HandleTypeOK
<1>6. \A u \in Thread \ {t} : h[u] = i => result[u] # "rpcc"
  BY <1>1, <1>4 DEF HandlesAreLive
<1>7. /\ HandleTypeOK' /\ HandlesAreLive' /\ HandlesAreCounted'
      /\ info'[i] = e
      /\ \A j \in Info \ {i} : info'[j] = info[j]
  <2>1. \A u \in Thread : h[u] = i /\ result'[u] = "rpcc" => e.cl = "bound"
    BY <1>3, <1>5, <1>6
  <2>2. \A u \in Thread : h[u] # i /\ h[u] # NULL => result'[u] = result[u]
    BY <1>1, <1>5
  <2>3. HInv /\ i \in Info /\ Live(i)
    BY <1>1
  <2>4. /\ e \in [cl : Connection, refcnt : Nat, del : BOOLEAN, m : Address]
        /\ e.m = info[i].m /\ e.refcnt = info[i].refcnt
    BY <1>3
  <2>5. info' = [info EXCEPT ![i] = e]
    BY <1>3
  <2>6. /\ UNCHANGED <<hmap, h>>
        /\ pc' \in [Thread -> {"none", "handle", "bind"}]
        /\ result' \in [Thread -> {NULL, "failed", "rpcc"}]
    BY <1>4, <1>5
  <2>7. InfoChange(i, e)
    BY <2>1, <2>2, <2>3, <2>4, <2>5, <2>6 DEF InfoChange
  <2> HIDE DEF HInv
  <2> QED
    BY <2>3, <2>7, InfoChanges
<1>8. BindersAreAlone'
  BY <1>4, <1>5, <1>7 DEF BindersAreAlone, HandleTypeOK
<1>9. ResultsAreKept'
  <2>1. \A u \in Thread : h'[u] # NULL /\ result'[u] = "failed" => info'[h'[u]].del
    BY <1>1, <1>3, <1>4, <1>5, <1>7 DEF ResultsAreKept, HandleTypeOK
  <2>2. \A j \in Info : info'[j].m # NULL /\ info'[j].del /\ info'[j].m \notin Forgotten
                            => info'[j].cl = "none"
    BY <1>1, <1>3, <1>4, <1>7 DEF ResultsAreKept, Live
  <2> QED
    BY <1>4, <1>5, <2>1, <2>2 DEF ResultsAreKept, Live
<1> QED
  BY <1>7, <1>8, <1>9

-----------------------------------------------------------------------------
\* A hinfo that nobody holds, or held but for the thread that is done, is deleted.
LEMMA DeletionKeeps ==
  ASSUME HInv, NEW i \in Info, Live(i), NEW m \in Address, m = info[i].m, hmap[m] = i,
         info' = [info EXCEPT ![i] = Deleted],
         hmap' = [hmap EXCEPT ![m] = NULL],
         h' \in [Thread -> Info \cup {NULL}],
         pc' \in [Thread -> {"none", "handle", "bind"}],
         result' \in [Thread -> {NULL, "failed", "rpcc"}],
         \A u \in Thread : /\ h'[u] # i
                           /\ h[u] # i => /\ h'[u] = h[u] /\ pc'[u] = pc[u]
                                          /\ result'[u] = result[u]
                           /\ h[u] = i => h'[u] = NULL /\ pc'[u] = "none" /\ result'[u] = NULL
  PROVE  HInv'
<1> USE NULLIsNone DEF HInv
<1>1. /\ info'[i] = Deleted /\ \A j \in Info \ {i} : info'[j] = info[j]
      /\ hmap'[m] = NULL /\ \A n \in Address \ {m} : hmap'[n] = hmap[n]
      /\ Deleted.m = NULL
  BY DEF HandleTypeOK, Deleted
<1>2. HandleTypeOK'
  BY DEF HandleTypeOK
<1>3. HandlesAreLive'
  <2>1. ASSUME NEW n \in Address, hmap'[n] # NULL
        PROVE  info'[hmap'[n]].m # NULL /\ info'[hmap'[n]].m = n
    <3>1. n # m /\ hmap'[n] = hmap[n]
      BY <1>1, <2>1
    <3>2. hmap[n] \in Info /\ info[hmap[n]].m = n /\ hmap[n] # i
      BY <2>1, <3>1 DEF HandlesAreLive, HandleTypeOK
    <3> QED
      BY <1>1, <3>1, <3>2
  <2>2. ASSUME NEW u \in Thread, h'[u] # NULL
        PROVE  /\ info'[h'[u]].m # NULL
               /\ hmap'[info'[h'[u]].m] = h'[u]
               /\ result'[u] = "rpcc" => info'[h'[u]].cl = "bound"
    <3>1. h'[u] = h[u] /\ h[u] # i /\ result'[u] = result[u]
      BY <2>2
    <3>2. h[u] \in Info /\ Live(h[u]) /\ info[h[u]].m \in Address
      BY <2>2, <3>1, HolderHasInfo
    <3>3. hmap[info[h[u]].m] = h[u] /\ (result[u] = "rpcc" => info[h[u]].cl = "bound")
      BY <2>2, <3>1 DEF HandlesAreLive
    <3>4. info[h[u]].m # m
      BY <3>1, <3>3
    <3> QED
      BY <1>1, <3>1, <3>2, <3>3, <3>4
  <2> QED
    BY <2>1, <2>2 DEF HandlesAreLive, Live
<1>4. HandlesAreCounted'
  <2>1. \A j \in Info \ {i} : Holders(j)' = Holders(j)
    BY DEF Holders
  <2> QED
    BY <1>1, <2>1, CountsFollow DEF Live
<1>5. BindersAreAlone'
  BY <1>1 DEF BindersAreAlone, HandleTypeOK
<1>6. ResultsAreKept'
  <2>1. \A u \in Thread : h'[u] # NULL /\ result'[u] = "failed" => info'[h'[u]].del
    BY <1>1 DEF ResultsAreKept, HandleTypeOK
  <2>2. \A j \in Info : info'[j].m # NULL /\ info'[j].del /\ info'[j].m \notin Forgotten
                            => info'[j].cl = "none"
    BY <1>1 DEF ResultsAreKept, Live
  <2> QED
    BY <2>1, <2>2 DEF ResultsAreKept, Live
<1> QED
  BY <1>2, <1>3, <1>4, <1>5, <1>6

\* The destructor and done_handle.
LEMMA DoneHandleKeeps ==
  ASSUME HInv, NEW t \in Thread, DoneHandle(t)
  PROVE  HInv'
<1> USE NULLIsNone DEF HInv
<1>1. /\ pc[t] = "handle"
      /\ h' = [h EXCEPT ![t] = NULL]
      /\ pc' = [pc EXCEPT ![t] = "none"]
      /\ result' = [result EXCEPT ![t] = NULL]
  BY DEF DoneHandle
<1>2. /\ h'[t] = NULL /\ pc'[t] = "none" /\ result'[t] = NULL
      /\ \A u \in Thread \ {t} : h'[u] = h[u] /\ pc'[u] = pc[u] /\ result'[u] = result[u]
      /\ h' \in [Thread -> Info \cup {NULL}]
      /\ pc' \in [Thread -> {"none", "handle", "bind"}]
      /\ result' \in [Thread -> {NULL, "failed", "rpcc"}]
  BY <1>1 DEF HandleTypeOK
<1>3. CASE h[t] = NULL
  <2>1. UNCHANGED <<hmap, info>> /\ h' = h
    BY <1>1, <1>3 DEF DoneHandle, HandleTypeOK
  <2>2. HandleTypeOK' /\ HandlesAreLive'
    BY <1>2, <2>1 DEF HandleTypeOK, HandlesAreLive, Live
  <2>3. HandlesAreCounted' /\ BindersAreAlone' /\ ResultsAreKept'
    BY <1>2, <1>3, <2>1 DEF HandlesAreCounted, BindersAreAlone, ResultsAreKept, Live
  <2> QED
    BY <2>2, <2>3
<1>4. CASE h[t] # NULL
  <2>1. PICK i \in Info : i = h[t] /\ Live(i) /\ info[i].m \in Address
    BY <1>4, HolderHasInfo
  <2>2. hmap[info[i].m] = i
    BY <1>4, <2>1 DEF HandlesAreLive
  <2>3. /\ Cardinality(Holders(i)) \in Nat \ {0}
        /\ Cardinality(Holders(i)') = Cardinality(Holders(i)) - 1
        /\ \A j \in Info \ {i} : Holders(j)' = Holders(j)
    <3>1. {u \in Thread : h'[u] = i} = Holders(i)'
      BY DEF Holders
    <3> QED
      BY <1>1, <2>1, <3>1, DoneCounts
  <2>4. info[i].refcnt = Cardinality(Holders(i))
    BY <2>1 DEF HandlesAreCounted, Holders
  <2>5. CASE info[i].refcnt - 1 = 0 /\ info[i].del
    <3>1. /\ info' = [info EXCEPT ![i] = Deleted]
          /\ hmap' = [hmap EXCEPT ![info[i].m] = NULL]
      BY <1>4, <2>1, <2>2, <2>5 DEF DoneHandle, DeleteHandleWo
    <3>2. Cardinality(Holders(i)') = 0
      BY <2>3, <2>4, <2>5
    <3>3. \A u \in Thread : h'[u] # i
      <4>1. IsFiniteSet(Holders(i)')
        BY ThreadsAreFinite, FS_Subset DEF Holders
      <4>2. Holders(i)' = {}
        BY <3>2, <4>1, FS_EmptySet
      <4> QED
        BY <4>2 DEF Holders
    <3>4. \A u \in Thread : h[u] = i => u = t
      BY <1>2, <3>3
    <3> QED
      BY <1>2, <2>1, <2>2, <3>1, <3>3, <3>4, DeletionKeeps
  <2>6. CASE ~(info[i].refcnt - 1 = 0 /\ info[i].del)
    <3> DEFINE e == [info[i] EXCEPT !.refcnt = info[i].refcnt - 1]
    <3>1. info' = [info EXCEPT ![i] = e] /\ UNCHANGED hmap
      BY <1>4, <2>1, <2>6 DEF DoneHandle
    <3>2. info[i].refcnt - 1 \in Nat /\ info[i].refcnt - 1 = Cardinality(Holders(i)')
      BY <2>3, <2>4
    <3>3. /\ e \in [cl : Connection, refcnt : Nat, del : BOOLEAN, m : Address]
          /\ e.cl = info[i].cl /\ e.del = info[i].del /\ e.m = info[i].m
          /\ e.refcnt = Cardinality(Holders(i)')
      BY <2>1, <3>2, InfoShape
    <3> HIDE DEF e
    <3>4. info'[i] = e /\ \A j \in Info \ {i} : info'[j] = info[j]
      BY <3>1 DEF HandleTypeOK
    <3>5. HandleTypeOK'
      BY <1>2, <3>1, <3>3 DEF HandleTypeOK
    <3>6. HandlesAreLive'
      BY <1>2, <2>1, <3>1, <3>3, <3>4 DEF HandlesAreLive, Live, HandleTypeOK
    <3>7. HandlesAreCounted'
      BY <2>1, <2>3, <3>3, <3>4, CountsFollow DEF Live
    <3>8. BindersAreAlone'
      BY <1>2, <3>3, <3>4 DEF BindersAreAlone, HandleTypeOK
    <3>9. ResultsAreKept'
      <4>1. \A u \in Thread : h'[u] # NULL /\ result'[u] = "failed" => info'[h'[u]].del
        BY <1>2, <3>3, <3>4 DEF ResultsAreKept, HandleTypeOK
      <4>2. \A j \in Info : info'[j].m # NULL /\ info'[j].del /\ info'[j].m \notin Forgotten
                                => info'[j].cl = "none"
        BY <2>1, <3>3, <3>4 DEF ResultsAreKept, Live
      <4> QED
        BY <1>2, <4>1, <4>2 DEF ResultsAreKept, Live
    <3> QED
      BY <3>5, <3>6, <3>7, <3>8, <3>9
  <2> QED
    BY <2>5, <2>6
<1> QED
  BY <1>3, <1>4

LEMMA DeleteHandleKeeps ==
  ASSUME HInv, NEW m \in Address, DeleteHandle(m)
  PROVE  HInv'
<1> USE NULLIsNone DEF HInv
<1>1. PICK i \in Info : i = hmap[m] /\ Live(i) /\ info[i].m = m
  BY DEF DeleteHandle, HandleTypeOK, HandlesAreLive
<1>2. /\ m \in Forgotten
      /\ UNCHANGED <<h, pc, result>>
      /\ info[i].refcnt = Cardinality(Holders(i))
  BY <1>1 DEF DeleteHandle, HandlesAreCounted, Holders
<1>3. CASE info[i].refcnt = 0
  <2>1. /\ info' = [info EXCEPT ![i] = Deleted]
        /\ hmap' = [hmap EXCEPT ![m] = NULL]
    BY <1>1, <1>3 DEF DeleteHandle, DeleteHandleWo
  <2>2. Holders(i) = {}
    BY <1>2, <1>3, HoldersAreFinite, FS_EmptySet
  <2>3. \A u \in Thread : h[u] # i
    BY <2>2 DEF Holders
  <2>4. /\ h' \in [Thread -> Info \cup {NULL}]
        /\ pc' \in [Thread -> {"none", "handle", "bind"}]
        /\ result' \in [Thread -> {NULL, "failed", "rpcc"}]
    BY <1>2 DEF HandleTypeOK
  <2> QED
    BY <1>1, <1>2, <2>1, <2>3, <2>4, DeletionKeeps
<1>4. CASE info[i].refcnt # 0
  <2> DEFINE e == [info[i] EXCEPT !.refcnt = info[i].refcnt, !.del = TRUE]
  <2>1. info[i] \in [cl : Connection, refcnt : Nat, del : BOOLEAN, m : Address]
    BY <1>1, InfoShape
  <2>2. info' = [info EXCEPT ![i] = e] /\ UNCHANGED hmap
    BY <1>1, <1>4, <2>1 DEF DeleteHandle, DeleteHandleWo, HandleTypeOK
  <2>3. /\ e \in [cl : Connection, refcnt : Nat, del : BOOLEAN, m : Address]
        /\ e.cl = info[i].cl /\ e.del = TRUE /\ e.m = m
        /\ e.refcnt = info[i].refcnt
    BY <1>1, <2>1
  <2> HIDE DEF e
  <2>4. /\ HandleTypeOK' /\ HandlesAreLive' /\ HandlesAreCounted'
        /\ info'[i] = e
        /\ \A j \in Info \ {i} : info'[j] = info[j]
    <3>1. \A u \in Thread : h[u] = i /\ result'[u] = "rpcc" => e.cl = "bound"
      BY <1>1, <1>2, <2>3 DEF HandlesAreLive
    <3>2. \A u \in Thread : h[u] # i /\ h[u] # NULL => result'[u] = result[u]
      BY <1>2
    <3>3. /\ pc' \in [Thread -> {"none", "handle", "bind"}]
          /\ result' \in [Thread -> {NULL, "failed", "rpcc"}]
      BY <1>2 DEF HandleTypeOK
    <3>4. UNCHANGED <<hmap, h>>
      BY <1>2, <2>2
    <3>5. InfoChange(i, e)
      BY <1>1, <2>2, <2>3, <3>1, <3>2, <3>3, <3>4 DEF InfoChange
    <3>6. HInv
      OBVIOUS
    <3> HIDE DEF HInv
    <3> QED
      BY <1>1, <3>5, <3>6, InfoChanges
  <2>5. BindersAreAlone'
    BY <1>2, <2>3, <2>4 DEF BindersAreAlone, HandleTypeOK
  <2>6. ResultsAreKept'
    <3>1. \A u \in Thread : h[u] # NULL /\ result[u] = "failed" => info'[h[u]].del
      BY <2>3, <2>4 DEF ResultsAreKept, HandleTypeOK
    <3>2. \A j \in Info : info'[j].m # NULL /\ info'[j].del /\ info'[j].m \notin Forgotten
                              => info'[j].cl = "none"
      BY <1>2, <2>3, <2>4 DEF ResultsAreKept, Live
    <3> QED
      BY <1>2, <3>1, <3>2 DEF ResultsAreKept, Live
  <2> QED
    BY <2>4, <2>5, <2>6
<1> QED
  BY <1>3, <1>4

-----------------------------------------------------------------------------
LEMMA HInvIsInductive == HInv /\ [HandleNext]_handleVars => HInv'
<1> SUFFICES ASSUME HInv, [HandleNext]_handleVars PROVE HInv'
  OBVIOUS
<1>1. CASE UNCHANGED handleVars
  <2> USE <1>1 DEF handleVars, HInv
  <2>1. HandleTypeOK' /\ HandlesAreLive' /\ HandlesAreCounted'
    BY DEF HandleTypeOK, HandlesAreLive, HandlesAreCounted, Live
  <2>2. BindersAreAlone' /\ ResultsAreKept'
    BY DEF BindersAreAlone, ResultsAreKept, Live
  <2> QED
    BY <2>1, <2>2
<1>2. ASSUME NEW t \in Thread, HandleStep(t) PROVE HInv'
  BY <1>2, SafebindReturnsKeeps, SafebindBindsKeeps, BindReturnsKeeps, DoneHandleKeeps
     DEF HandleStep
<1>3. ASSUME NEW t \in Thread, NEW m \in Address, GetHandle(t, m) PROVE HInv'
  BY <1>3, GetHandleKeeps
<1>4. ASSUME NEW m \in Address, DeleteHandle(m) PROVE HInv'
  BY <1>4, DeleteHandleKeeps
<1> QED
  BY <1>1, <1>2, <1>3, <1>4 DEF HandleNext

\* However threads make and destroy handles and however their binds end, the table, the
\* handles and the answers of safebind stay in step.
THEOREM HandleInvariance == HandleSpec => []HInv
BY InitHasHandles, HInvIsInductive, PTL DEF HandleSpec

\* The variables of the handle manager have values of their types.
THEOREM HandleTypeCorrect == HandleSpec => []HandleTypeOK
BY HandleInvariance, PTL DEF HInv

\* No thread has a handle to a hinfo that has been deleted, uses a connection that is not
\* there, or has another one than those with the same destination (get_handle, done_handle).
THEOREM HandlesStayLive == HandleSpec => []HandlesAreLive
BY HandleInvariance, PTL DEF HInv

\* refcnt is the number of handles at any time, however they come and go.
THEOREM HandlesStayCounted == HandleSpec => []HandlesAreCounted
BY HandleInvariance, PTL DEF HInv

\* The first answer of safebind is the answer of all later calls on the handle.
THEOREM SafebindAnswersOnce == HandleSpec => SafebindSticks
<1>1. ASSUME HInv, [HandleNext]_handleVars, NEW t \in Thread,
             result[t] # NULL, h[t] # NULL, h'[t] = h[t], info[h[t]].m \notin Forgotten
      PROVE  result'[t] = result[t]
  <2> USE NULLIsNone, <1>1 DEF HInv
  <2>1. pc[t] = "handle"
    BY DEF ResultsAreKept, BindersAreAlone, HandleTypeOK
  <2>2. h[t] \in Info /\ Live(h[t])
    BY HolderHasInfo
  <2>3. CASE SafebindReturns(t)
    <3>1. PICK r : /\ result' = [result EXCEPT ![t] = r]
                   /\ \/ r = "failed" /\ info[h[t]].del
                      \/ r = "rpcc" /\ ~info[h[t]].del
      BY <2>3 DEF SafebindReturns, Return
    <3>2. result'[t] = r
      BY <3>1 DEF HandleTypeOK
    <3>3. result[t] = "failed" => info[h[t]].del
      BY DEF ResultsAreKept
    <3>4. result[t] = "rpcc" => ~info[h[t]].del
      BY <2>2 DEF ResultsAreKept, HandlesAreLive
    <3>5. result[t] \in {"failed", "rpcc"}
      BY DEF HandleTypeOK
    <3> QED
      BY <3>1, <3>2, <3>3, <3>4, <3>5
  <2>4. CASE DoneHandle(t)
    BY <2>4 DEF DoneHandle, HandleTypeOK
  <2>5. ASSUME NEW u \in Thread \ {t}, HandleStep(u) PROVE result'[t] = result[t]
    BY <2>5 DEF HandleStep, SafebindReturns, SafebindBinds, Bound, BindFailed, DoneHandle,
                Return, HandleTypeOK
  <2>6. CASE SafebindBinds(t) \/ Bound(t) \/ BindFailed(t)
    BY <2>1, <2>6 DEF SafebindBinds, Bound, BindFailed
  <2>7. CASE UNCHANGED result
    BY <2>7
  <2> QED
    BY <2>3, <2>4, <2>5, <2>6, <2>7
       DEF HandleNext, HandleStep, GetHandle, DeleteHandle, handleVars
<1>2. HInv /\ [HandleNext]_handleVars =>
        [\A t \in Thread :
           result[t] # NULL /\ h[t] # NULL /\ h'[t] = h[t] /\ info[h[t]].m \notin Forgotten
             => result'[t] = result[t]]_handleVars
  BY <1>1
<1> QED
  BY <1>2, HandleInvariance, PTL DEF HandleSpec, SafebindSticks

=============================================================================
