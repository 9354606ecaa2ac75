------------------------- MODULE HeaderStoreProofs -------------------------
(***************************************************************************)
(* Proofs about the header tree for every tree of headers and every value  *)
(* of the limits: the active chain stays linked and stored, best_known_tip *)
(* stays the heaviest candidate, and the active chain never loses work.    *)
(***************************************************************************)
EXTENDS HeaderStore, TLAPS

---------------------------------------------------------------------------
\* The chain of a header is a non-empty sequence that ends in the header.
LEMMA ChainShape ==
    ASSUME NEW h \in Hash
    PROVE  /\ Chain[h] \in Seq(Hash)
           /\ Len(Chain[h]) \in Nat \ {0}
           /\ Last(Chain[h]) = h
           /\ Depth(h) \in Nat
  <1>1. Chain[h] \in Seq(Hash)
    BY ChainAssumption
  <1>2. CASE h = Genesis
    BY <1>2, ChainAssumption DEF Last, Depth
  <1>3. CASE h # Genesis
    <2>1. /\ Len(Chain[h]) > 1
          /\ Chain[h] = Append(Chain[Prev(h)], h)
      BY <1>3, ChainAssumption
    <2>2. Prev(h) \in Hash
      BY <1>1, <2>1 DEF Prev
    <2>3. Chain[Prev(h)] \in Seq(Hash)
      BY <2>2, ChainAssumption
    <2> QED
      BY <1>1, <2>1, <2>3 DEF Last, Depth
  <1> QED
    BY <1>2, <1>3

\* The parent of a header: its chain is the header's chain less the header.
LEMMA ParentChain ==
    ASSUME NEW h \in Hash \ {Genesis}
    PROVE  /\ Prev(h) \in Hash
           /\ Chain[h] = Append(Chain[Prev(h)], h)
           /\ Depth(h) = Depth(Prev(h)) + 1
  <1>1. /\ Len(Chain[h]) > 1
        /\ Chain[h] = Append(Chain[Prev(h)], h)
        /\ Chain[h] \in Seq(Hash)
    BY ChainAssumption
  <1>2. Prev(h) \in Hash
    BY <1>1 DEF Prev
  <1>3. Chain[Prev(h)] \in Seq(Hash)
    BY <1>2, ChainAssumption
  <1> QED
    BY <1>1, <1>2, <1>3 DEF Depth

\* An ancestor stands in a chain at the position its own depth gives.
LEMMA PositionIsDepth ==
    ASSUME NEW h \in Hash, NEW i \in 1 .. Len(Chain[h])
    PROVE  /\ Chain[h][i] \in Hash
           /\ Depth(Chain[h][i]) = i - 1
  <1>1. Chain[h] \in Seq(Hash)
    BY ChainShape
  <1>2. Chain[h][i] \in Hash
    BY <1>1
  <1>3. Chain[Chain[h][i]] = SubSeq(Chain[h], 1, i)
    BY ChainAssumption, SMTT(30)
  <1>4. Len(SubSeq(Chain[h], 1, i)) = i
    BY <1>1
  <1> QED
    BY <1>2, <1>3, <1>4 DEF Depth

\* remove_fork deletes neither an active header nor a header that is not on
\* the chain of the tip it is given.
LEMMA SegmentNotActive ==
    ASSUME NEW t \in Hash
    PROVE  ForkSegment(t) \cap ActiveSet = {}
  <1> SUFFICES ASSUME NEW x \in ForkSegment(t)
               PROVE  x \notin ActiveSet
    OBVIOUS
  <1>1. PICK j \in 1 .. Len(Chain[t]) : x = Chain[t][j]
    BY DEF ForkSegment, Members
  <1>2. Depth(x) + 1 = j
    BY <1>1, PositionIsDepth, ChainShape
  <1>3. Chain[t][Depth(x) + 1] \in Known \ ActiveSet
    BY <1>1, <1>2, ChainShape, SMTT(30) DEF ForkSegment
  <1> QED
    BY <1>1, <1>2, <1>3

\* What recompute_best_tip returns is stored and outweighs the active tip and
\* every tip.
LEMMA RecomputedCovers ==
    ASSUME NEW S \in SUBSET Hash, NEW bh \in [S -> Entry],
           NEW chain, Last(chain) \in S, NEW ts,
           NEW b \in RecomputedBest(bh, chain, ts)
    PROVE  /\ b = [hash |-> b.hash, work |-> b.work]
           /\ b.hash \in S
           /\ b.work = bh[b.hash].chainwork
           /\ \A h \in {Last(chain)} \cup (ts \cap S) :
                bh[h].chainwork <= bh[b.hash].chainwork
  <1> DEFINE work(h) == bh[h].chainwork
             cands == {t \in ts \cap DOMAIN bh : work(t) > work(Last(chain))}
             heaviest == {t \in cands : \A u \in cands : work(u) <= work(t)}
  <1>1. \A h \in S : work(h) \in Nat
    BY DEF Entry
  <1>2. PICK t \in IF cands = {} THEN {Last(chain)} ELSE heaviest :
            b = [hash |-> t, work |-> work(t)]
    BY DEF RecomputedBest
  <1>3. t \in S
    BY <1>2
  <1>4. \A h \in {Last(chain)} \cup (ts \cap S) : work(h) <= work(t)
    <2>1. CASE cands = {}
      BY <1>1, <1>2, <2>1
    <2>2. CASE cands # {}
      BY <1>1, <1>2, <2>2
    <2> QED
      BY <2>1, <2>2
  <1> QED
    BY <1>2, <1>3, <1>4

---------------------------------------------------------------------------
\* A table of headers: heights are depths, and no header has less work than
\* genesis.
StoreOK(f) ==
    /\ DOMAIN f \subseteq Hash
    /\ f \in [DOMAIN f -> Entry]
    /\ \A h \in DOMAIN f :
         /\ f[h].height = Depth(h)
         /\ f[h].chainwork >= Work[Genesis]
         /\ h = Genesis => f[h].chainwork = Work[Genesis]

StoresInv ==
    /\ StoreOK(by_hash)
    /\ StoreOK(disk)
    /\ \A b \in unpersisted : StoreOK(b)
    /\ Genesis \in DOMAIN disk
    /\ batch \subseteq Known

LinkInv ==
    /\ active_chain \in Seq(Hash)
    /\ active_chain # <<>>
    /\ active_chain = Chain[ActiveTip]
    /\ ActiveSet \subseteq Known

\* The headers the commit loop still has to insert form a chain on top of the
\* active tip, and none of them is stored.
CommitInv ==
    /\ todo \in Seq(Hash \ {Genesis})
    /\ phase # "commit" => batch = {}
    /\ phase = "commit" =>
         /\ todo # <<>>
         /\ Prev(todo[1]) = ActiveTip
         /\ \A i \in 1 .. Len(todo) :
              /\ todo[i] \notin Known
              /\ i > 1 => Prev(todo[i]) = todo[i - 1]
         /\ \A i, j \in 1 .. Len(todo) : todo[i] = todo[j] => i = j

\* Outside the purge loops best_known_tip covers the active tip and all tips.
\* The recorded work is that of the header, except for the default that a
\* load without a valid tip leaves.
BestInv ==
    /\ best_known_tip \in [hash : Hash, work : Nat]
    /\ phase \in {"startup", "idle", "commit"} =>
         /\ best_known_tip.hash \in Known
         /\ \/ best_known_tip.work = by_hash[best_known_tip.hash].chainwork
            \/ /\ best_known_tip.work = 0
               /\ by_hash[best_known_tip.hash].chainwork = Work[Genesis]
         /\ \A h \in {ActiveTip} \cup (tips \cap Known) :
              by_hash[h].chainwork <= by_hash[best_known_tip.hash].chainwork

RestInv ==
    /\ tips \subseteq Hash
    /\ invalid_tips \subseteq Hash
    /\ backend \in BOOLEAN
    /\ disk_invalid \subseteq Hash
    /\ phase \in {"startup", "idle", "commit", "purge_age", "purge_count"}
    /\ doomed \subseteq Hash
    /\ lost \subseteq Hash
    /\ reorgs \in Nat
    /\ restarts \in 0 .. MaxRestarts

\* The inductive invariant. Linkedness alone is not inductive: a commit step
\* needs the chain of headers it works through, and a reload the heights of
\* the headers on disk.
IInv == StoresInv /\ LinkInv /\ CommitInv /\ BestInv /\ RestInv

\* Writing one table over another.
LEMMA MergeOK ==
    ASSUME NEW f, NEW k, StoreOK(f), StoreOK(k)
    PROVE  /\ StoreOK(Merge(f, k))
           /\ DOMAIN Merge(f, k) = DOMAIN f \cup DOMAIN k
           /\ \A x \in DOMAIN f : Merge(f, k)[x] = f[x]
           /\ \A x \in DOMAIN k \ DOMAIN f : Merge(f, k)[x] = k[x]
  <1>1. /\ DOMAIN Merge(f, k) = DOMAIN f \cup DOMAIN k
        /\ \A x \in DOMAIN f : Merge(f, k)[x] = f[x]
        /\ \A x \in DOMAIN k \ DOMAIN f : Merge(f, k)[x] = k[x]
    BY DEF Merge
  <1>2. Merge(f, k) \in [DOMAIN f \cup DOMAIN k -> Entry]
    BY DEF Merge, StoreOK
  <1> QED
    BY <1>1, <1>2 DEF StoreOK

\* Deleting headers from a table.
LEMMA WithoutOK ==
    ASSUME NEW f, NEW S, StoreOK(f)
    PROVE  /\ StoreOK(Without(f, S))
           /\ DOMAIN Without(f, S) = DOMAIN f \ S
           /\ \A x \in DOMAIN f \ S : Without(f, S)[x] = f[x]
  <1>1. /\ DOMAIN Without(f, S) = DOMAIN f \ S
        /\ \A x \in DOMAIN f \ S : Without(f, S)[x] = f[x]
        /\ Without(f, S) \in [DOMAIN f \ S -> Entry]
    BY DEF Without, StoreOK
  <1> QED
    BY <1>1 DEF StoreOK

\* The entry of a new header, one above its parent.
LEMMA NewEntryOK ==
    ASSUME StoreOK(by_hash), NEW h \in Hash \ {Genesis}, Prev(h) \in Known,
           NEW e, e = EntryOn(h)
    PROVE  /\ e \in Entry
           /\ e.height = Depth(h)
           /\ e.chainwork > by_hash[Prev(h)].chainwork
           /\ e.chainwork >= Work[Genesis]
           /\ StoreOK([x \in {h} |-> e])
  <1>1. /\ by_hash[Prev(h)] \in Entry
        /\ by_hash[Prev(h)].height = Depth(Prev(h))
        /\ by_hash[Prev(h)].chainwork >= Work[Genesis]
    BY DEF StoreOK, Known
  <1>2. Work[h] \in Nat \ {0} /\ Work[Genesis] \in Nat
    BY ParameterAssumption, ChainAssumption
  <1>3. Depth(h) = Depth(Prev(h)) + 1
    BY ParentChain
  <1>4. /\ e \in Entry
        /\ e.height = Depth(h)
        /\ e.chainwork > by_hash[Prev(h)].chainwork
        /\ e.chainwork >= Work[Genesis]
    BY <1>1, <1>2, <1>3 DEF Entry, EntryOn
  <1>5. StoreOK([x \in {h} |-> e])
    BY <1>4 DEF StoreOK
  <1> QED
    BY <1>4, <1>5

\* The table of a fresh store.
LEMMA FreshOK == StoreOK(Fresh) /\ DOMAIN Fresh = {Genesis}
  <1>1. Depth(Genesis) = 0
    BY ChainAssumption DEF Depth
  <1>2. Work[Genesis] \in Nat
    BY ParameterAssumption, ChainAssumption
  <1> QED
    BY <1>1, <1>2, ChainAssumption DEF Fresh, StoreOK, Entry

\* Appending a child of the active tip keeps active_chain the chain of its tip.
LEMMA AppendLinked ==
    ASSUME LinkInv, NEW h \in Hash \ {Genesis}, Prev(h) = ActiveTip
    PROVE  /\ Append(active_chain, h) \in Seq(Hash)
           /\ Append(active_chain, h) # <<>>
           /\ Last(Append(active_chain, h)) = h
           /\ Append(active_chain, h) = Chain[h]
           /\ Members(Append(active_chain, h)) = ActiveSet \cup {h}
  <1>1. active_chain \in Seq(Hash)
    BY DEF LinkInv
  <1>2. Append(active_chain, h) = Chain[h]
    BY ParentChain DEF LinkInv
  <1>3. Members(Append(active_chain, h)) = ActiveSet \cup {h}
    BY <1>1 DEF Members, ActiveSet
  <1>4. /\ Chain[h] \in Seq(Hash)
        /\ Len(Chain[h]) # 0
        /\ Last(Chain[h]) = h
    BY ChainShape
  <1> QED
    BY <1>2, <1>3, <1>4

\* The active tip is a stored header.
LEMMA ActiveTipKnown ==
    ASSUME LinkInv
    PROVE  ActiveTip \in ActiveSet /\ ActiveTip \in Known /\ ActiveTip \in Hash
  BY DEF LinkInv, ActiveTip, ActiveSet, Members, Last

\* The whole chain of any stored tip is a possible active chain.
LEMMA ChainLinked ==
    ASSUME NEW h \in Hash
    PROVE  /\ Chain[h] \in Seq(Hash)
           /\ Chain[h] # <<>>
           /\ Chain[h] = Chain[Last(Chain[h])]
  BY ChainShape

---------------------------------------------------------------------------
\* Init establishes the invariant: a store with genesis only.
LEMMA InitIInv == Init => IInv
  <1> SUFFICES ASSUME Init PROVE IInv
    OBVIOUS
  <1> USE DEF Init
  <1>1. StoreOK(Fresh) /\ DOMAIN Fresh = {Genesis}
    BY FreshOK
  <1>2. Genesis \in Hash /\ Chain[Genesis] = <<Genesis>>
    BY ChainAssumption
  <1>3. Work[Genesis] \in Nat /\ MaxRestarts \in Nat
    BY ParameterAssumption, ChainAssumption
  <1>4. ActiveTip = Genesis
    BY DEF ActiveTip, Last
  <1>5. StoresInv
    BY <1>1 DEF StoresInv, Known
  <1>6. LinkInv
    BY <1>1, <1>2, <1>4 DEF LinkInv, ActiveSet, Members, Known
  <1>7. CommitInv
    BY DEF CommitInv
  <1>8. BestInv
    BY <1>1, <1>2, <1>3, <1>4 DEF BestInv, Known, Fresh
  <1>9. RestInv
    BY <1>2, <1>3 DEF RestInv
  <1> QED
    BY <1>5, <1>6, <1>7, <1>8, <1>9 DEF IInv

\* A validated batch waits for the commit loop.
LEMMA ValidateStep ==
    ASSUME IInv, NEW fresh \in Messages, ValidateAndCommit(fresh)
    PROVE  IInv'
  <1> USE DEF ValidateAndCommit, memory, stored, tasks
  <1>1. /\ fresh \in Seq(Hash \ {Genesis})
        /\ \A i, j \in 1 .. Len(fresh) : fresh[i] = fresh[j] => i = j
    BY ParameterAssumption, SMTT(30) DEF Messages
  <1>2. fresh # <<>> /\ Len(fresh) \in Nat
    BY <1>1
  <1>3. \A i \in 1 .. Len(fresh) :
          /\ Prev(fresh[i]) = IF i = 1 THEN ActiveTip ELSE fresh[i - 1]
          /\ fresh[i] \notin Known
    BY <1>1 DEF ValidBatch, Members
  <1>4. 1 \in 1 .. Len(fresh)
    BY <1>1, <1>2
  <1>5. Prev(fresh[1]) = ActiveTip
    BY <1>3, <1>4
  <1>6. Known' = Known /\ ActiveTip' = ActiveTip /\ ActiveSet' = ActiveSet
    BY DEF Known, ActiveTip, ActiveSet
  <1>7. CommitInv'
    BY <1>1, <1>2, <1>3, <1>5, <1>6, SMTT(30) DEF CommitInv
  <1>8. StoresInv' /\ LinkInv' /\ BestInv' /\ RestInv'
    BY <1>6, SMTT(30) DEF IInv, StoresInv, LinkInv, BestInv, RestInv
  <1> QED
    BY <1>7, <1>8 DEF IInv

\* Inserting one header into the tree as accept_header and commit_to_memory
\* do: tables, tips and best tip stay consistent.
LEMMA InsertStep ==
    ASSUME StoreOK(by_hash), LinkInv, BestInv, tips \subseteq Hash,
           phase \in {"idle", "commit"},
           NEW h \in Hash \ {Genesis}, h \notin Known, Prev(h) \in Known,
           NEW e, e = EntryOn(h),
           by_hash' = Merge([x \in {h} |-> e], by_hash),
           tips' = (tips \ {Prev(h)}) \cup {h},
           best_known_tip' = IF e.chainwork > best_known_tip.work
                             THEN [hash |-> h, work |-> e.chainwork]
                             ELSE best_known_tip,
           ActiveTip' \in {ActiveTip, h}
    PROVE  /\ StoreOK(by_hash')
           /\ Known' = Known \cup {h}
           /\ by_hash'[h] = e
           /\ \A x \in Known : by_hash'[x] = by_hash[x]
           /\ BestInv'
  <1>1. /\ e \in Entry
        /\ e.chainwork >= Work[Genesis]
        /\ StoreOK([x \in {h} |-> e])
    BY NewEntryOK, ZenonT(30)
  <1>2. /\ StoreOK(by_hash')
        /\ Known' = Known \cup {h}
        /\ by_hash'[h] = e
        /\ \A x \in Known : by_hash'[x] = by_hash[x]
    <2> DEFINE one == [x \in {h} |-> e]
    <2>1. StoreOK(one)
      BY <1>1
    <2>2. DOMAIN one = {h} /\ one[h] = e
      OBVIOUS
    <2> HIDE DEF one
    <2>3. /\ StoreOK(Merge(one, by_hash))
          /\ DOMAIN Merge(one, by_hash) = DOMAIN one \cup DOMAIN by_hash
          /\ \A x \in DOMAIN one : Merge(one, by_hash)[x] = one[x]
          /\ \A x \in DOMAIN by_hash \ DOMAIN one : Merge(one, by_hash)[x] = by_hash[x]
      BY <2>1, MergeOK, ZenonT(30)
    <2>4. by_hash' = Merge(one, by_hash)
      BY DEF one
    <2>5. StoreOK(by_hash')
      BY <2>3, <2>4, Zenon
    <2> QED
      BY <2>2, <2>3, <2>4, <2>5, ZenonT(30) DEF Known
  <1>3. \A x \in Known' : by_hash'[x].chainwork \in Nat
    BY <1>2 DEF StoreOK, Known, Entry
  <1>4. Work[Genesis] \in Nat /\ e.chainwork \in Nat
    BY <1>1, ParameterAssumption, ChainAssumption DEF Entry
  <1>5. /\ best_known_tip.hash \in Known
        /\ best_known_tip.hash \in Hash
        /\ best_known_tip.work \in Nat
        /\ \/ best_known_tip.work = by_hash[best_known_tip.hash].chainwork
           \/ /\ best_known_tip.work = 0
              /\ by_hash[best_known_tip.hash].chainwork = Work[Genesis]
        /\ \A x \in {ActiveTip} \cup (tips \cap Known) :
             by_hash[x].chainwork <= by_hash[best_known_tip.hash].chainwork
    BY DEF BestInv
  <1>6. ActiveTip \in Known
    BY ActiveTipKnown, SMTT(30)
  <1>7. \A x \in {ActiveTip'} \cup (tips' \cap Known') :
          x # h => x \in ({ActiveTip} \cup (tips \cap Known)) /\ x \in Known
    BY <1>2, <1>6, SMTT(30)
  <1>8. CASE e.chainwork > best_known_tip.work
    <2>1. best_known_tip' = [hash |-> h, work |-> e.chainwork]
      BY <1>8, SMTT(30)
    <2>2. \A x \in {ActiveTip'} \cup (tips' \cap Known') :
            by_hash'[x].chainwork <= e.chainwork
      BY <1>2, <1>3, <1>4, <1>5, <1>7, <1>8, <1>1, SMTT(30)
    <2> QED
      BY <1>2, <1>4, <2>1, <2>2, SMTT(30) DEF BestInv
  <1>9. CASE ~(e.chainwork > best_known_tip.work)
    <2>1. best_known_tip' = best_known_tip
      BY <1>9, SMTT(30)
    <2>2. Work[Genesis] # 0
      BY ParameterAssumption, ChainAssumption, SMTT(30)
    <2>3. best_known_tip.work = by_hash[best_known_tip.hash].chainwork
      BY <1>1, <1>4, <1>5, <1>9, <2>2, SMTT(30)
    <2>4. \A x \in {ActiveTip'} \cup (tips' \cap Known') :
            by_hash'[x].chainwork <= by_hash'[best_known_tip.hash].chainwork
      BY <1>2, <1>3, <1>4, <1>5, <1>7, <1>9, <2>3, SMTT(30)
    <2> QED
      BY <1>2, <1>5, <2>1, <2>3, <2>4, ZenonT(30) DEF BestInv
  <1> QED
    BY <1>2, <1>8, <1>9

\* A part of a table, as the commit loop hands it to persist_batch.
LEMMA RestrictOK ==
    ASSUME NEW f, NEW S, StoreOK(f), S \subseteq DOMAIN f
    PROVE  StoreOK([x \in S |-> f[x]])
  BY DEF StoreOK

\* One iteration of the commit loop.
LEMMA CommitStep ==
    ASSUME IInv, CommitToMemory
    PROVE  IInv'
  <1> DEFINE h == todo[1]
             e == EntryOn(h)
             done == batch \cup {h}
  <1>1. /\ todo \in Seq(Hash \ {Genesis})
        /\ todo # <<>>
        /\ Prev(h) = ActiveTip
        /\ \A i \in 1 .. Len(todo) :
             /\ todo[i] \notin Known
             /\ i > 1 => Prev(todo[i]) = todo[i - 1]
        /\ \A i, j \in 1 .. Len(todo) : todo[i] = todo[j] => i = j
    BY ZenonT(30) DEF IInv, CommitInv, CommitToMemory
  <1>2. /\ h \in Hash \ {Genesis}
        /\ h \notin Known
        /\ Prev(h) \in Known
        /\ Head(todo) = h
    BY <1>1, ActiveTipKnown DEF IInv
  <1>3. /\ phase = "commit"
        /\ tips' = (tips \ {Prev(h)}) \cup {h}
        /\ by_hash' = Merge([x \in {h} |-> e], by_hash)
        /\ active_chain' = Append(active_chain, h)
        /\ best_known_tip' = IF e.chainwork > best_known_tip.work
                             THEN [hash |-> h, work |-> e.chainwork]
                             ELSE best_known_tip
        /\ todo' = Tail(todo)
        /\ IF Tail(todo) = <<>>
           THEN /\ phase' = "idle"
                /\ batch' = {}
                /\ unpersisted' = unpersisted \cup {[x \in done |-> by_hash'[x]]}
           ELSE /\ batch' = done
                /\ UNCHANGED <<phase, unpersisted>>
        /\ UNCHANGED <<invalid_tips, stored, doomed, lost, reorgs, restarts>>
    BY <1>2, ZenonT(30) DEF CommitToMemory
  <1>4. /\ ActiveTip' = h
        /\ LinkInv /\ BestInv /\ StoreOK(by_hash) /\ tips \subseteq Hash
        /\ active_chain' \in Seq(Hash)
        /\ active_chain' # <<>>
        /\ active_chain' = Chain[h]
        /\ ActiveSet' = ActiveSet \cup {h}
    BY <1>1, <1>2, <1>3, AppendLinked, SMTT(30)
    DEF IInv, ActiveTip, ActiveSet, RestInv, StoresInv
  <1> HIDE DEF h, e, done
  <1>5. /\ StoreOK(by_hash')
        /\ Known' = Known \cup {h}
        /\ by_hash'[h] = e
        /\ \A x \in Known : by_hash'[x] = by_hash[x]
        /\ BestInv'
    <2>1. e = EntryOn(h)
      BY DEF e
    <2> QED
      BY <1>2, <1>3, <1>4, <2>1, InsertStep, ZenonT(30)
  <1>6. LinkInv'
    BY <1>4, <1>5 DEF LinkInv
  <1>7. StoresInv'
    <2>1. batch \subseteq Known /\ done \subseteq Known'
      BY <1>5 DEF IInv, StoresInv, done
    <2>2. StoreOK([x \in done |-> by_hash'[x]])
      BY <1>5, <2>1, RestrictOK, SMTT(30) DEF Known
    <2>3. \A b \in unpersisted' : StoreOK(b)
      BY <1>3, <2>2, SMTT(30) DEF IInv, StoresInv
    <2> QED
      BY <1>3, <1>5, <2>1, <2>3 DEF IInv, StoresInv, stored
  <1>8. CommitInv'
    <2>1. todo' \in Seq(Hash \ {Genesis})
      BY <1>1, <1>3
    <2>2. CASE Tail(todo) = <<>>
      BY <1>3, <2>1, <2>2, SMTT(30) DEF CommitInv
    <2>3. CASE Tail(todo) # <<>>
      <3>1. /\ Len(todo') = Len(todo) - 1
            /\ Len(todo') >= 1
            /\ \A i \in 1 .. Len(todo') : todo'[i] = todo[i + 1]
        BY <1>1, <1>3, <2>3
      <3>2. Prev(todo'[1]) = ActiveTip'
        BY <1>1, <1>4, <3>1, SMTT(30) DEF h
      <3>3. \A i \in 1 .. Len(todo') :
              /\ todo'[i] \notin Known'
              /\ i > 1 => Prev(todo'[i]) = todo'[i - 1]
        BY <1>1, <1>5, <3>1, SMTT(30) DEF h
      <3>4. \A i, j \in 1 .. Len(todo') : todo'[i] = todo'[j] => i = j
        BY <1>1, <3>1
      <3> QED
        BY <1>3, <2>1, <2>3, <3>2, <3>3, <3>4, SMTT(30) DEF CommitInv
    <2> QED
      BY <2>2, <2>3
  <1>9. RestInv'
    BY <1>2, <1>3 DEF IInv, RestInv, stored
  <1> QED
    BY <1>5, <1>6, <1>7, <1>8, <1>9, SMTT(30) DEF IInv

\* persist_batch writes a batch, or drops it, and leaves the tree alone.
LEMMA PersistStep ==
    ASSUME IInv, NEW b \in unpersisted, PersistBatch(b)
    PROVE  IInv'
  <1> USE DEF PersistBatch, memory, locals
  <1>1. StoreOK(b) /\ StoreOK(disk) /\ Genesis \in DOMAIN disk
    BY DEF IInv, StoresInv
  <1>2. StoreOK(Merge(b, disk)) /\ Genesis \in DOMAIN Merge(b, disk)
    <2>1. /\ StoreOK(Merge(b, disk))
          /\ DOMAIN Merge(b, disk) = DOMAIN b \cup DOMAIN disk
      BY <1>1, MergeOK, Zenon
    <2> QED
      BY <1>1, <2>1
  <1>3. Known' = Known /\ ActiveTip' = ActiveTip /\ ActiveSet' = ActiveSet
    BY DEF Known, ActiveTip, ActiveSet
  <1>4. StoreOK(disk') /\ Genesis \in DOMAIN disk'
    BY <1>1, <1>2, SMTT(30)
  <1>5. lost' \subseteq Hash
    BY <1>1, SMTT(30) DEF IInv, RestInv, StoreOK
  <1>6. StoresInv'
    BY <1>3, <1>4, SMTT(30) DEF IInv, StoresInv
  <1>7. LinkInv' /\ CommitInv' /\ BestInv'
    BY <1>3, SMTT(30) DEF IInv, LinkInv, CommitInv, BestInv
  <1>8. RestInv'
    BY <1>5 DEF IInv, RestInv
  <1> QED
    BY <1>6, <1>7, <1>8 DEF IInv

\* accept_header adds one header to the tree and to redb.
LEMMA AcceptStep ==
    ASSUME IInv, NEW h \in Hash \ {Genesis}, AcceptHeader(h)
    PROVE  IInv'
  <1> DEFINE e == EntryOn(h)
             better == e.chainwork > best_known_tip.work
             extends == ActiveTip = Prev(h)
             one == [x \in {h} |-> e]
  <1>1. /\ phase = "idle"
        /\ h \notin Known
        /\ Prev(h) \in Known
        /\ disk' = IF backend THEN Merge(one, disk) ELSE disk
        /\ tips' = (tips \ {Prev(h)}) \cup {h}
        /\ by_hash' = Merge(one, by_hash)
        /\ best_known_tip' = IF e.chainwork > best_known_tip.work
                             THEN [hash |-> h, work |-> e.chainwork]
                             ELSE best_known_tip
        /\ active_chain' = IF better /\ extends THEN Append(active_chain, h)
                           ELSE active_chain
        /\ reorgs' = IF better /\ ~extends THEN reorgs + 1 ELSE reorgs
        /\ UNCHANGED <<invalid_tips, backend, disk_invalid, phase, todo, batch,
                       doomed, unpersisted, lost, restarts>>
    BY Zenon DEF AcceptHeader, locals
  <1>2. /\ LinkInv /\ BestInv /\ tips \subseteq Hash
        /\ StoreOK(by_hash) /\ StoreOK(disk) /\ Genesis \in DOMAIN disk
    BY SMTT(30) DEF IInv, RestInv, StoresInv
  <1>3. /\ active_chain' \in Seq(Hash)
        /\ active_chain' # <<>>
        /\ active_chain' = Chain[ActiveTip']
        /\ ActiveTip' \in {ActiveTip, h}
        /\ ActiveSet' \subseteq ActiveSet \cup {h}
    <2>1. CASE better /\ extends
      <3>1. active_chain' = Append(active_chain, h) /\ Prev(h) = ActiveTip
        BY <1>1, <2>1, SMTT(30)
      <3> QED
        BY <1>2, <3>1, AppendLinked, SMTT(30) DEF ActiveTip, ActiveSet
    <2>2. CASE ~(better /\ extends)
      BY <1>1, <1>2, <2>2, SMTT(30) DEF LinkInv, ActiveTip, ActiveSet
    <2> QED
      BY <2>1, <2>2, SMTT(30)
  <1>4. StoreOK(one)
    BY <1>1, <1>2, NewEntryOK, ZenonT(30)
  <1>5. e = EntryOn(h)
    OBVIOUS
  <1>6. /\ StoreOK(by_hash')
        /\ Known' = Known \cup {h}
        /\ BestInv'
    <2> HIDE DEF e
    <2> QED
      BY <1>1, <1>2, <1>3, <1>5, InsertStep, ZenonT(30)
  <1>7. StoreOK(disk') /\ Genesis \in DOMAIN disk'
    <2> HIDE DEF one
    <2>1. /\ StoreOK(Merge(one, disk))
          /\ DOMAIN Merge(one, disk) = DOMAIN one \cup DOMAIN disk
      BY <1>2, <1>4, MergeOK, Zenon
    <2> QED
      BY <1>1, <1>2, <2>1
  <1> HIDE DEF e, one, better, extends
  <1>8. StoresInv'
    BY <1>1, <1>6, <1>7, ZenonT(30) DEF IInv, StoresInv
  <1>9. LinkInv'
    BY <1>2, <1>3, <1>6, SMTT(30) DEF LinkInv
  <1>10. CommitInv'
    BY <1>1, SMTT(30) DEF IInv, CommitInv
  <1>11. RestInv'
    BY <1>1 DEF IInv, RestInv
  <1> QED
    BY <1>6, <1>8, <1>9, <1>10, <1>11 DEF IInv

---------------------------------------------------------------------------
\* switch_active_chain after a successful activation.
LEMMA ReorganizedStep ==
    ASSUME IInv, NEW cs \in Known, Reorganized(cs)
    PROVE  IInv'
  <1> DEFINE new_tip == best_known_tip.hash
  <1>1. /\ new_tip \in Hash
        /\ phase \in {"startup", "idle"}
        /\ Members(Chain[new_tip]) \subseteq Known
        /\ active_chain' = Chain[new_tip]
        /\ tips' = (tips \cup {ActiveTip}) \ {new_tip}
        /\ best_known_tip' \in RecomputedBest(by_hash, Chain[new_tip], tips')
        /\ doomed' = Stale(by_hash, tips', by_hash[new_tip].height)
        /\ phase' = "purge_age"
        /\ UNCHANGED <<by_hash, invalid_tips, stored, todo, batch, unpersisted,
                       lost, restarts>>
    <2>1. best_known_tip.hash \in Hash
      BY SMTT(30) DEF IInv, BestInv
    <2>2. phase \in {"startup", "idle"}
      BY SMTT(30) DEF Reorganized, ActivationDue
    <2> QED
      BY <2>1, <2>2, ZenonT(30) DEF Reorganized
  <1>2. reorgs' \in Nat
    BY SMTT(30) DEF Reorganized, ActivationDue, ActivationCounted, IInv, RestInv
  <1>3. ActiveTip \in Hash /\ Known' = Known
    BY <1>1, ActiveTipKnown, SMTT(30) DEF IInv, Known
  <1>4. LinkInv'
    <2>1. /\ Chain[new_tip] \in Seq(Hash)
          /\ Chain[new_tip] # <<>>
          /\ Last(Chain[new_tip]) = new_tip
      BY <1>1, ChainShape, SMTT(30)
    <2> HIDE DEF new_tip
    <2> QED
      BY <1>1, <1>3, <2>1, SMTT(30) DEF LinkInv, ActiveTip, ActiveSet
  <1>5. BestInv'
    <2>1. Last(Chain[new_tip]) \in Known /\ Known \subseteq Hash
      BY <1>1, ChainShape, SMTT(30) DEF IInv, BestInv, StoresInv, StoreOK, Known
    <2>2. by_hash \in [Known -> Entry]
      BY SMTT(30) DEF IInv, StoresInv, StoreOK, Known
    <2>3. /\ best_known_tip' = [hash |-> best_known_tip'.hash,
                                work |-> best_known_tip'.work]
          /\ best_known_tip'.hash \in Known
          /\ best_known_tip'.work = by_hash[best_known_tip'.hash].chainwork
      <3> HIDE DEF new_tip
      <3> QED
        BY <1>1, <2>1, <2>2, RecomputedCovers, SMTT(30)
    <2> QED
      BY <1>1, <2>1, <2>2, <2>3, SMTT(30) DEF BestInv, Entry
  <1>6. StoresInv' /\ CommitInv'
    BY <1>1, <1>3, SMTT(30) DEF IInv, StoresInv, CommitInv, stored
  <1>7. RestInv'
    BY <1>1, <1>2, <1>3, SMTT(30) DEF IInv, RestInv, Stale, stored
  <1> QED
    BY <1>4, <1>5, <1>6, <1>7, SMTT(30) DEF IInv

\* An iteration of a purge loop deletes fork headers only.
LEMMA RemoveForkKeeps ==
    ASSUME IInv, NEW t \in Hash, RemoveFork(t)
    PROVE  /\ StoreOK(by_hash')
           /\ Known' \subseteq Known
           /\ ActiveSet \subseteq Known'
           /\ \A x \in Known' : by_hash'[x] = by_hash[x]
  <1>1. StoreOK(by_hash) /\ ActiveSet \subseteq Known
    BY DEF IInv, StoresInv, LinkInv
  <1>2. ForkSegment(t) \cap ActiveSet = {}
    BY SegmentNotActive
  <1> DEFINE segment == ForkSegment(t)
  <1>3. by_hash' = Without(by_hash, segment)
    BY DEF RemoveFork
  <1> HIDE DEF segment
  <1>4. /\ StoreOK(Without(by_hash, segment))
        /\ DOMAIN Without(by_hash, segment) = DOMAIN by_hash \ segment
        /\ \A x \in DOMAIN by_hash \ segment : Without(by_hash, segment)[x] = by_hash[x]
    BY <1>1, WithoutOK, Zenon
  <1>5. StoreOK(by_hash')
    BY <1>3, <1>4, Zenon
  <1> QED
    BY <1>1, <1>2, <1>3, <1>4, <1>5, SMTT(30) DEF Known, segment

\* Both purge loops keep the invariant.
LEMMA PurgeStep ==
    ASSUME IInv, PurgeAge \/ PurgeCount
    PROVE  IInv'
  <1>1. PICK t \in doomed : RemoveFork(t) /\ doomed' = doomed \ {t}
    BY ZenonT(30) DEF PurgeAge, PurgeCount
  <1>2. /\ phase \in {"purge_age", "purge_count"}
        /\ UNCHANGED <<active_chain, best_known_tip, invalid_tips, stored, phase,
                       todo, batch, tasks, restarts>>
    BY SMTT(30) DEF PurgeAge, PurgeCount
  <1>3. t \in Hash /\ batch = {}
    BY <1>1, <1>2, SMTT(30) DEF IInv, RestInv, CommitInv
  <1>4. StoreOK(by_hash') /\ ActiveSet \subseteq Known'
    BY <1>1, <1>3, RemoveForkKeeps, SMTT(30)
  <1>5. ActiveTip' = ActiveTip /\ ActiveSet' = ActiveSet /\ tips' \subseteq tips
    BY <1>1, <1>2, SMTT(30) DEF ActiveTip, ActiveSet, RemoveFork
  <1>6. StoresInv'
    BY <1>2, <1>3, <1>4, SMTT(30) DEF IInv, StoresInv, stored, tasks
  <1>7. LinkInv'
    BY <1>2, <1>4, <1>5, SMTT(30) DEF IInv, LinkInv
  <1>8. CommitInv' /\ BestInv'
    BY <1>2, <1>3, SMTT(30) DEF IInv, CommitInv, BestInv
  <1>9. RestInv'
    BY <1>1, <1>2, <1>5, SMTT(30) DEF IInv, RestInv, stored, tasks
  <1> QED
    BY <1>6, <1>7, <1>8, <1>9 DEF IInv

\* The count loop starts where the age loop ends.
LEMMA PurgeAgeDoneStep ==
    ASSUME IInv, PurgeAgeDone
    PROVE  IInv'
  <1> USE DEF PurgeAgeDone, memory, stored, tasks
  <1>1. Known' = Known /\ ActiveTip' = ActiveTip /\ ActiveSet' = ActiveSet
    BY SMTT(30) DEF Known, ActiveTip, ActiveSet
  <1>2. doomed' \subseteq Hash
    BY SMTT(30) DEF IInv, RestInv
  <1>3. StoresInv' /\ LinkInv' /\ CommitInv' /\ BestInv'
    BY <1>1, SMTT(30) DEF IInv, StoresInv, LinkInv, CommitInv, BestInv
  <1>4. RestInv'
    BY <1>2, SMTT(30) DEF IInv, RestInv
  <1> QED
    BY <1>3, <1>4, SMTT(30) DEF IInv

\* recompute_best_tip restores the claim about best_known_tip whatever the
\* tips are.
LEMMA RecomputeBest ==
    ASSUME StoreOK(by_hash), LinkInv, UNCHANGED <<by_hash, active_chain>>,
           best_known_tip' \in RecomputedBest(by_hash, active_chain, tips')
    PROVE  BestInv'
  <1>1. ActiveTip \in Known /\ ActiveTip' = ActiveTip /\ Known' = Known
    BY ActiveTipKnown DEF ActiveTip, Known
  <1>2. Known \in SUBSET Hash /\ by_hash \in [Known -> Entry]
    BY DEF StoreOK, Known
  <1>3. Last(active_chain) \in Known
    BY <1>1, SMTT(30) DEF ActiveTip
  <1>4. /\ best_known_tip' = [hash |-> best_known_tip'.hash,
                              work |-> best_known_tip'.work]
        /\ best_known_tip'.hash \in Known
        /\ best_known_tip'.work = by_hash[best_known_tip'.hash].chainwork
        /\ \A h \in {Last(active_chain)} \cup (tips' \cap Known) :
             by_hash[h].chainwork <= by_hash[best_known_tip'.hash].chainwork
    BY <1>2, <1>3, RecomputedCovers, SMTT(30)
  <1>5. best_known_tip' \in [hash : Hash, work : Nat]
    BY <1>2, <1>4, SMTT(30) DEF Entry
  <1> QED
    BY <1>1, <1>4, <1>5, SMTT(30) DEF BestInv, ActiveTip

\* The end of purge_stale_forks.
LEMMA PurgeDoneStep ==
    ASSUME IInv, PurgeDone
    PROVE  IInv'
  <1> USE DEF PurgeDone, stored, tasks
  <1>1. Known' = Known /\ ActiveTip' = ActiveTip /\ ActiveSet' = ActiveSet
    BY SMTT(30) DEF Known, ActiveTip, ActiveSet
  <1>2. StoresInv' /\ LinkInv'
    BY <1>1, SMTT(30) DEF IInv, StoresInv, LinkInv
  <1>3. CommitInv'
    BY SMTT(30) DEF IInv, CommitInv
  <1>4. BestInv'
    BY RecomputeBest, SMTT(30) DEF IInv, StoresInv
  <1>5. RestInv'
    BY DEF IInv, RestInv
  <1> QED
    BY <1>2, <1>3, <1>4, <1>5, SMTT(30) DEF IInv

\* mark_invalid takes the failed fork out of the tips.
LEMMA MarkInvalidStep ==
    ASSUME IInv, NEW cs \in Known, MarkInvalid(cs)
    PROVE  IInv'
  <1> DEFINE bad == {best_known_tip.hash}
                      \cup {t \in tips : DescendsFrom(t, best_known_tip.hash)}
  <1>1. /\ invalid_tips' = invalid_tips \cup bad
        /\ tips' = tips \ bad
        /\ disk_invalid' = IF backend THEN disk_invalid \cup bad ELSE disk_invalid
        /\ best_known_tip' \in RecomputedBest(by_hash, active_chain, tips')
        /\ phase \in {"startup", "idle"}
        /\ phase' = "idle"
        /\ UNCHANGED <<by_hash, active_chain, backend, disk, todo, batch, doomed,
                       unpersisted, lost, restarts>>
    BY SMTT(30) DEF MarkInvalid, ActivationDue
  <1>2. reorgs' \in Nat
    BY SMTT(30) DEF MarkInvalid, ActivationDue, ActivationCounted, IInv, RestInv
  <1>3. bad \subseteq Hash
    BY SMTT(30) DEF IInv, BestInv, RestInv
  <1> HIDE DEF bad
  <1>4. Known' = Known /\ ActiveTip' = ActiveTip /\ ActiveSet' = ActiveSet
    BY <1>1, SMTT(30) DEF Known, ActiveTip, ActiveSet
  <1>5. StoresInv' /\ LinkInv'
    BY <1>1, <1>4, SMTT(30) DEF IInv, StoresInv, LinkInv
  <1>6. CommitInv'
    BY <1>1, SMTT(30) DEF IInv, CommitInv
  <1>7. BestInv'
    BY <1>1, RecomputeBest, SMTT(30) DEF IInv, StoresInv
  <1>8. RestInv'
    BY <1>1, <1>2, <1>3, SMTT(30) DEF IInv, RestInv
  <1> QED
    BY <1>5, <1>6, <1>7, <1>8, SMTT(30) DEF IInv

\* An activation that comes to nothing changes no header.
LEMMA SkippedStep ==
    ASSUME IInv, ActivationSkipped
    PROVE  IInv'
  <1> USE DEF ActivationSkipped, memory, stored
  <1>1. Known' = Known /\ ActiveTip' = ActiveTip /\ ActiveSet' = ActiveSet
    BY SMTT(30) DEF Known, ActiveTip, ActiveSet
  <1>2. reorgs' \in Nat /\ phase \in {"startup", "idle"}
    BY SMTT(30) DEF ActivationDue, ActivationCounted, IInv, RestInv
  <1>3. StoresInv' /\ LinkInv' /\ CommitInv' /\ BestInv'
    BY <1>1, <1>2, SMTT(30) DEF IInv, StoresInv, LinkInv, CommitInv, BestInv
  <1>4. RestInv'
    BY <1>2 DEF IInv, RestInv
  <1> QED
    BY <1>3, <1>4, SMTT(30) DEF IInv

\* A start from redb, or in memory when the load fails.
LEMMA RestartStep ==
    ASSUME IInv, Restart
    PROVE  IInv'
  <1>1. PICK best \in LoadedBest :
          LET intact == Members(Chain[best.hash]) \subseteq DOMAIN disk
          IN  /\ backend' = intact
              /\ by_hash' = IF intact THEN disk ELSE Fresh
              /\ active_chain' = IF intact THEN Chain[best.hash] ELSE <<Genesis>>
              /\ tips' = IF intact THEN LoadedTips ELSE {Genesis}
              /\ best_known_tip' =
                   IF intact THEN best ELSE [hash |-> Genesis, work |-> Work[Genesis]]
              /\ invalid_tips' = IF intact THEN disk_invalid ELSE {}
    BY SMTT(30) DEF Restart
  <1>2. /\ restarts' \in 0 .. MaxRestarts
        /\ phase' = "startup" /\ todo' = <<>> /\ batch' = {} /\ doomed' = {}
        /\ lost' = lost \cup batch \cup UNION {DOMAIN b : b \in unpersisted}
        /\ unpersisted' = {} /\ reorgs' = 0
        /\ UNCHANGED <<disk, disk_invalid>>
    BY ParameterAssumption DEF Restart, IInv, RestInv
  <1>3. StoreOK(disk) /\ Genesis \in DOMAIN disk
    BY DEF IInv, StoresInv
  <1>4. StoreOK(Fresh) /\ DOMAIN Fresh = {Genesis}
    BY FreshOK, SMTT(30)
  <1>5. /\ Genesis \in Hash /\ Chain[Genesis] = <<Genesis>>
        /\ Work[Genesis] \in Nat
    BY ChainAssumption, ParameterAssumption, SMTT(30)
  <1>6. StoresInv'
    BY <1>1, <1>2, <1>3, <1>4, SMTT(30) DEF StoresInv, Known
  <1>7. CommitInv'
    <2>1. todo' \in Seq(Hash \ {Genesis}) /\ batch' = {} /\ phase' # "commit"
      BY <1>2, SMTT(30)
    <2>2. QED
      BY <2>1, Zenon DEF CommitInv
  <1>8. RestInv'
    <2>1. lost' \subseteq Hash
      BY <1>2, SMTT(30) DEF IInv, RestInv, StoresInv, StoreOK, Known
    <2>2. tips' \subseteq Hash /\ invalid_tips' \subseteq Hash /\ backend' \in BOOLEAN
      BY <1>1, <1>3, <1>5, SMTT(30) DEF LoadedTips, StoreOK, IInv, RestInv
    <2> QED
      BY <1>2, <2>1, <2>2, SMTT(30) DEF IInv, RestInv
  <1>9. LinkInv' /\ BestInv'
    <2>1. CASE Members(Chain[best.hash]) \subseteq DOMAIN disk
      <3>1. /\ best \in [hash : Hash, work : Nat]
            /\ best.hash \in DOMAIN disk
            /\ \/ best.work = disk[best.hash].chainwork
               \/ best.work = 0 /\ disk[best.hash].chainwork = Work[Genesis]
            /\ \A h \in LoadedTips :
                 disk[h].chainwork <= disk[best.hash].chainwork
        <4>1. CASE LoadedTips = {}
          <5>1. best = [hash |-> Genesis, work |-> 0]
            BY <4>1, SMTT(30) DEF LoadedBest
          <5> QED
            BY <1>3, <1>5, <4>1, <5>1, SMTT(30) DEF StoreOK
        <4>2. CASE LoadedTips # {}
          <5>1. PICK t \in LoadedTips :
                  /\ best = [hash |-> t, work |-> disk[t].chainwork]
                  /\ \A v \in LoadedTips : disk[v].chainwork <= disk[t].chainwork
            BY <4>2 DEF LoadedBest
          <5>2. t \in DOMAIN disk
            BY DEF LoadedTips
          <5>3. t \in Hash /\ disk[t].chainwork \in Nat
            BY <1>3, <5>2, SMTT(30) DEF StoreOK, Entry
          <5> QED
            BY <5>1, <5>2, <5>3, SMTT(30)
        <4> QED
          BY <4>1, <4>2, SMTT(30)
      <3>2. /\ by_hash' = disk
            /\ active_chain' = Chain[best.hash]
            /\ tips' = LoadedTips
            /\ best_known_tip' = best
        BY <1>1, <2>1, SMTT(30)
      <3>3. /\ Chain[best.hash] \in Seq(Hash)
            /\ Chain[best.hash] # <<>>
            /\ Last(Chain[best.hash]) = best.hash
        BY <3>1, ChainShape, SMTT(30)
      <3>4. disk[best.hash].chainwork \in Nat
        BY <1>3, <3>1, SMTT(30) DEF StoreOK, Entry
      <3>5. LinkInv'
        BY <2>1, <3>2, <3>3, SMTT(30) DEF LinkInv, ActiveTip, ActiveSet, Known
      <3>6. BestInv'
        BY <3>1, <3>2, <3>3, <3>4, SMTT(30) DEF BestInv, ActiveTip, Known
      <3> QED
        BY <3>5, <3>6, SMTT(30)
    <2>2. CASE ~(Members(Chain[best.hash]) \subseteq DOMAIN disk)
      <3>1. /\ by_hash' = Fresh
            /\ active_chain' = <<Genesis>>
            /\ tips' = {Genesis}
            /\ best_known_tip' = [hash |-> Genesis, work |-> Work[Genesis]]
        BY <1>1, <2>2, SMTT(30)
      <3>2. ActiveTip' = Genesis /\ ActiveSet' = {Genesis} /\ Known' = {Genesis}
        BY <1>4, <3>1, SMTT(30) DEF ActiveTip, ActiveSet, Members, Last, Known
      <3>3. LinkInv'
        BY <1>5, <3>1, <3>2, SMTT(30) DEF LinkInv
      <3>4. BestInv'
        BY <1>5, <3>1, <3>2, SMTT(30) DEF BestInv, Fresh
      <3> QED
        BY <3>3, <3>4
    <2> QED
      BY <2>1, <2>2
  <1> QED
    BY <1>6, <1>7, <1>8, <1>9, SMTT(30) DEF IInv

\* Every step keeps the invariant.
LEMMA NextIInv == IInv /\ [Next]_vars => IInv'
  <1> SUFFICES ASSUME IInv, [Next]_vars
               PROVE  IInv'
    OBVIOUS
  <1>1. CASE \E fresh \in Messages : ValidateAndCommit(fresh)
    BY <1>1, ValidateStep
  <1>2. CASE CommitToMemory
    BY <1>2, CommitStep
  <1>3. CASE \E b \in unpersisted : PersistBatch(b)
    BY <1>3, PersistStep
  <1>4. CASE \E h \in Hash \ {Genesis} : AcceptHeader(h)
    BY <1>4, AcceptStep
  <1>5. CASE \E cs \in Known : Reorganized(cs)
    BY <1>5, ReorganizedStep
  <1>6. CASE PurgeAge \/ PurgeCount
    BY <1>6, PurgeStep, SMTT(30)
  <1>7. CASE PurgeAgeDone
    BY <1>7, PurgeAgeDoneStep
  <1>8. CASE PurgeDone
    BY <1>8, PurgeDoneStep
  <1>9. CASE \E cs \in Known : MarkInvalid(cs)
    BY <1>9, MarkInvalidStep
  <1>10. CASE ActivationSkipped
    BY <1>10, SkippedStep
  <1>11. CASE Restart
    BY <1>11, RestartStep
  <1>12. CASE UNCHANGED vars
    <2> USE <1>12 DEF vars, memory, stored, locals, tasks
    <2>1. Known' = Known /\ ActiveTip' = ActiveTip /\ ActiveSet' = ActiveSet
      BY SMTT(30) DEF Known, ActiveTip, ActiveSet
    <2>2. StoresInv' /\ LinkInv'
      BY <2>1, ZenonT(30) DEF IInv, StoresInv, LinkInv
    <2>3. CommitInv' /\ BestInv' /\ RestInv'
      BY <2>1 DEF IInv, CommitInv, BestInv, RestInv
    <2> QED
      BY <2>2, <2>3, SMTT(30) DEF IInv
  <1> QED
    BY <1>1, <1>2, <1>3, <1>4, <1>5, <1>6, <1>7, <1>8, <1>9, <1>10, <1>11, <1>12, SMTT(30)
    DEF Next

\* The inductive invariant holds in every state of the header store.
LEMMA Invariance == Spec => []IInv
  BY InitIInv, NextIInv, PTL DEF Spec

---------------------------------------------------------------------------
\* Every variable of the header store keeps its type and every stored header
\* the height of its ancestry, through every loop that runs under the write
\* lock and every reload.
THEOREM TypeCorrect == Spec => []TypeOK
  <1>1. IInv => TypeOK
    <2> SUFFICES ASSUME IInv PROVE TypeOK
      BY SMTT(30)
    <2> USE DEF IInv
    <2>1. Table(by_hash)
      BY SMTT(30) DEF StoresInv, StoreOK, Table
    <2>2. Table(disk)
      BY SMTT(30) DEF StoresInv, StoreOK, Table
    <2>3. \A b \in unpersisted : Table(b)
      BY SMTT(30) DEF StoresInv, StoreOK, Table
    <2>4. todo \in Seq(Hash)
      BY SMTT(30) DEF CommitInv
    <2>5. batch \subseteq Hash
      BY SMTT(30) DEF StoresInv, StoreOK, Known
    <2>6. active_chain \in Seq(Hash) /\ best_known_tip \in [hash : Hash, work : Nat]
      BY SMTT(30) DEF LinkInv, BestInv
    <2> QED
      BY <2>1, <2>2, <2>3, <2>4, <2>5, <2>6, SMTT(30) DEF TypeOK, RestInv
  <1> QED
    BY <1>1, Invariance, PTL

\* For every tree of headers and all limits, active_chain is the stored
\* ancestry of its tip with every header at its own height: hash_at_height,
\* the locator and the block downloader read it by height without a check.
THEOREM Linked == Spec => []ActiveChainLinked
  <1>1. IInv => ActiveChainLinked
    <2> SUFFICES ASSUME IInv PROVE ActiveChainLinked
      OBVIOUS
    <2>1. /\ active_chain = Chain[ActiveTip]
          /\ ActiveTip \in Hash
          /\ ActiveSet \subseteq Known
      BY ActiveTipKnown, SMTT(30) DEF IInv, LinkInv
    <2>2. ASSUME NEW i \in 1 .. Len(active_chain)
          PROVE  active_chain[i] \in Known /\ by_hash[active_chain[i]].height = i - 1
      <3>1. active_chain[i] \in Known
        BY <2>1, SMTT(30) DEF ActiveSet, Members
      <3>2. Depth(active_chain[i]) = i - 1
        BY <2>1, PositionIsDepth, SMTT(30)
      <3> QED
        BY <3>1, <3>2, SMTT(30) DEF IInv, StoresInv, StoreOK, Known
    <2> QED
      BY <2>1, <2>2, SMTT(30) DEF ActiveChainLinked
  <1> QED
    BY <1>1, Invariance, PTL

\* For every tree of headers, best_known_tip outweighs the active tip and
\* every tip whenever the lock is free.
THEOREM Heaviest == Spec => []BestIsHeaviest
  <1>1. IInv => BestIsHeaviest
    BY SMTT(30) DEF IInv, BestInv, BestIsHeaviest
  <1> QED
    BY <1>1, Invariance, PTL

\* The work of the active chain.
ActiveWork == by_hash[ActiveTip].chainwork

\* One step of a running node does not lower the work of the active chain.
LEMMA WorkStep ==
    ASSUME IInv, [Next]_vars, restarts' = restarts
    PROVE  ActiveWork' >= ActiveWork
  <1>1. /\ ActiveTip \in Known
        /\ ActiveTip \in Hash
        /\ ActiveTip \in ActiveSet
        /\ ActiveWork \in Nat
        /\ StoreOK(by_hash)
    BY ActiveTipKnown, SMTT(30) DEF IInv, StoresInv, StoreOK, Known, Entry, ActiveWork
  <1>2. CASE UNCHANGED <<by_hash, active_chain>>
    BY <1>1, <1>2, SMTT(30) DEF ActiveWork, ActiveTip
  <1>3. CASE CommitToMemory
    <2> DEFINE h == todo[1]
               e == EntryOn(h)
    <2>1. h \in Hash \ {Genesis} /\ Prev(h) = ActiveTip /\ Head(todo) = h
      BY <1>3, SMTT(30) DEF IInv, CommitInv, CommitToMemory
    <2>2. active_chain' = Append(active_chain, h)
      BY <1>3, <2>1 DEF CommitToMemory
    <2>3. by_hash' = Merge([x \in {h} |-> e], by_hash)
      BY <1>3, <2>1, ZenonT(30) DEF CommitToMemory
    <2>4. by_hash'[h] = e
      BY <2>3, SMTT(30) DEF Merge
    <2>5. ActiveTip' = h
      BY <2>1, <2>2, AppendLinked, SMTT(30) DEF IInv, ActiveTip
    <2>6. Work[h] \in Nat
      BY <2>1, ParameterAssumption, SMTT(30)
    <2> QED
      BY <1>1, <2>1, <2>4, <2>5, <2>6, SMTT(30) DEF ActiveWork, EntryOn
  <1>4. CASE \E h \in Hash \ {Genesis} : AcceptHeader(h)
    <2>1. PICK h \in Hash \ {Genesis} : AcceptHeader(h)
      BY <1>4
    <2> DEFINE e == EntryOn(h)
    <2>2. by_hash' = Merge([x \in {h} |-> e], by_hash) /\ h \notin Known
      BY <2>1, ZenonT(30) DEF AcceptHeader
    <2>3. by_hash'[h] = e /\ by_hash'[ActiveTip] = by_hash[ActiveTip]
      BY <1>1, <2>2, SMTT(30) DEF Merge, Known
    <2>4. \/ active_chain' = active_chain
          \/ active_chain' = Append(active_chain, h) /\ Prev(h) = ActiveTip
      BY <2>1, ZenonT(30) DEF AcceptHeader
    <2>5. CASE active_chain' = active_chain
      <3>1. ActiveTip' = ActiveTip
        BY <2>5, Zenon DEF ActiveTip
      <3>2. ActiveWork' = by_hash'[ActiveTip].chainwork
        BY <3>1, Zenon DEF ActiveWork
      <3>3. ActiveWork' = ActiveWork
        BY <2>3, <3>2, ZenonT(30) DEF ActiveWork
      <3> QED
        BY <1>1, <3>3
    <2>6. CASE active_chain' = Append(active_chain, h) /\ Prev(h) = ActiveTip
      <3>1. ActiveTip' = h
        BY <2>6, AppendLinked, SMTT(30) DEF IInv, ActiveTip
      <3>2. Work[h] \in Nat
        BY ParameterAssumption, SMTT(30)
      <3> QED
        BY <1>1, <2>3, <2>6, <3>1, <3>2, SMTT(30) DEF ActiveWork, EntryOn
    <2> QED
      BY <2>4, <2>5, <2>6, SMTT(30)
  <1>5. CASE \E cs \in Known : Reorganized(cs)
    <2>1. /\ active_chain' = Chain[best_known_tip.hash]
          /\ by_hash' = by_hash
          /\ phase \in {"startup", "idle"}
      BY <1>5, SMTT(30) DEF Reorganized, ActivationDue
    <2>2. /\ best_known_tip.hash \in Hash
          /\ ActiveWork <= by_hash[best_known_tip.hash].chainwork
      BY <2>1, SMTT(30) DEF IInv, BestInv, ActiveWork
    <2>3. ActiveTip' = best_known_tip.hash
      BY <2>1, <2>2, ChainShape, SMTT(30) DEF ActiveTip
    <2>4. by_hash[best_known_tip.hash].chainwork \in Nat
      BY <2>1, SMTT(30) DEF IInv, BestInv, StoresInv, StoreOK, Known, Entry
    <2> QED
      BY <1>1, <2>1, <2>2, <2>3, <2>4, SMTT(30) DEF ActiveWork
  <1>6. CASE PurgeAge \/ PurgeCount
    <2>1. PICK t \in doomed : RemoveFork(t)
      BY <1>6, ZenonT(30) DEF PurgeAge, PurgeCount
    <2>2. active_chain' = active_chain
      BY <1>6, SMTT(30) DEF PurgeAge, PurgeCount
    <2>3. t \in Hash
      BY <2>1, SMTT(30) DEF IInv, RestInv
    <2>4. by_hash'[ActiveTip] = by_hash[ActiveTip]
      BY <1>1, <2>1, <2>3, RemoveForkKeeps, SMTT(30)
    <2> QED
      BY <1>1, <2>2, <2>4 DEF ActiveWork, ActiveTip
  <1>7. ~Restart
    BY SMTT(30) DEF Restart, IInv, RestInv
  <1>8. ASSUME ~UNCHANGED <<by_hash, active_chain>>
        PROVE  \/ CommitToMemory
               \/ \E h \in Hash \ {Genesis} : AcceptHeader(h)
               \/ \E cs \in Known : Reorganized(cs)
               \/ PurgeAge
               \/ PurgeCount
    BY <1>7, <1>8, ZenonT(30)
    DEF Next, vars, memory, ValidateAndCommit, PersistBatch, PurgeAgeDone, PurgeDone,
        MarkInvalid, ActivationSkipped
  <1> QED
    BY <1>2, <1>3, <1>4, <1>5, <1>6, <1>8, SMTT(30)

\* For every tree of headers, a running node never trades its active chain
\* for one with less work, through commits, forks, activations and purges.
THEOREM NeverLosesWork == Spec => ActiveWorkMonotone
  <1>1. IInv /\ [Next]_vars =>
          [restarts' = restarts =>
             by_hash'[Last(active_chain')].chainwork
               >= by_hash[ActiveTip].chainwork]_vars
    BY WorkStep DEF ActiveWork, ActiveTip
  <1> QED
    BY <1>1, Invariance, PTL DEF Spec, ActiveWorkMonotone

=============================================================================
