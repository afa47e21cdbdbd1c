---------------------------- MODULE TransferProofs ----------------------------
(* A copy or move loses and replaces nothing unasked, for any items, files,   *)
(* paths and pairs of file systems, and the stream of one file writes that    *)
(* file.                                                                      *)
EXTENDS Transfer, Pump, SequenceTheorems, TLAPS

-----------------------------------------------------------------------------
(***************************************************************************)
(* Where the worker is                                                     *)
(***************************************************************************)
Running  == outcome = "running"
Between  == {"scan", "item"}
Choosing == {"conflict", "ask", "told"}
Undoing  == {"undonext", "undostop"}
Streamed == {"pump", "commit"} \cup Undoing
Writing  == {"servercopy", "scp", "open", "askopen", "create", "askcreate"} \cup Streamed

\* The item, the files of it still to come, and the file in hand; a folder's
\* files come when the folder is there.
Walk ==
  /\ pc # "over"
  /\ pc \notin Between => item <= Len(Items) /\ ToSet(todo) \subseteq FilesOf(item)
  /\ pc \in Choosing \cup Writing => todo # <<>> /\ dest \in Paths
                                     /\ (dest = Dst[cur] \/ dest \in Names[cur])
  /\ pc \in {"enter", "list"} => IsFolder(item)
  /\ pc \notin Between /\ IsFolder(item) /\ (todo # <<>> \/ pc = "list") => fs[it.dst] = Folder

\* With nothing left behind, every file of the item has arrived or is to come.
Counted ==
  /\ pc \in {"file"} \cup Choosing \cup Writing /\ left = mark =>
       \A g \in FilesOf(item) : g \in ToSet(todo) \/ arrived[g] # NoPath
  /\ pc \in {"rename", "renaming"} /\ ~ IsFolder(item) => FilesOf(item) \subseteq ToSet(todo)
  /\ pc = "undonext" => left > mark

\* The destination in hand is the user's to give, or new; so is the name of an
\* item that is to be renamed.
Spot ==
  /\ pc = "ask" => fs[dest] \notin {Nothing, Folder}
  /\ pc \in Writing =>
       /\ fs[dest] # Folder
       /\ existed => dest \in consented
       /\ ~ existed => fs[dest] \in {Nothing, Alien, Partial}
  /\ pc \in Undoing => ~ existed
  /\ pc \in Streamed /\ ~ existed /\ ~ Staged => fs[dest] = Partial
  /\ pc = "scp" => opt.via \in {"fish", "scp"}
  /\ pc = "renaming" => fs[it.dst] \in {Nothing, Alien}

(***************************************************************************)
(* What the paths hold                                                     *)
(***************************************************************************)
Done(g) == \E j \in DOMAIN Items : j < item /\ g \in FilesOf(j)

\* The sources of the items to come are as they were, but for what the user gave.
Sources ==
  /\ \A j \in DOMAIN Items : j >= item /\ IsFolder(j) => fs[Items[j].src] = Folder
  /\ \A g \in Files : ~ Done(g) => fs[Src[g]] = g \/ Src[g] \in consented

\* A folder that is not there holds nothing, no source either.
Children ==
  \A j \in DOMAIN Items : IsFolder(j) /\ fs[Items[j].dst] # Folder =>
    \A g \in FilesOf(j) : fs[Dst[g]] = Nothing /\ Dst[g] \notin SourcesOf(j)

\* A file that arrived is where it arrived, and one that did not where it was,
\* but for what the user gave.
Safe(g) == fs[arrived[g]] = g \/ arrived[g] \in consented
Arrived ==
  \A g \in Files : arrived[g] # NoPath =>
    /\ Safe(g) \/ Src[g] \in consented
    /\ arrived[g] = Src[g] => Src[g] \in consented
InPlace ==
  \A g \in Files : \/ fs[Src[g]] = g \/ Src[g] \in consented
                   \/ arrived[g] # NoPath /\ Safe(g)

Kept == Sources /\ Children /\ Arrived /\ InPlace

OnePath == \A f, g \in Files : Src[f] = Src[g] => f = g
Certain == (doubt = "reported" => ~ Running) /\ (doubt = "silent" => Lossy)

Place == Running => Walk /\ Counted /\ Spot
Disk  == Running => Kept
IInv == TypeOK /\ OnePath /\ Certain /\ Place /\ Disk /\ NothingLostUnasked
-----------------------------------------------------------------------------
(***************************************************************************)
(* The items, their files and their sources                                *)
(***************************************************************************)
\* The items of one panel.
LEMMA ItemIs ==
  ASSUME NEW i \in DOMAIN Items
  PROVE  /\ Items[i].src \in Paths /\ Items[i].dst \in Paths /\ Items[i].files \in Seq(Files)
         /\ FilesOf(i) \subseteq Files /\ SourcesOf(i) \subseteq Paths
<1>1. Items \in Seq([src: Paths, dst: Paths, files: Seq(Files)]) /\ Src \in [Files -> Paths]
  BY TransferAssumption
<1>2. Items[i] \in [src: Paths, dst: Paths, files: Seq(Files)]
  <2> DEFINE S == [src: Paths, dst: Paths, files: Seq(Files)]
  <2>1. Items \in Seq(S)
    BY <1>1
  <2> HIDE DEF S
  <2>2. i \in 1..Len(Items)
    BY <2>1
  <2>3. Items[i] \in S
    BY <2>1, <2>2, ElementOfSeq
  <2> QED BY <2>3 DEF S
<1>3. Items[i].src \in Paths /\ Items[i].dst \in Paths /\ Items[i].files \in Seq(Files)
  <2> DEFINE r == Items[i]
  <2>1. r \in [src: Paths, dst: Paths, files: Seq(Files)]
    BY <1>2
  <2> HIDE DEF r
  <2>2. r.src \in Paths /\ r.dst \in Paths /\ r.files \in Seq(Files)
    BY <2>1
  <2> QED BY <2>2 DEF r
<1>4. FilesOf(i) \subseteq Files
  BY <1>3 DEF FilesOf, ToSet
<1> QED BY <1>1, <1>2, <1>3, <1>4 DEF SourcesOf

LEMMA ItemDomain == DOMAIN Items = 1..Len(Items) /\ Len(Items) \in Nat
  BY TransferAssumption

LEMMA ItemsApart ==
  ASSUME NEW i \in DOMAIN Items, NEW j \in DOMAIN Items, i # j
  PROVE  Items[i].src # Items[j].src /\ FilesOf(i) \cap FilesOf(j) = {}
  BY ItemsAssumption

\* A folder's destination and what is in it.
LEMMA FolderIs ==
  ASSUME NEW i \in DOMAIN Items, IsFolder(i)
  PROVE  /\ \A g \in FilesOf(i), f \in Files : f # g => Dst[f] # Dst[g]
         /\ \A g \in FilesOf(i), f \in Files \ FilesOf(i) : Dst[g] \notin Names[f]
         /\ \A g \in FilesOf(i), j \in DOMAIN Items : IsFolder(j) => Dst[g] # Items[j].dst
         /\ \A j \in DOMAIN Items : Items[i].dst # Items[j].src
         /\ \A f \in Files : Items[i].dst # Src[f] /\ Items[i].src # Src[f]
         /\ \A w \in Worlds : /\ w[Items[i].src] = Folder
                              /\ w[Items[i].dst] # Folder => \A g \in FilesOf(i) : w[Dst[g]] = Nothing
  BY ItemsAssumption DEF IsFolder

LEMMA FileIs ==
  ASSUME NEW i \in DOMAIN Items, ~ IsFolder(i)
  PROVE  \E g \in Files : /\ Items[i].files = <<g>> /\ FilesOf(i) = {g} /\ SourcesOf(i) = {Src[g]}
                          /\ Items[i].src = Src[g] /\ Items[i].dst = Dst[g]
<1>1. PICK g \in Files : Items[i].files = <<g>> /\ Items[i].src = Src[g] /\ Items[i].dst = Dst[g]
  BY ItemsAssumption
<1>2. FilesOf(i) = {g}
  BY <1>1 DEF FilesOf, ToSet
<1>3. SourcesOf(i) = {Src[g]}
  BY <1>1, <1>2 DEF SourcesOf
<1> QED BY <1>1, <1>2, <1>3

\* A source of an item is a folder's own path or the path of one of its files.
LEMMA SourceIs ==
  ASSUME NEW i \in DOMAIN Items, NEW p \in SourcesOf(i)
  PROVE  (IsFolder(i) /\ p = Items[i].src) \/ \E h \in FilesOf(i) : p = Src[h]
<1>1. CASE IsFolder(i)
  BY <1>1 DEF SourcesOf
<1>2. CASE ~ IsFolder(i)
  BY <1>2, FileIs
<1> QED BY <1>1, <1>2

LEMMA Ends ==
  ASSUME NEW g \in Files
  PROVE  /\ Src[g] \in Paths /\ Dst[g] \in Paths /\ Names[g] \subseteq Paths
         /\ g \notin {Old, Alien, Partial, Folder, Nothing}
  BY TransferAssumption, MarksAssumption

\* The file in hand and the ones behind it.
LEMMA Queue ==
  ASSUME NEW s \in Seq(Files), s # <<>>
  PROVE  /\ Head(s) \in Files /\ Head(s) \in ToSet(s) /\ Tail(s) \in Seq(Files)
         /\ ToSet(Tail(s)) \subseteq ToSet(s)
         /\ \A g \in ToSet(s) : g = Head(s) \/ g \in ToSet(Tail(s))
<1>1. Len(s) \in Nat \ {0} /\ Head(s) = s[1] /\ Head(s) \in Files /\ Tail(s) \in Seq(Files)
  OBVIOUS
<1>2. Len(Tail(s)) = Len(s) - 1 /\ \A i \in 1..Len(Tail(s)) : Tail(s)[i] = s[i + 1]
  OBVIOUS
<1>3. DOMAIN s = 1..Len(s) /\ DOMAIN Tail(s) = 1..(Len(s) - 1)
  BY <1>1, <1>2
<1>4. Head(s) \in ToSet(s)
  BY <1>1, <1>3 DEF ToSet
<1>5. ASSUME NEW i \in 1..(Len(s) - 1) PROVE Tail(s)[i] \in ToSet(s)
  <2>1. i + 1 \in DOMAIN s /\ Tail(s)[i] = s[i + 1]
    BY <1>1, <1>2, <1>3
  <2> QED BY <2>1 DEF ToSet
<1>6. ToSet(Tail(s)) \subseteq ToSet(s)
  BY <1>3, <1>5 DEF ToSet
<1>7. ASSUME NEW i \in DOMAIN s, i # 1 PROVE s[i] \in ToSet(Tail(s))
  <2>1. i - 1 \in 1..(Len(s) - 1) /\ Tail(s)[i - 1] = s[(i - 1) + 1] /\ (i - 1) + 1 = i
    BY <1>1, <1>2, <1>3, <1>7
  <2>2. i - 1 \in DOMAIN Tail(s) /\ Tail(s)[i - 1] = s[i]
    BY <2>1, <1>3
  <2> QED BY <2>2 DEF ToSet
<1>8. \A g \in ToSet(s) : g = Head(s) \/ g \in ToSet(Tail(s))
  <2>1. SUFFICES ASSUME NEW i \in DOMAIN s PROVE s[i] = Head(s) \/ s[i] \in ToSet(Tail(s))
    BY DEF ToSet
  <2> QED BY <1>1, <1>7
<1> QED BY <1>1, <1>4, <1>6, <1>8

\* The beginning of a listing.
LEMMA Listing ==
  ASSUME NEW s \in Seq(Files), NEW n \in 0..Len(s)
  PROVE  SubSeq(s, 1, n) \in Seq(Files) /\ ToSet(SubSeq(s, 1, n)) \subseteq ToSet(s)
<1>1. SubSeq(s, 1, n) \in Seq(Files) /\ Len(SubSeq(s, 1, n)) = n
  OBVIOUS
<1>2. \A i \in 1..n : SubSeq(s, 1, n)[i] = s[i] /\ i \in DOMAIN s
  OBVIOUS
<1>3. DOMAIN SubSeq(s, 1, n) = 1..n
  BY <1>1
<1>4. ToSet(SubSeq(s, 1, n)) \subseteq ToSet(s)
  BY <1>2, <1>3 DEF ToSet
<1> QED BY <1>1, <1>4
-----------------------------------------------------------------------------
(***************************************************************************)
(* The paths under a step                                                  *)
(***************************************************************************)
\* What lies at the source of a file to come is that file.
LEMMA SourceHolds ==
  ASSUME Sources, NEW h \in Files, ~ Done(h), NEW g \in Files, fs[Src[h]] = g
  PROVE  g = h \/ Src[h] \in consented
  BY DEF Sources

LEMMA InHand ==
  ASSUME NEW i \in DOMAIN Items, i = item, NEW h \in FilesOf(item)
  PROVE  ~ Done(h)
<1>1. ASSUME NEW j \in DOMAIN Items, j < item, h \in FilesOf(j) PROVE FALSE
  <2>1. i \in Nat /\ j \in Nat /\ j # i
    BY <1>1, ItemDomain
  <2> QED BY <1>1, <2>1, ItemsApart
<1> QED BY <1>1 DEF Done

\* A step that changes no file and no folder but where the user agreed.
Spares ==
  /\ \A p \in Paths : fs[p] \in Files /\ p \notin consented => fs'[p] = fs[p]
  /\ \A p \in Paths : fs[p] = Folder => fs'[p] = Folder
  /\ consented \subseteq consented'
  /\ item \in Nat /\ item' \in Nat /\ item' >= item

LEMMA SparesPlaces ==
  ASSUME TypeOK, Kept, Spares, NEW g \in Files
  PROVE  /\ fs[Src[g]] = g \/ Src[g] \in consented => fs'[Src[g]] = g \/ Src[g] \in consented'
         /\ arrived[g] # NoPath /\ Safe(g) => fs'[arrived[g]] = g \/ arrived[g] \in consented'
<1>1. Src[g] \in Paths /\ (arrived[g] # NoPath => arrived[g] \in Paths)
  BY Ends DEF TypeOK
<1> QED BY <1>1 DEF Spares, Safe

LEMMA SparesSources ==
  ASSUME TypeOK, Kept, Spares
  PROVE  Sources'
<1>1. ASSUME NEW j \in DOMAIN Items, j >= item', IsFolder(j) PROVE fs'[Items[j].src] = Folder
  <2>1. j \in Nat /\ Items[j].src \in Paths
    BY ItemDomain, ItemIs
  <2>2. j >= item
    BY <1>1, <2>1 DEF Spares
  <2>3. fs[Items[j].src] = Folder
    BY <1>1, <2>2 DEF Kept, Sources
  <2> QED BY <2>1, <2>3 DEF Spares
<1>2. ASSUME NEW g \in Files, ~ Done(g)' PROVE fs'[Src[g]] = g \/ Src[g] \in consented'
  <2>1. ASSUME Done(g) PROVE FALSE
    <3>1. PICK j \in DOMAIN Items : j < item /\ g \in FilesOf(j)
      BY <2>1 DEF Done
    <3>2. j \in Nat /\ j < item'
      BY <3>1, ItemDomain DEF Spares
    <3> QED BY <1>2, <3>1, <3>2 DEF Done
  <2>2. fs[Src[g]] = g \/ Src[g] \in consented
    BY <2>1 DEF Kept, Sources
  <2> QED BY <2>2, SparesPlaces
<1> QED BY <1>1, <1>2 DEF Sources

LEMMA SparesTheRest ==
  ASSUME TypeOK, Kept, Spares, arrived' = arrived
  PROVE  Arrived' /\ InPlace'
<1>1. ASSUME NEW g \in Files, arrived'[g] # NoPath
      PROVE  /\ Safe(g)' \/ Src[g] \in consented'
             /\ arrived'[g] = Src[g] => Src[g] \in consented'
  <2>1. arrived[g] # NoPath
    BY <1>1
  <2>2. /\ Safe(g) \/ Src[g] \in consented
        /\ arrived[g] = Src[g] => Src[g] \in consented
    BY <2>1 DEF Kept, Arrived
  <2>3. Safe(g) => Safe(g)'
    BY <2>1, SparesPlaces DEF Safe
  <2> QED BY <2>2, <2>3 DEF Spares
<1>2. ASSUME NEW g \in Files
      PROVE  \/ fs'[Src[g]] = g \/ Src[g] \in consented'
             \/ arrived'[g] # NoPath /\ Safe(g)'
  <2>1. \/ fs[Src[g]] = g \/ Src[g] \in consented
        \/ arrived[g] # NoPath /\ Safe(g)
    BY DEF Kept, InPlace
  <2>2. arrived[g] # NoPath /\ Safe(g) => arrived'[g] # NoPath /\ Safe(g)'
    BY SparesPlaces DEF Safe
  <2> QED BY <2>1, <2>2, SparesPlaces
<1> QED BY <1>1, <1>2 DEF Arrived, InPlace

\* The file in hand arrived whole, unless the user gave its source away.
LEMMA SparesCopied ==
  ASSUME TypeOK, Kept, Spares, consented' = consented,
         NEW f \in Files, ~ Done(f), dest \in Paths,
         arrived' = [arrived EXCEPT ![f] = dest],
         fs[Src[f]] = f => fs'[dest] = f,
         dest = Src[f] /\ fs[Src[f]] = f => dest \in consented
  PROVE  Arrived' /\ InPlace'
<1>0. arrived' \in [Files -> Paths \cup {NoPath}] /\ arrived'[f] = dest
      /\ \A g \in Files : g # f => arrived'[g] = arrived[g]
  BY DEF TypeOK
<1>1. fs[Src[f]] = f \/ Src[f] \in consented
  BY DEF Kept, Sources
<1>2. /\ Safe(f)' \/ Src[f] \in consented
      /\ arrived'[f] = Src[f] => Src[f] \in consented
      /\ fs[Src[f]] = f => Safe(f)'
  BY <1>0, <1>1 DEF Safe
<1>3. dest # NoPath
  BY TransferAssumption
<1>4. ASSUME NEW g \in Files, arrived'[g] # NoPath
      PROVE  /\ Safe(g)' \/ Src[g] \in consented'
             /\ arrived'[g] = Src[g] => Src[g] \in consented'
  <2>1. CASE g = f
    BY <2>1, <1>2
  <2>2. CASE g # f
    <3>1. arrived'[g] = arrived[g] /\ arrived[g] # NoPath
      BY <2>2, <1>0, <1>4
    <3>2. /\ Safe(g) \/ Src[g] \in consented
          /\ arrived[g] = Src[g] => Src[g] \in consented
      BY <3>1 DEF Kept, Arrived
    <3>3. Safe(g) => Safe(g)'
      BY <3>1, SparesPlaces DEF Safe
    <3> QED BY <3>1, <3>2, <3>3
  <2> QED BY <2>1, <2>2
<1>5. ASSUME NEW g \in Files
      PROVE  \/ fs'[Src[g]] = g \/ Src[g] \in consented'
             \/ arrived'[g] # NoPath /\ Safe(g)'
  <2>1. CASE g = f
    BY <2>1, <1>0, <1>1, <1>2, <1>3
  <2>2. CASE g # f
    <3>1. \/ fs[Src[g]] = g \/ Src[g] \in consented
          \/ arrived[g] # NoPath /\ Safe(g)
      BY DEF Kept, InPlace
    <3>2. arrived[g] # NoPath /\ Safe(g) => arrived'[g] # NoPath /\ Safe(g)'
      BY <2>2, <1>0, SparesPlaces DEF Safe
    <3> QED BY <3>1, <3>2, SparesPlaces
  <2> QED BY <2>1, <2>2
<1> QED BY <1>4, <1>5 DEF Arrived, InPlace

\* What is in its place is not lost.
LEMMA NotLost == TypeOK /\ InPlace => NothingLostUnasked
<1> SUFFICES ASSUME TypeOK, InPlace PROVE NothingLostUnasked
  OBVIOUS
<1>1. ASSUME NEW g \in Files
      PROVE  \/ \E p \in Paths : fs[p] = g
             \/ Src[g] \in consented \/ arrived[g] \in consented
  <2>1. Src[g] \in Paths /\ (arrived[g] # NoPath => arrived[g] \in Paths)
    BY Ends DEF TypeOK
  <2> QED BY <2>1 DEF InPlace, Safe
<1> QED BY <1>1 DEF NothingLostUnasked
LEMMA QuietKeeps ==
  ASSUME TypeOK, Kept, fs' = fs, arrived' = arrived, consented \subseteq consented',
         item' \in Nat, item' >= item
  PROVE  Kept'
<1>1. Spares
  BY DEF Spares, TypeOK
<1>2. Children'
  BY DEF Kept, Children
<1> QED BY <1>1, <1>2, SparesSources, SparesTheRest DEF Kept

\* A write at the destination in hand.
LEMMA PutSpares ==
  ASSUME TypeOK, Walk, Spot, pc \in Writing, NEW c \in Content, c # Folder, Put(c),
         consented' = consented, item' = item
  PROVE  Spares /\ dest \in Paths /\ fs' \in [Paths -> Content] /\ fs'[dest] = c
<1>1. dest \in Paths /\ fs \in [Paths -> Content] /\ item \in Nat
  BY DEF Walk, TypeOK
<1>2. fs' \in [Paths -> Content] /\ fs'[dest] = c /\ \A p \in Paths : p # dest => fs'[p] = fs[p]
  BY <1>1 DEF Put
<1>3. fs[dest] # Folder
  BY DEF Spot
<1>4. fs[dest] \in Files => dest \in consented
  <2>1. existed \in BOOLEAN
    BY DEF TypeOK
  <2>2. fs[dest] \in {Nothing, Alien, Partial} => fs[dest] \notin Files
    BY MarksAssumption
  <2> QED BY <2>1, <2>2 DEF Spot
<1> QED BY <1>1, <1>2, <1>3, <1>4 DEF Spares

\* The items and their files, as the worker has them.
LEMMA OnItem ==
  ASSUME TypeOK, Walk, pc \notin Between
  PROVE  /\ item \in DOMAIN Items /\ it = Items[item] /\ item \in Nat
         /\ FilesOf(item) \subseteq Files /\ it.src \in Paths /\ it.dst \in Paths
         /\ todo \in Seq(Files) /\ ToSet(todo) \subseteq FilesOf(item)
  BY ItemDomain, ItemIs DEF TypeOK, Walk, it

LEMMA FileInHand ==
  ASSUME TypeOK, Walk, pc \in Choosing \cup Writing
  PROVE  /\ pc \notin Between /\ todo # <<>> /\ cur \in FilesOf(item) /\ cur \in Files /\ cur \in ToSet(todo)
         /\ dest \in Paths /\ (dest = Dst[cur] \/ dest \in Names[cur]) /\ ~ Done(cur)
<1>1. pc \notin Between
  BY DEF Between, Choosing, Writing, Streamed, Undoing
<1>2. todo # <<>> /\ dest \in Paths /\ (dest = Dst[cur] \/ dest \in Names[cur])
  BY DEF Walk
<1>3. cur \in ToSet(todo)
  BY <1>2, Queue DEF cur, TypeOK
<1> QED BY <1>1, <1>2, <1>3, OnItem, InHand

LEMMA PutChildren ==
  ASSUME TypeOK, Kept, Walk, Spot, pc \in Writing, NEW c \in Content, Put(c)
  PROVE  Children'
<1>0. /\ pc \notin Between /\ todo # <<>> /\ cur \in FilesOf(item) /\ cur \in Files /\ dest \in Paths
      /\ (dest = Dst[cur] \/ dest \in Names[cur]) /\ fs[dest] # Folder /\ item \in DOMAIN Items
  BY FileInHand, OnItem DEF Spot
<1>1. \A p \in Paths : p # dest => fs'[p] = fs[p]
  BY <1>0 DEF Put, TypeOK
<1>2. ASSUME NEW j \in DOMAIN Items, IsFolder(j), fs'[Items[j].dst] # Folder,
             NEW g \in FilesOf(j)
      PROVE  fs'[Dst[g]] = Nothing /\ Dst[g] \notin SourcesOf(j)
  <2>1. Items[j].dst \in Paths /\ g \in Files /\ Dst[g] \in Paths
    BY ItemIs, Ends
  <2>2. fs[Items[j].dst] # Folder
    BY <1>0, <1>1, <1>2, <2>1
  <2>3. fs[Dst[g]] = Nothing /\ Dst[g] \notin SourcesOf(j)
    BY <1>2, <2>2 DEF Kept, Children
  <2>4. j # item
    BY <1>0, <1>2, <2>2 DEF Walk, it
  <2>5. cur \notin FilesOf(j)
    BY <1>0, <2>4, ItemsApart
  <2>6. dest # Dst[g]
    BY <1>0, <1>2, <2>1, <2>5, FolderIs
  <2> QED BY <1>1, <2>1, <2>3, <2>6
<1> QED BY <1>2 DEF Children

LEMMA PutKeeps ==
  ASSUME TypeOK, Kept, Walk, Spot, pc \in Writing, NEW c \in Content, c # Folder, Put(c),
         consented' = consented, item' = item, arrived' = arrived
  PROVE  Kept'
BY PutSpares, PutChildren, SparesSources, SparesTheRest DEF Kept

LEMMA ReceivedIs ==
  ASSUME NEW f \in Files, cur = f
  PROVE  Received \in Content /\ Received \notin {Folder, Old, Alien, Nothing}
         /\ (fs[Src[f]] = f => Received = f)
  BY MarksAssumption DEF Received, Content

LEMMA CopyKeeps ==
  ASSUME TypeOK, Kept, Walk, Spot, pc \in Writing, Put(Received),
         consented' = consented, item' = item, arrived' = [arrived EXCEPT ![cur] = dest]
  PROVE  Kept'
<1>1. /\ cur \in Files /\ ~ Done(cur) /\ dest \in Paths
  BY FileInHand
<1>2. Received \in Content /\ Received # Folder /\ (fs[Src[cur]] = cur => Received = cur)
  BY <1>1, ReceivedIs
<1>3. Spares /\ fs'[dest] = Received
  BY <1>2, PutSpares
<1>4. dest = Src[cur] /\ fs[Src[cur]] = cur => dest \in consented
  <2>1. existed \in BOOLEAN /\ cur \notin {Nothing, Alien, Partial}
    BY <1>1, MarksAssumption DEF TypeOK
  <2> QED BY <2>1 DEF Spot
<1>5. Arrived' /\ InPlace'
  <2>1. PICK f \in Files : f = cur
    BY <1>1
  <2> QED BY <2>1, <1>1, <1>2, <1>3, <1>4, SparesCopied
<1> QED BY <1>2, <1>3, <1>5, SparesSources, PutChildren DEF Kept

\* The folder in hand is there from now on.
LEMMA EnterKeeps ==
  ASSUME TypeOK, Kept, Walk, pc = "enter", fs[it.dst] \in {Nothing, Folder},
         fs' = [fs EXCEPT ![it.dst] = Folder],
         consented' = consented, item' = item, arrived' = arrived
  PROVE  Kept'
<1>0. item \in DOMAIN Items /\ it.dst \in Paths /\ IsFolder(item) /\ item \in Nat /\ it = Items[item]
  BY OnItem DEF Walk, Between
<1>1. fs'[it.dst] = Folder /\ \A p \in Paths : p # it.dst => fs'[p] = fs[p]
  BY <1>0 DEF TypeOK
<1>2. Spares
  BY <1>0, <1>1, MarksAssumption DEF Spares
<1>3. ASSUME NEW j \in DOMAIN Items, IsFolder(j), fs'[Items[j].dst] # Folder,
             NEW g \in FilesOf(j)
      PROVE  fs'[Dst[g]] = Nothing /\ Dst[g] \notin SourcesOf(j)
  <2>1. Items[j].dst \in Paths /\ g \in Files /\ Dst[g] \in Paths
    BY ItemIs, Ends
  <2>2. fs[Items[j].dst] # Folder
    BY <1>1, <1>3, <2>1
  <2>3. fs[Dst[g]] = Nothing /\ Dst[g] \notin SourcesOf(j)
    BY <1>3, <2>2 DEF Kept, Children
  <2>4. Dst[g] # it.dst
    BY <1>0, <1>3, FolderIs
  <2> QED BY <1>1, <2>1, <2>3, <2>4
<1>4. Children'
  BY <1>3 DEF Children
<1> QED BY <1>2, <1>4, SparesSources, SparesTheRest DEF Kept

\* Another program takes a free name, in a folder that is there.
LEMMA ForeignKeeps ==
  ASSUME TypeOK, Kept, NEW p \in Paths, fs[p] = Nothing, InFolder(p),
         fs' = [fs EXCEPT ![p] = Alien],
         consented' = consented, item' = item, arrived' = arrived
  PROVE  Kept'
<1>1. fs'[p] = Alien /\ \A q \in Paths : q # p => fs'[q] = fs[q]
  BY DEF TypeOK
<1>2. Spares
  BY <1>1, MarksAssumption DEF Spares, TypeOK
<1>3. ASSUME NEW j \in DOMAIN Items, IsFolder(j), fs'[Items[j].dst] # Folder,
             NEW g \in FilesOf(j)
      PROVE  fs'[Dst[g]] = Nothing /\ Dst[g] \notin SourcesOf(j)
  <2>1. Items[j].dst \in Paths /\ g \in Files /\ Dst[g] \in Paths
    BY ItemIs, Ends
  <2>2. fs[Items[j].dst] # Folder
    BY <1>1, <1>3, <2>1, MarksAssumption
  <2>3. fs[Dst[g]] = Nothing /\ Dst[g] \notin SourcesOf(j)
    BY <1>3, <2>2 DEF Kept, Children
  <2>4. Dst[g] # p
    BY <1>3, <2>2 DEF InFolder
  <2> QED BY <1>1, <2>1, <2>3, <2>4
<1>4. Children'
  BY <1>3 DEF Children
<1> QED BY <1>2, <1>4, SparesSources, SparesTheRest DEF Kept
-----------------------------------------------------------------------------
(***************************************************************************)
(* The removal of a moved item's sources                                   *)
(***************************************************************************)
\* The only file at a source of the item in hand is the one it is the source
\* of, unless the user gave the path away.
LEMMA SourceFile ==
  ASSUME TypeOK, Kept, item \in DOMAIN Items, NEW p \in SourcesOf(item), NEW g \in Files,
         fs[p] = g, p \notin consented
  PROVE  g \in FilesOf(item) /\ p = Src[g]
<1>1. CASE IsFolder(item) /\ p = Items[item].src
  <2>1. fs[p] = Folder
    <3>1. item \in Nat /\ item >= item
      BY ItemDomain
    <3> QED BY <1>1, <3>1 DEF Kept, Sources
  <2> QED BY <2>1, MarksAssumption
<1>2. ASSUME NEW h \in FilesOf(item), p = Src[h] PROVE g \in FilesOf(item) /\ p = Src[g]
  <2>1. h \in Files /\ ~ Done(h)
    BY ItemIs, InHand
  <2> QED BY <1>2, <2>1, SourceHolds DEF Kept
<1> QED BY <1>1, <1>2, SourceIs

LEMMA NextSources ==
  ASSUME TypeOK, Kept, item \in DOMAIN Items, item' = item + 1, consented' = consented,
         \A p \in Paths : fs[p] \notin {Nothing, Alien} /\ p \notin SourcesOf(item) => fs'[p] = fs[p]
  PROVE  Sources'
<1>0. item \in Nat
  BY ItemDomain
<1>1. ASSUME NEW j \in DOMAIN Items, j >= item', IsFolder(j) PROVE fs'[Items[j].src] = Folder
  <2>1. j \in Nat /\ j >= item /\ j # item /\ Items[j].src \in Paths
    BY <1>0, <1>1, ItemDomain, ItemIs
  <2>2. fs[Items[j].src] = Folder
    BY <1>1, <2>1 DEF Kept, Sources
  <2>3. Items[j].src \notin SourcesOf(item)
    <3>1. Items[j].src # Items[item].src
      BY <2>1, ItemsApart
    <3>2. \A h \in FilesOf(item) : Items[j].src # Src[h]
      BY <1>1, ItemIs, FolderIs
    <3> QED BY <3>1, <3>2 DEF SourcesOf
  <2> QED BY <2>1, <2>2, <2>3, MarksAssumption
<1>2. ASSUME NEW g \in Files, ~ Done(g)' PROVE fs'[Src[g]] = g \/ Src[g] \in consented'
  <2>1. ASSUME Done(g) PROVE FALSE
    <3>1. PICK j \in DOMAIN Items : j < item /\ g \in FilesOf(j)
      BY <2>1 DEF Done
    <3>2. j \in Nat /\ j < item'
      BY <1>0, <3>1, ItemDomain
    <3> QED BY <1>2, <3>1, <3>2 DEF Done
  <2>2. g \notin FilesOf(item)
    <3>1. item < item'
      BY <1>0
    <3> QED BY <1>2, <3>1 DEF Done
  <2>3. CASE fs[Src[g]] = g /\ Src[g] \notin consented
    <3>1. Src[g] \notin SourcesOf(item)
      BY <2>2, <2>3, SourceFile
    <3>2. Src[g] \in Paths /\ g \notin {Nothing, Alien}
      BY Ends
    <3> QED BY <2>3, <3>1, <3>2
  <2>4. fs[Src[g]] = g \/ Src[g] \in consented
    BY <2>1 DEF Kept, Sources
  <2> QED BY <2>3, <2>4
<1> QED BY <1>1, <1>2 DEF Sources

\* A folder there stays through the removal or the rename of an item.
LEMMA FolderStays ==
  ASSUME TypeOK, item \in DOMAIN Items, NEW j \in DOMAIN Items, IsFolder(j),
         \A p \in Paths : fs[p] \notin {Nothing, Alien} /\ p \notin SourcesOf(item) => fs'[p] = fs[p],
         fs'[Items[j].dst] # Folder
  PROVE  fs[Items[j].dst] # Folder
<1>1. Items[j].dst \in Paths /\ FilesOf(item) \subseteq Files
  BY ItemIs
<1>2. Items[j].dst \notin SourcesOf(item)
  BY <1>1, FolderIs DEF SourcesOf
<1> QED BY <1>1, <1>2, MarksAssumption

Removed(gone) ==
  /\ pc = "file" /\ todo = <<>> /\ left = mark /\ gone \subseteq SourcesOf(item)
  /\ fs' = [p \in Paths |-> IF p \in gone THEN Nothing ELSE fs[p]]
  /\ consented' = consented /\ arrived' = arrived

LEMMA RemovedTheRest ==
  ASSUME TypeOK, Kept, Walk, Counted, NEW gone, Removed(gone)
  PROVE  /\ Arrived' /\ InPlace'
         /\ \A p \in Paths : fs[p] \notin {Nothing, Alien} /\ p \notin SourcesOf(item) => fs'[p] = fs[p]
<1>0. /\ item \in DOMAIN Items /\ FilesOf(item) \subseteq Files
      /\ \A p \in Paths : p \notin gone => fs'[p] = fs[p]
      /\ gone \subseteq SourcesOf(item)
  BY OnItem DEF Removed, Between
<1>1. \A g \in FilesOf(item) : arrived[g] # NoPath
  <2>1. ToSet(todo) = {}
    BY DEF Removed, ToSet
  <2> QED BY <2>1 DEF Removed, Counted
<1>2. ASSUME NEW g \in Files, arrived[g] # NoPath
      PROVE  /\ arrived[g] = Src[g] => Src[g] \in consented
             /\ Safe(g) => Safe(g)'
  <2>1. arrived[g] = Src[g] => Src[g] \in consented
    BY <1>2 DEF Kept, Arrived
  <2>2. CASE arrived[g] \in consented
    BY <2>1, <2>2 DEF Removed, Safe
  <2>3. CASE fs[arrived[g]] = g /\ arrived[g] \notin consented
    <3>1. arrived[g] \in Paths
      BY <1>2 DEF TypeOK
    <3>2. arrived[g] \notin SourcesOf(item)
      BY <1>0, <2>1, <2>3, SourceFile
    <3>3. fs'[arrived[g]] = g
      BY <1>0, <2>3, <3>1, <3>2
    <3> QED BY <2>1, <3>3 DEF Removed, Safe
  <2> QED BY <2>1, <2>2, <2>3 DEF Safe
<1>3. Arrived'
  <2>1. ASSUME NEW g \in Files, arrived'[g] # NoPath
        PROVE  /\ Safe(g)' \/ Src[g] \in consented'
               /\ arrived'[g] = Src[g] => Src[g] \in consented'
    <3>1. arrived[g] # NoPath /\ arrived'[g] = arrived[g] /\ consented' = consented
      BY <2>1 DEF Removed
    <3>2. Safe(g) \/ Src[g] \in consented
      BY <3>1 DEF Kept, Arrived
    <3> QED BY <1>2, <3>1, <3>2
  <2> QED BY <2>1 DEF Arrived
<1>4. InPlace'
  <2>1. ASSUME NEW g \in Files
        PROVE  \/ fs'[Src[g]] = g \/ Src[g] \in consented'
               \/ arrived'[g] # NoPath /\ Safe(g)'
    <3>0. consented' = consented /\ arrived' = arrived
      BY DEF Removed
    <3>1. CASE arrived[g] # NoPath /\ Safe(g)
      BY <1>2, <3>0, <3>1
    <3>2. CASE Src[g] \in consented
      BY <3>0, <3>2
    <3>3. CASE fs[Src[g]] = g /\ Src[g] \notin consented /\ g \in FilesOf(item)
      <4>1. Safe(g)
        BY <1>1, <3>3 DEF Kept, Arrived
      <4> QED BY <1>1, <1>2, <3>0, <3>3, <4>1
    <3>4. CASE fs[Src[g]] = g /\ Src[g] \notin consented /\ g \notin FilesOf(item)
      <4>1. Src[g] \notin SourcesOf(item)
        BY <1>0, <3>4, SourceFile
      <4> QED BY <1>0, <3>4, <4>1, Ends
    <3> QED BY <3>1, <3>2, <3>3, <3>4 DEF Kept, InPlace
  <2> QED BY <2>1 DEF InPlace
<1>5. \A p \in Paths : fs[p] \notin {Nothing, Alien} /\ p \notin SourcesOf(item) => fs'[p] = fs[p]
  BY <1>0
<1> QED BY <1>3, <1>4, <1>5

LEMMA RemoveKeeps ==
  ASSUME TypeOK, Kept, Walk, Counted, NEW gone, Removed(gone), item' = item + 1
  PROVE  Kept'
<1>0. item \in DOMAIN Items
  BY OnItem DEF Removed, Between
<1>1. ASSUME NEW j \in DOMAIN Items, IsFolder(j), fs'[Items[j].dst] # Folder,
             NEW g \in FilesOf(j)
      PROVE  fs'[Dst[g]] = Nothing /\ Dst[g] \notin SourcesOf(j)
  <2>1. fs[Items[j].dst] # Folder
    BY <1>0, <1>1, FolderStays, RemovedTheRest
  <2>2. fs[Dst[g]] = Nothing /\ Dst[g] \notin SourcesOf(j)
    BY <1>1, <2>1 DEF Kept, Children
  <2>3. Dst[g] \in Paths
    BY ItemIs, Ends
  <2> QED BY <2>2, <2>3 DEF Removed
<1>2. Children'
  BY <1>1 DEF Children
<1>3. consented' = consented
  BY DEF Removed
<1> QED BY <1>0, <1>2, <1>3, RemovedTheRest, NextSources DEF Kept
-----------------------------------------------------------------------------
(***************************************************************************)
(* The rename of an item                                                   *)
(***************************************************************************)
\* The name is free, or another program's file that a file may replace.
Clear == fs[it.dst] = Nothing \/ (~ IsFolder(item) /\ fs[it.dst] = Alien)

LEMMA TargetIs ==
  ASSUME OnePath, item \in DOMAIN Items
  PROVE  /\ IsFolder(item) => TargetOf(item, it.src) = it.dst
         /\ \A h \in FilesOf(item) : TargetOf(item, Src[h]) = Dst[h]
<1>0. FilesOf(item) \subseteq Files
  BY ItemIs
<1>1. ASSUME NEW h \in FilesOf(item) PROVE TargetOf(item, Src[h]) = Dst[h]
  <2>1. CASE Src[h] = Items[item].src
    <3>1. ~ IsFolder(item)
      BY <1>0, <2>1 DEF IsFolder
    <3>2. Items[item].dst = Dst[h]
      BY <1>1, <3>1, FileIs
    <3> QED BY <2>1, <3>2 DEF TargetOf
  <2>2. CASE Src[h] # Items[item].src
    <3>1. (CHOOSE g \in FilesOf(item) : Src[g] = Src[h]) = h
      BY <1>0 DEF OnePath
    <3> QED BY <2>2, <3>1 DEF TargetOf
  <2> QED BY <2>1, <2>2
<1> QED BY <1>1 DEF TargetOf, it

\* Every target of an item to be renamed is free, or is as its name is.
LEMMA TargetsFree ==
  ASSUME TypeOK, Kept, OnePath, item \in DOMAIN Items, Clear
  PROVE  /\ fs[it.dst] \in {Nothing, Alien}
         /\ \A q \in SourcesOf(item) : fs[TargetOf(item, q)] \in {Nothing, fs[it.dst]}
         /\ \A h \in FilesOf(item) : fs[Dst[h]] \in {Nothing, fs[it.dst]}
<1>0. fs[it.dst] \in {Nothing, Alien}
  BY DEF Clear
<1>1. \A h \in FilesOf(item) : fs[Dst[h]] \in {Nothing, fs[it.dst]}
  <2>1. CASE IsFolder(item)
    BY <1>0, <2>1, MarksAssumption DEF Kept, Children, it
  <2>2. CASE ~ IsFolder(item)
    BY <2>2, FileIs DEF it
  <2> QED BY <2>1, <2>2
<1>2. ASSUME NEW q \in SourcesOf(item) PROVE fs[TargetOf(item, q)] \in {Nothing, fs[it.dst]}
  <2>1. CASE IsFolder(item) /\ q = it.src
    BY <2>1, TargetIs
  <2>2. CASE \E h \in FilesOf(item) : q = Src[h]
    BY <2>2, <1>1, TargetIs
  <2> QED BY <2>1, <2>2, SourceIs DEF it
<1> QED BY <1>0, <1>1, <1>2

LEMMA MovedTree ==
  ASSUME TypeOK, Kept, OnePath, item \in DOMAIN Items, Clear, fs' = Moved(item)
  PROVE  /\ \A p \in Paths : fs[p] \notin {Nothing, Alien} /\ p \notin SourcesOf(item) => fs'[p] = fs[p]
         /\ \A p \in Paths : fs[p] # Nothing /\ fs'[p] # fs[p] =>
              p \in SourcesOf(item) \/ (fs[p] = Alien /\ fs[it.dst] = Alien)
         /\ \A h \in FilesOf(item) : fs[Src[h]] = h => fs'[Dst[h]] = h
         /\ IsFolder(item) => fs'[it.dst] = Folder
         /\ \A p \in Paths : fs[p] \in {Nothing, Alien} /\ fs'[p] # fs[p] =>
              fs'[p] = Nothing \/ p = it.dst \/ \E h \in FilesOf(item) : p = Dst[h]
         /\ fs' \in [Paths -> Content]
<1> DEFINE Targets == {TargetOf(item, q) : q \in SourcesOf(item)}
           From(p) == CHOOSE q \in SourcesOf(item) : TargetOf(item, q) = p
<1>0. /\ SourcesOf(item) \subseteq Paths /\ FilesOf(item) \subseteq Files /\ it = Items[item]
      /\ it.src \in Paths /\ it.dst \in Paths /\ fs \in [Paths -> Content]
  BY ItemIs DEF TypeOK, it
<1>1. /\ \A p \in SourcesOf(item) : fs'[p] = Nothing
      /\ \A p \in Paths \ SourcesOf(item) : p \in Targets => fs'[p] = fs[From(p)]
      /\ \A p \in Paths \ SourcesOf(item) : p \notin Targets => fs'[p] = fs[p]
  BY <1>0 DEF Moved
<1>2. fs[it.dst] \in {Nothing, Alien} /\ \A p \in Targets : fs[p] \in {Nothing, fs[it.dst]}
  BY TargetsFree
<1>3. \A p \in Paths : fs[p] \notin {Nothing, Alien} /\ p \notin SourcesOf(item) => fs'[p] = fs[p]
  BY <1>1, <1>2
<1>4. ASSUME NEW h \in FilesOf(item), fs[Src[h]] = h PROVE fs'[Dst[h]] = h
  <2>1. h \in Files /\ Dst[h] \in Paths /\ h \notin {Nothing, Alien} /\ Src[h] \in SourcesOf(item)
        /\ TargetOf(item, Src[h]) = Dst[h] /\ fs[Dst[h]] \in {Nothing, Alien}
    BY <1>0, <1>2, Ends, TargetIs, TargetsFree DEF SourcesOf
  <2>2. Dst[h] \notin SourcesOf(item)
    <3>1. CASE IsFolder(item)
      BY <3>1, <1>0, <1>2, MarksAssumption DEF Kept, Children
    <3>2. CASE ~ IsFolder(item)
      <4>1. SourcesOf(item) = {Src[h]}
        BY <3>2, FileIs
      <4> QED BY <4>1, <2>1, <1>4
    <3> QED BY <3>1, <3>2
  <2>3. ASSUME NEW q \in SourcesOf(item), TargetOf(item, q) = Dst[h] PROVE q = Src[h]
    <3>1. CASE IsFolder(item) /\ q = it.src
      BY <3>1, <2>3, <1>0, TargetIs, FolderIs
    <3>2. ASSUME NEW k \in FilesOf(item), q = Src[k] PROVE q = Src[h]
      <4>1. Dst[k] = Dst[h] /\ k \in Files
        BY <3>2, <2>3, <1>0, TargetIs
      <4>2. CASE IsFolder(item)
        BY <4>1, <4>2, <3>2, <2>1, FolderIs
      <4>3. CASE ~ IsFolder(item)
        BY <4>3, <3>2, FileIs
      <4> QED BY <4>2, <4>3
    <3> QED BY <3>1, <3>2, <1>0, SourceIs
  <2>4. From(Dst[h]) = Src[h] /\ Dst[h] \in Targets
    BY <2>1, <2>3
  <2> QED BY <1>1, <1>4, <2>1, <2>2, <2>4
<1>5. ASSUME IsFolder(item) PROVE fs'[it.dst] = Folder
  <2>1. it.src \in SourcesOf(item) /\ TargetOf(item, it.src) = it.dst
    BY <1>5, <1>0, TargetIs DEF SourcesOf
  <2>2. it.dst \notin SourcesOf(item)
    BY <1>5, <1>0, FolderIs DEF SourcesOf
  <2>3. ASSUME NEW q \in SourcesOf(item), TargetOf(item, q) = it.dst PROVE q = it.src
    <3>1. ASSUME NEW k \in FilesOf(item), q = Src[k] PROVE FALSE
      BY <1>0, <1>5, <2>3, <3>1, TargetIs, FolderIs
    <3> QED BY <3>1, <1>0, SourceIs
  <2>4. From(it.dst) = it.src /\ it.dst \in Targets
    BY <2>1, <2>3
  <2>5. fs[it.src] = Folder
    <3>1. item \in Nat /\ item >= item
      BY ItemDomain
    <3> QED BY <1>0, <1>5, <3>1 DEF Kept, Sources
  <2> QED BY <1>0, <1>1, <2>2, <2>4, <2>5
<1>6. ASSUME NEW p \in Paths, fs'[p] # fs[p], fs'[p] # Nothing
      PROVE  p = it.dst \/ \E h \in FilesOf(item) : p = Dst[h]
  <2>1. p \in Targets
    BY <1>1, <1>6
  <2>2. PICK q \in SourcesOf(item) : p = TargetOf(item, q)
    BY <2>1
  <2> QED BY <2>2, <1>0, SourceIs, TargetIs
<1>7. fs' \in [Paths -> Content]
  <2>1. \A p \in Targets : From(p) \in SourcesOf(item)
    OBVIOUS
  <2>2. \A p \in Paths : fs'[p] \in Content
    <3>1. Nothing \in Content
      BY DEF Content
    <3> QED BY <1>0, <1>1, <2>1, <3>1
  <2>3. fs' = [p \in Paths |-> fs'[p]]
    BY DEF Moved
  <2> QED BY <2>2, <2>3
<1>8. \A p \in Paths : fs[p] # Nothing /\ fs'[p] # fs[p] =>
         p \in SourcesOf(item) \/ (fs[p] = Alien /\ fs[it.dst] = Alien)
  BY <1>1, <1>2
<1> QED BY <1>3, <1>4, <1>5, <1>6, <1>7, <1>8

\* A file that is safe stays so through the rename of another item, and of its own.
LEMMA MovedSafe ==
  ASSUME TypeOK, Kept, OnePath, item \in DOMAIN Items, Clear, fs' = Moved(item),
         NEW g \in Files
  PROVE  /\ fs[Src[g]] = g /\ Src[g] \notin consented =>
              IF g \in FilesOf(item) THEN fs'[Dst[g]] = g ELSE fs'[Src[g]] = g
         /\ arrived[g] # NoPath /\ Safe(g) => fs'[arrived[g]] = g \/ arrived[g] \in consented
<1>1. Src[g] \in Paths /\ g \notin {Nothing, Alien} /\ (arrived[g] # NoPath => arrived[g] \in Paths)
  BY Ends DEF TypeOK
<1>2. ASSUME fs[Src[g]] = g, Src[g] \notin consented
      PROVE  IF g \in FilesOf(item) THEN fs'[Dst[g]] = g ELSE fs'[Src[g]] = g
  <2>1. CASE g \in FilesOf(item)
    BY <1>2, <2>1, MovedTree
  <2>2. CASE g \notin FilesOf(item)
    <3>1. Src[g] \notin SourcesOf(item)
      BY <1>2, <2>2, SourceFile
    <3>2. fs'[Src[g]] = fs[Src[g]]
      BY <1>1, <1>2, <3>1, MovedTree
    <3> QED BY <1>2, <2>2, <3>2
  <2> QED BY <2>1, <2>2
<1>3. ASSUME arrived[g] # NoPath, Safe(g), arrived[g] \notin consented
      PROVE  fs'[arrived[g]] = g
  <2>1. fs[arrived[g]] = g
    BY <1>3 DEF Safe
  <2>2. arrived[g] # Src[g]
    BY <1>3 DEF Kept, Arrived
  <2>3. arrived[g] \notin SourcesOf(item)
    BY <1>3, <2>1, <2>2, SourceFile
  <2>4. fs'[arrived[g]] = fs[arrived[g]]
    BY <1>1, <1>3, <2>1, <2>3, MovedTree
  <2> QED BY <2>1, <2>4
<1> QED BY <1>2, <1>3

LEMMA MovedNotLost ==
  ASSUME TypeOK, Kept, OnePath, item \in DOMAIN Items, Clear, fs' = Moved(item),
         consented' = consented, arrived' = arrived
  PROVE  NothingLostUnasked'
<1>1. ASSUME NEW g \in Files
      PROVE  \/ \E p \in Paths : fs'[p] = g
             \/ Src[g] \in consented \/ arrived[g] \in consented
  <2>1. Src[g] \in Paths /\ Dst[g] \in Paths /\ (arrived[g] # NoPath => arrived[g] \in Paths)
    BY Ends DEF TypeOK
  <2>2. CASE fs[Src[g]] = g /\ Src[g] \notin consented
    BY <2>1, <2>2, MovedSafe
  <2>3. CASE arrived[g] # NoPath /\ Safe(g)
    BY <2>1, <2>3, MovedSafe
  <2> QED BY <2>2, <2>3 DEF Kept, InPlace
<1> QED BY <1>1 DEF NothingLostUnasked

LEMMA MoveKeeps ==
  ASSUME TypeOK, Kept, OnePath, item \in DOMAIN Items, Clear, fs' = Moved(item),
         consented' = consented, item' = item + 1,
         arrived' = [g \in Files |-> IF g \in FilesOf(item) THEN Dst[g] ELSE arrived[g]]
  PROVE  Kept'
<1>0. FilesOf(item) \subseteq Files /\ it = Items[item]
  BY ItemIs DEF it
<1>1. /\ \A g \in FilesOf(item) : arrived'[g] = Dst[g] /\ Dst[g] # NoPath
      /\ \A g \in Files \ FilesOf(item) : arrived'[g] = arrived[g]
  BY <1>0, Ends, TransferAssumption
<1>2. Sources'
  BY MovedTree, NextSources
<1>3. Children'
  <2>1. ASSUME NEW j \in DOMAIN Items, IsFolder(j), fs'[Items[j].dst] # Folder,
               NEW g \in FilesOf(j)
        PROVE  fs'[Dst[g]] = Nothing /\ Dst[g] \notin SourcesOf(j)
    <3>1. fs[Items[j].dst] # Folder
      BY <2>1, FolderStays, MovedTree
    <3>2. fs[Dst[g]] = Nothing /\ Dst[g] \notin SourcesOf(j)
      BY <2>1, <3>1 DEF Kept, Children
    <3>3. g \in Files /\ Dst[g] \in Paths
      BY ItemIs, Ends
    <3>4. j # item
      <4>1. ~ IsFolder(item) \/ fs'[it.dst] = Folder
        BY MovedTree
      <4> QED BY <1>0, <2>1, <4>1
    <3>5. ASSUME NEW h \in FilesOf(item) PROVE Dst[g] # Dst[h]
      <4>1. h # g /\ h \in Files
        BY <1>0, <3>4, ItemsApart
      <4> QED BY <2>1, <4>1, FolderIs
    <3>6. Dst[g] # it.dst
      <4>1. CASE IsFolder(item)
        BY <1>0, <2>1, <4>1, FolderIs
      <4>2. CASE ~ IsFolder(item)
        BY <1>0, <3>5, <4>2, FileIs
      <4> QED BY <4>1, <4>2
    <3>7. fs'[Dst[g]] = Nothing
      BY <3>2, <3>3, <3>5, <3>6, MovedTree
    <3> QED BY <3>2, <3>7
  <2> QED BY <2>1 DEF Children
<1>4. ASSUME NEW g \in FilesOf(item)
      PROVE  /\ Safe(g)' \/ Src[g] \in consented'
             /\ arrived'[g] = Src[g] => Src[g] \in consented'
  <2>1. g \in Files /\ arrived'[g] = Dst[g] /\ fs[Dst[g]] \in {Nothing, Alien} /\ g \notin {Nothing, Alien}
    BY <1>0, <1>1, Ends, TargetsFree
  <2>2. fs[Src[g]] = g \/ Src[g] \in consented
    <3>1. ~ Done(g)
      BY InHand
    <3> QED BY <2>1, <3>1 DEF Kept, Sources
  <2>3. fs[Src[g]] = g => Safe(g)'
    BY <2>1, MovedTree DEF Safe
  <2> QED BY <2>1, <2>2, <2>3
<1>5. ASSUME NEW g \in Files \ FilesOf(item), arrived[g] # NoPath, Safe(g)
      PROVE  Safe(g)'
  <2>1. fs'[arrived[g]] = g \/ arrived[g] \in consented
    BY <1>5, MovedSafe
  <2> QED BY <1>1, <2>1 DEF Safe
<1>6. Arrived'
  <2>1. ASSUME NEW g \in Files \ FilesOf(item), arrived'[g] # NoPath
        PROVE  /\ Safe(g)' \/ Src[g] \in consented'
               /\ arrived'[g] = Src[g] => Src[g] \in consented'
    <3>1. arrived[g] # NoPath /\ arrived'[g] = arrived[g] /\ g \in Files
      BY <1>1, <2>1
    <3>2. /\ Safe(g) \/ Src[g] \in consented
          /\ arrived[g] = Src[g] => Src[g] \in consented
      BY <3>1 DEF Kept, Arrived
    <3> QED BY <1>5, <3>1, <3>2
  <2> QED BY <1>4, <2>1 DEF Arrived
<1>7. InPlace'
  <2>1. ASSUME NEW g \in Files
        PROVE  \/ fs'[Src[g]] = g \/ Src[g] \in consented'
               \/ arrived'[g] # NoPath /\ Safe(g)'
    <3>1. CASE g \in FilesOf(item)
      BY <1>1, <1>4, <3>1
    <3>2. CASE g \notin FilesOf(item)
      <4>1. fs[Src[g]] = g /\ Src[g] \notin consented => fs'[Src[g]] = g
        BY <3>2, MovedSafe
      <4>2. \/ fs[Src[g]] = g \/ Src[g] \in consented
            \/ arrived[g] # NoPath /\ Safe(g)
        BY DEF Kept, InPlace
      <4>3. arrived[g] # NoPath /\ Safe(g) => arrived'[g] # NoPath /\ Safe(g)'
        BY <1>1, <1>5, <3>2
      <4> QED BY <4>1, <4>2, <4>3
    <3> QED BY <3>1, <3>2
  <2> QED BY <2>1 DEF InPlace
<1> QED BY <1>2, <1>3, <1>6, <1>7 DEF Kept
-----------------------------------------------------------------------------
(***************************************************************************)
(* What a step does to the paths                                           *)
(***************************************************************************)
Same == consented' = consented /\ arrived' = arrived /\ item' = item

Looks == /\ fs' = fs /\ arrived' = arrived /\ consented \subseteq consented'
         /\ item' = item \/ (item' = item + 1 /\ pc = "file")

\* The destination in hand is free, half written, or the user gave it; what
\* overwrites, and the rollback of a staged writer, may find another program's
\* file there.
Given == \/ dest \in consented \/ fs[dest] \in {Nothing, Partial}
         \/ fs[dest] = Alien /\ (Overwrites \/ (Staged /\ pc \in Undoing))
Writes == pc \in Writing /\ Given /\ Same /\ \E c \in Content : c # Folder /\ Put(c)
Copies == /\ pc \in Writing /\ Given /\ Put(Received) /\ consented' = consented /\ item' = item
          /\ arrived' = [arrived EXCEPT ![cur] = dest]

Enters == /\ pc = "enter" /\ fs[it.dst] \in {Nothing, Folder} /\ Same
          /\ fs' = [fs EXCEPT ![it.dst] = Folder]
Removes == \E gone \in SUBSET SourcesOf(item) :
             /\ Removed(gone)
             /\ item' = item + 1 \/ (outcome' # "running" /\ item' = item)
Moves == /\ pc = "renaming" /\ Clear /\ (fs[it.dst] # Nothing => Replaces)
         /\ fs' = Moved(item) /\ consented' = consented
         /\ \/ /\ arrived' = [g \in Files |-> IF g \in FilesOf(item) THEN Dst[g] ELSE arrived[g]]
               /\ item' = item + 1
            \/ arrived' = arrived /\ item' = item /\ outcome' # "running"
Intrudes == \E p \in Paths : /\ fs[p] = Nothing /\ InFolder(p)
                             /\ fs' = [fs EXCEPT ![p] = Alien] /\ Same

Changes == Looks \/ Writes \/ Copies \/ Enters \/ Removes \/ Moves \/ Intrudes

\* A destination that may be written is the user's or free.
LEMMA MayWriteIsGiven ==
  ASSUME TypeOK, Spot, pc \in Writing, MayWrite
  PROVE  Given
  BY DEF Spot, MayWrite, Given

LEMMA StreamedIsGiven ==
  ASSUME TypeOK, Spot, pc \in Streamed, pc \in Undoing \/ (Staged => MayWrite)
  PROVE  Given
<1>1. existed \in BOOLEAN /\ pc \in Writing
  BY DEF TypeOK, Writing
<1>2. CASE Staged /\ MayWrite
  BY <1>1, <1>2, MayWriteIsGiven
<1> QED BY <1>1, <1>2 DEF Spot, Given

LEMMA WritingIs ==
  ASSUME pc \in {"servercopy", "scp", "create", "commit", "undonext", "undostop"}
  PROVE  pc \in Writing /\ (pc \in {"commit", "undonext", "undostop"} => pc \in Streamed)
  BY DEF Writing, Streamed, Undoing

LEMMA ServerCopyChanges ==
  ASSUME TypeOK, Walk, Spot, ServerCopy
  PROVE  Looks \/ Writes \/ Copies
<1>0. pc \in Writing /\ pc = "servercopy" /\ consented' = consented /\ item' = item
  BY WritingIs DEF ServerCopy, At
<1>1. cur \in Files
  BY <1>0, FileInHand
<1>2. CASE MayWrite /\ Put(Received) /\ Copied
  BY <1>0, <1>2, MayWriteIsGiven DEF Copies, Copied
<1>3. ASSUME MayWrite, NEW c \in {Received, Partial}, Put(c), arrived' = arrived
      PROVE  Writes
  <2>1. c \in Content /\ c # Folder
    <3>1. PICK f \in Files : f = cur
      BY <1>1
    <3>2. Received \in Content /\ Received # Folder
      BY <3>1, ReceivedIs
    <3> QED BY <3>2, MarksAssumption DEF Content
  <2> QED BY <1>0, <1>3, <2>1, MayWriteIsGiven DEF Writes, Same
<1>4. CASE fs' = fs /\ arrived' = arrived
  BY <1>0, <1>4 DEF Looks
<1>5. \/ MayWrite /\ Put(Received) /\ Copied
      \/ fs' = fs /\ arrived' = arrived
      \/ arrived' = arrived /\ MayWrite /\ \E c \in {Received, Partial} : Put(c)
  BY DEF ServerCopy, Abandon
<1> QED BY <1>2, <1>3, <1>4, <1>5

LEMMA ScpChanges ==
  ASSUME TypeOK, Walk, Spot, Scp
  PROVE  Looks \/ Writes \/ Copies
<1>0. pc \in Writing /\ pc = "scp" /\ consented' = consented /\ item' = item /\ Overwrites
  BY WritingIs DEF Scp, At, Spot, Overwrites
<1>1. Given
  <2>1. existed \in BOOLEAN
    BY DEF TypeOK
  <2> QED BY <1>0, <2>1 DEF Spot, Given
<1>2. CASE Put(Received) /\ Copied
  BY <1>0, <1>1, <1>2 DEF Copies, Copied
<1>3. CASE Put(Partial) /\ arrived' = arrived
  <2>1. Partial \in Content /\ Partial # Folder
    BY MarksAssumption DEF Content
  <2> QED BY <1>0, <1>1, <1>3, <2>1 DEF Writes, Same
<1>4. CASE fs' = fs /\ arrived' = arrived
  BY <1>0, <1>4 DEF Looks
<1> QED BY <1>2, <1>3, <1>4 DEF Scp, Abandon

LEMMA CreateChanges ==
  ASSUME TypeOK, Walk, Spot, Create
  PROVE  Looks \/ Writes
<1>0. pc \in Writing /\ Same
  BY WritingIs DEF Create, At, Same
<1>1. CASE fs' = fs
  BY <1>0, <1>1 DEF Looks, Same
<1>2. CASE MayWrite /\ Put(Partial)
  <2>1. Partial \in Content /\ Partial # Folder
    BY MarksAssumption DEF Content
  <2> QED BY <1>0, <1>2, <2>1, MayWriteIsGiven DEF Writes
<1> QED BY <1>1, <1>2 DEF Create

LEMMA CommitChanges ==
  ASSUME TypeOK, Walk, Spot, Commit
  PROVE  Looks \/ Writes \/ Copies
<1>0. pc \in Writing /\ pc \in Streamed /\ consented' = consented /\ item' = item
  BY WritingIs DEF Commit, At
<1>1. cur \in Files
  BY <1>0, FileInHand
<1>2. CASE (Staged => MayWrite) /\ Put(Received) /\ Copied
  BY <1>0, <1>2, StreamedIsGiven DEF Copies, Copied
<1>3. CASE MayWrite /\ Put(Received) /\ arrived' = arrived
  <2>1. Received \in Content /\ Received # Folder
    <3>1. PICK f \in Files : f = cur
      BY <1>1
    <3> QED BY <3>1, ReceivedIs
  <2> QED BY <1>0, <1>3, <2>1, StreamedIsGiven DEF Writes, Same
<1>4. CASE fs' = fs /\ arrived' = arrived
  BY <1>0, <1>4 DEF Looks
<1> QED BY <1>2, <1>3, <1>4 DEF Commit

LEMMA UndoChanges ==
  ASSUME TypeOK, Walk, Spot, Undo
  PROVE  Looks \/ Writes
<1>0. pc \in Writing /\ pc \in Streamed /\ pc \in Undoing /\ Same
  BY WritingIs DEF Undo, At, Same, Undoing
<1>1. CASE fs' = fs
  BY <1>0, <1>1 DEF Looks, Same
<1>2. CASE Put(Nothing)
  <2>1. Nothing \in Content /\ Nothing # Folder
    BY MarksAssumption DEF Content
  <2> QED BY <1>0, <1>2, <2>1, StreamedIsGiven DEF Writes
<1> QED BY <1>1, <1>2 DEF Undo

LEMMA EndItemChanges == ASSUME EndItem PROVE Looks \/ Removes
<1>0. pc = "file" /\ todo = <<>> /\ consented' = consented /\ arrived' = arrived
  BY DEF EndItem, At, history
<1>1. CASE /\ left = mark /\ fs' = [p \in Paths |-> IF p \in SourcesOf(item) THEN Nothing ELSE fs[p]]
           /\ NextItem
  <2>1. Removed(SourcesOf(item)) /\ item' = item + 1
    BY <1>0, <1>1 DEF Removed, NextItem
  <2> QED BY <2>1 DEF Removes
<1>2. ASSUME left = mark, NEW gone \in SUBSET (SourcesOf(item) \ {it.src}),
             fs' = [p \in Paths |-> IF p \in gone THEN Nothing ELSE fs[p]],
             Stop("failed"), item' = item
      PROVE  Removes
  <2>1. Removed(gone) /\ gone \in SUBSET SourcesOf(item)
    BY <1>0, <1>2 DEF Removed
  <2> QED BY <1>2, <2>1 DEF Removes, Stop
<1>3. CASE NextItem /\ fs' = fs
  BY <1>0, <1>3 DEF Looks, NextItem
<1> QED BY <1>1, <1>2, <1>3 DEF EndItem

LEMMA RenameChanges == ASSUME Spot, Rename PROVE Looks \/ Moves
<1>0. pc = "renaming" /\ consented' = consented
  BY DEF Rename, At
<1>1. CASE fs' = fs /\ arrived' = arrived /\ item' = item
  BY <1>0, <1>1 DEF Looks
<1>m. MayMove => Clear /\ (fs[it.dst] # Nothing => Replaces)
  BY <1>0 DEF MayMove, Clear, Spot
<1>2. CASE Relocate /\ item' = item + 1
  BY <1>0, <1>m, <1>2 DEF Moves, Relocate
<1>3. CASE MayMove /\ fs' = Moved(item) /\ arrived' = arrived /\ item' = item /\ outcome' # "running"
  BY <1>0, <1>m, <1>3 DEF Moves
<1> QED BY <1>1, <1>2, <1>3 DEF Rename, NextItem, Stop

LEMMA EnterChanges == ASSUME EnterFolder PROVE Looks \/ Enters
  BY DEF EnterFolder, At, Looks, Enters, Same, history

LEMMA ForeignChanges == ASSUME NEW p \in Foreign, ForeignCreate(p) PROVE Intrudes
  BY TransferAssumption DEF ForeignCreate, Intrudes, Same, walk, history

\* The steps that touch no path.
LEMMA OtherChanges ==
  ASSUME \/ Scan \/ BeginItem \/ RenameStat \/ ListFolder \/ StatFile \/ Conflict \/ GiveUpAsking
         \/ Open \/ PumpFile \/ User \/ Cancel \/ Over
  PROVE  Looks
<1> USE DEF Looks, walk, history
<1>1. CASE Scan \/ BeginItem \/ RenameStat \/ ListFolder \/ StatFile
  BY <1>1 DEF Scan, BeginItem, RenameStat, ListFolder, StatFile
<1>2. CASE Conflict
  BY <1>2 DEF Conflict
<1>3. CASE Open \/ PumpFile
  BY <1>3 DEF Open, PumpFile
<1>4. CASE AnswerOverwrite \/ AnswerSkip \/ AnswerRename \/ AnswerUnsupported
  BY <1>4 DEF AnswerOverwrite, AnswerSkip, AnswerRename, AnswerUnsupported
<1>5. CASE Dismiss \/ AnswerCancel \/ AnswerRetry \/ AnswerSkipError
  BY <1>5 DEF Dismiss, AnswerCancel, AnswerRetry, AnswerSkipError
<1>6. CASE GiveUpAsking \/ Cancel \/ Over
  BY <1>6 DEF GiveUpAsking, AnswerCancel, Cancel, Over, vars
<1> QED BY <1>1, <1>2, <1>3, <1>4, <1>5, <1>6 DEF User

LEMMA StepChanges ==
  ASSUME TypeOK, Place, Running, Next
  PROVE  Changes
<1>0. Walk /\ Spot
  BY DEF Place
<1>1. CASE Worker
  <2>1. CASE ServerCopy \/ Scp \/ Create \/ Commit \/ Undo
    BY <1>0, <2>1, ServerCopyChanges, ScpChanges, CreateChanges, CommitChanges, UndoChanges DEF Changes
  <2>2. CASE EndItem \/ Rename \/ EnterFolder
    BY <1>0, <2>2, EndItemChanges, RenameChanges, EnterChanges DEF Changes
  <2> QED BY <1>1, <2>1, <2>2, OtherChanges DEF Worker, Changes
<1>2. CASE User \/ Cancel \/ Over
  BY <1>2, OtherChanges DEF Changes
<1>3. CASE \E p \in Foreign : ForeignCreate(p)
  BY <1>3, ForeignChanges DEF Changes
<1> QED BY <1>1, <1>2, <1>3 DEF Next
LEMMA StepKeepsDisk ==
  ASSUME TypeOK, OnePath, Place, Disk, Running, Changes, TypeOK'
  PROVE  Disk' /\ NothingLostUnasked'
<1>0. Walk /\ Counted /\ Spot /\ Kept /\ item \in Nat
  BY DEF Place, Disk, TypeOK
<1>1. InPlace' => NothingLostUnasked'
  BY NotLost, PTL
<1>2. ASSUME Kept' PROVE Disk' /\ NothingLostUnasked'
  BY <1>1, <1>2 DEF Disk, Kept
<1>3. CASE Looks
  BY <1>0, <1>2, <1>3, QuietKeeps DEF Looks
<1>4. CASE Writes
  BY <1>0, <1>2, <1>4, PutKeeps DEF Writes, Same
<1>5. CASE Copies
  BY <1>0, <1>2, <1>5, CopyKeeps DEF Copies
<1>6. CASE Enters
  BY <1>0, <1>2, <1>6, EnterKeeps DEF Enters, Same
<1>7. CASE Intrudes
  BY <1>0, <1>2, <1>7, ForeignKeeps DEF Intrudes, Same
<1>8. CASE Removes
  <2>1. PICK gone \in SUBSET SourcesOf(item) :
          /\ Removed(gone)
          /\ item' = item + 1 \/ (outcome' # "running" /\ item' = item)
    BY <1>8 DEF Removes
  <2>2. CASE item' = item + 1
    BY <1>0, <1>2, <2>1, <2>2, RemoveKeeps
  <2>3. CASE outcome' # "running"
    BY <1>0, <1>1, <2>1, <2>3, RemovedTheRest DEF Disk, Running
  <2> QED BY <2>1, <2>2, <2>3
<1>9. CASE Moves
  <2>1. item \in DOMAIN Items
    BY <1>0, <1>9, OnItem DEF Moves, Between
  <2>2. CASE /\ arrived' = [g \in Files |-> IF g \in FilesOf(item) THEN Dst[g] ELSE arrived[g]]
             /\ item' = item + 1
    BY <1>0, <1>2, <1>9, <2>1, <2>2, MoveKeeps DEF Moves
  <2>3. CASE arrived' = arrived /\ outcome' # "running"
    BY <1>0, <1>9, <2>1, <2>3, MovedNotLost DEF Moves, Disk, Running
  <2> QED BY <1>9, <2>2, <2>3 DEF Moves
<1> QED BY <1>3, <1>4, <1>5, <1>6, <1>7, <1>8, <1>9 DEF Changes

\* What a step takes away unasked was not there before the operation, and is
\* another program's only where SFTP, FISH+ or scp replace it or a staged writer
\* is rolled back.
LEMMA StepSparesOthers ==
  ASSUME TypeOK, OnePath, Place, Disk, Running, Changes,
         NEW p \in Paths, fs'[p] # fs[p], p \notin consented
  PROVE  fs[p] # Old /\ (fs[p] = Alien => Overwrites \/ (Staged /\ pc \in Undoing))
<1>0. Walk /\ Counted /\ Spot /\ Kept /\ fs \in [Paths -> Content]
  BY DEF Place, Disk, TypeOK
<1>1. CASE Looks
  BY <1>1 DEF Looks
<1>2. CASE Writes \/ Copies
  <2>1. p = dest /\ Given
    BY <1>0, <1>2 DEF Writes, Copies, Put
  <2> QED BY <2>1, MarksAssumption DEF Given
<1>3. CASE Enters
  <2>1. fs[p] \in {Nothing, Folder}
    BY <1>0, <1>3 DEF Enters
  <2> QED BY <2>1, MarksAssumption
<1>4. CASE Intrudes
  <2>1. fs[p] = Nothing
    BY <1>0, <1>4 DEF Intrudes
  <2> QED BY <2>1, MarksAssumption
<1>5. ASSUME item \in DOMAIN Items, p \in SourcesOf(item)
      PROVE  fs[p] \notin {Old, Alien}
  <2>1. CASE IsFolder(item) /\ p = Items[item].src
    <3>1. item \in Nat /\ item >= item
      BY <1>5, ItemDomain
    <3>2. fs[p] = Folder
      BY <1>0, <1>5, <2>1, <3>1 DEF Kept, Sources
    <3> QED BY <3>2, MarksAssumption
  <2>2. ASSUME NEW h \in FilesOf(item), p = Src[h] PROVE fs[p] \notin {Old, Alien}
    <3>1. h \in Files /\ ~ Done(h)
      BY <1>5, ItemIs, InHand
    <3>2. fs[p] = h
      BY <1>0, <2>2, <3>1 DEF Kept, Sources
    <3> QED BY <3>1, <3>2, MarksAssumption
  <2> QED BY <1>5, <2>1, <2>2, SourceIs
<1>6. CASE Removes
  <2>1. PICK gone \in SUBSET SourcesOf(item) : Removed(gone)
    BY <1>6 DEF Removes
  <2>2. item \in DOMAIN Items /\ p \in gone
    BY <1>0, <2>1, OnItem DEF Removed, Between
  <2> QED BY <1>5, <2>2
<1>7. CASE Moves
  <2>1. item \in DOMAIN Items
    BY <1>0, <1>7, OnItem DEF Moves, Between
  <2>2. fs[p] # Nothing => p \in SourcesOf(item) \/ (fs[p] = Alien /\ fs[it.dst] = Alien)
    BY <1>0, <1>7, <2>1, MovedTree DEF Moves
  <2>3. fs[it.dst] = Alien => Overwrites
    BY <1>7, MarksAssumption DEF Moves, Replaces, Overwrites
  <2> QED BY <1>5, <2>1, <2>2, <2>3, MarksAssumption
<1> QED BY <1>1, <1>2, <1>3, <1>4, <1>6, <1>7 DEF Changes
-----------------------------------------------------------------------------
(***************************************************************************)
(* The types                                                               *)
(***************************************************************************)
LEMMA PathTypes ==
  ASSUME TypeOK, OnePath, Place, Disk, Running, Changes
  PROVE  fs' \in [Paths -> Content] /\ arrived' \in [Files -> Paths \cup {NoPath}]
<1>0. /\ Walk /\ Spot /\ Kept /\ fs \in [Paths -> Content]
      /\ arrived \in [Files -> Paths \cup {NoPath}]
  BY DEF Place, Disk, TypeOK
<1>1. CASE Looks
  BY <1>0, <1>1 DEF Looks
<1>2. CASE Writes
  BY <1>0, <1>2, PutSpares DEF Writes, Same
<1>3. CASE Copies
  <2>1. cur \in Files /\ dest \in Paths
    BY <1>0, <1>3, FileInHand DEF Copies
  <2>2. Received \in Content
    BY <2>1 DEF Received, Content
  <2> QED BY <1>0, <1>3, <2>1, <2>2 DEF Copies, Put
<1>4. CASE Enters
  <2>1. Folder \in Content
    BY DEF Content
  <2> QED BY <1>0, <1>4, <2>1 DEF Enters, Same
<1>5. CASE Intrudes
  <2>1. Alien \in Content
    BY DEF Content
  <2> QED BY <1>0, <1>5, <2>1 DEF Intrudes, Same
<1>6. CASE Removes
  <2>1. Nothing \in Content
    BY DEF Content
  <2> QED BY <1>0, <1>6, <2>1 DEF Removes, Removed
<1>7. CASE Moves
  <2>1. item \in DOMAIN Items
    BY <1>0, <1>7, OnItem DEF Moves, Between
  <2>2. arrived' \in [Files -> Paths \cup {NoPath}]
    BY <1>0, <1>7, <2>1, ItemIs, Ends DEF Moves
  <2> QED BY <1>0, <1>7, <2>1, <2>2, MovedTree DEF Moves
<1> QED BY <1>1, <1>2, <1>3, <1>4, <1>5, <1>6, <1>7 DEF Changes

\* What the rest of the variables hold.
Kinds ==
  /\ opt \in [move: BOOLEAN, ignoreRead: BOOLEAN, ignoreWrite: BOOLEAN, via: Vias]
  /\ pc \in Steps /\ outcome \in {"running", "ok", "failed", "cancelled"}
  /\ item \in 1..(Len(Items) + 1) /\ todo \in Seq(Files)
  /\ dest \in Paths \cup {NoPath} /\ existed \in BOOLEAN
  /\ left \in Nat /\ mark \in Nat /\ mark <= left
  /\ overwriteAll \in BOOLEAN /\ skipAll \in BOOLEAN /\ s2s \in {"probe", "works", "off"}
  /\ cancelled \in BOOLEAN /\ doubt \in {"no", "reported", "silent"}
  /\ consented \subseteq Paths /\ doubtful \subseteq Paths /\ abandoned \subseteq Paths

LEMMA TypesAre ==
  TypeOK <=> /\ Kinds /\ fs \in [Paths -> Content]
             /\ arrived \in [Files -> Paths \cup {NoPath}]
<1>1. ASSUME left \in Nat PROVE mark \in 0..left <=> mark \in Nat /\ mark <= left
  BY <1>1
<1> QED BY <1>1 DEF TypeOK, Kinds

\* The queue after a step.
LEMMA QueueTypes ==
  ASSUME TypeOK, Place, Running
  PROVE  /\ pc \notin Between => /\ item \in Nat /\ item <= Len(Items)
                                 /\ it.dst \in Paths /\ it.files \in Seq(Files)
         /\ item <= Len(Items) => it.files \in Seq(Files)
         /\ todo # <<>> => Tail(todo) \in Seq(Files)
         /\ pc \in Choosing \cup Writing => dest \in Paths /\ cur \in Files /\ todo # <<>>
<1>0. Walk /\ item \in 1..(Len(Items) + 1) /\ todo \in Seq(Files)
  BY DEF Place, TypeOK
<1>1. item <= Len(Items) => it.files \in Seq(Files)
  BY <1>0, ItemDomain, ItemIs DEF it
<1>2. pc \in Choosing \cup Writing => dest \in Paths /\ cur \in Files /\ todo # <<>>
  BY <1>0, FileInHand
<1> QED BY <1>0, <1>1, <1>2, OnItem, Queue, ItemDomain

LEMMA StepKinds == ASSUME TypeOK, Place, Running, Next PROVE Kinds'
<1>0. /\ Kinds /\ outcome = "running" /\ Len(Items) \in Nat
      /\ \A p \in Steps : p \notin Between => (pc = p => item <= Len(Items))
  BY TypesAre, QueueTypes, ItemDomain DEF Running
<1> USE DEF At, Goto, Stop, Steps
<1>1. CASE Scan \/ RenameStat \/ Dismiss \/ AnswerUnsupported \/ AnswerCancel \/ GiveUpAsking \/ Cancel
  <2>1. UNCHANGED <<choices, walk, left, history>> /\ cancelled' \in BOOLEAN
    BY <1>0, <1>1 DEF Scan, RenameStat, Dismiss, AnswerUnsupported, AnswerCancel, GiveUpAsking, Cancel, Kinds
  <2>2. pc' \in Steps /\ outcome' \in {"running", "ok", "failed", "cancelled"}
    <3>1. CASE Scan \/ Dismiss \/ AnswerUnsupported \/ AnswerCancel \/ GiveUpAsking \/ Cancel
      BY <1>0, <3>1 DEF Scan, Dismiss, AnswerUnsupported, AnswerCancel, GiveUpAsking, Cancel, Kinds
    <3>2. CASE RenameStat
      BY <1>0, <3>2 DEF RenameStat, Streaming
    <3> QED BY <1>1, <3>1, <3>2
  <2> QED BY <1>0, <2>1, <2>2 DEF Kinds, choices, walk, history
<1>2. CASE BeginItem
  <2>1. todo' \in Seq(Files)
    <3>1. CASE todo' = todo \/ todo' = <<>>
      <4>1. <<>> \in Seq(Files) /\ todo \in Seq(Files)
        BY <1>0 DEF Kinds
      <4> QED BY <3>1, <4>1, Zenon
    <3>2. CASE item <= Len(Items) /\ todo' = it.files
      BY <3>2, QueueTypes
    <3> QED BY <1>2, <3>1, <3>2 DEF BeginItem
  <2>2. pc' \in Steps /\ outcome' \in {"running", "ok", "failed", "cancelled"}
    BY <1>0, <1>2 DEF BeginItem
  <2>3. mark' \in Nat /\ mark' <= left' /\ left' \in Nat
    BY <1>0, <1>2 DEF BeginItem, Kinds
  <2> QED BY <1>0, <1>2, <2>1, <2>2, <2>3 DEF BeginItem, Kinds, choices, history
<1>3. CASE Rename
  <2>1. pc \notin Between /\ item <= Len(Items)
    BY <1>3, QueueTypes DEF Rename, Between
  <2>2. item' \in 1..(Len(Items) + 1)
    BY <1>0, <1>3, <2>1 DEF Rename, NextItem, Kinds
  <2>3. pc' \in Steps /\ outcome' \in {"running", "ok", "failed", "cancelled"}
    BY <1>0, <1>3 DEF Rename, Streaming, NextItem
  <2>4. doubt' \in {"no", "reported", "silent"}
    BY <1>0, <1>3 DEF Rename, Kinds
  <2>5. left' \in Nat /\ mark' \in Nat /\ mark' <= left'
    <3>1. mark' = mark /\ (left' = left \/ left' = left + 1)
      BY <1>3 DEF Rename
    <3> QED BY <1>0, <3>1 DEF Kinds
  <2>6. UNCHANGED <<choices, todo, dest, existed, cancelled, consented, doubtful, abandoned>>
    BY <1>3 DEF Rename
  <2> QED BY <1>0, <2>2, <2>3, <2>4, <2>5, <2>6 DEF Kinds, choices
<1>4. CASE EndItem
  <2>1. pc \notin Between /\ item <= Len(Items)
    BY <1>4, QueueTypes DEF EndItem, Between
  <2> QED BY <1>0, <1>4, <2>1 DEF EndItem, NextItem, Kinds, choices, history
<1>5. CASE EnterFolder
  BY <1>0, <1>5 DEF EnterFolder, Kinds, choices, history
<1>6. CASE ListFolder
  <2>1. it.files \in Seq(Files)
    BY <1>6, QueueTypes DEF ListFolder, Between
  <2>2. todo' \in Seq(Files)
    BY <1>0, <1>6, <2>1, Listing DEF ListFolder, Kinds
  <2> QED BY <1>0, <1>6, <2>2 DEF ListFolder, Kinds, choices, history
<1>7. CASE StatFile
  <2>1. todo' \in Seq(Files)
    BY <1>0, <1>7, QueueTypes DEF StatFile, Refused, Skipped, NextFile, Kinds
  <2>2. dest' \in Paths \cup {NoPath}
    <3>1. cur \in Files
      BY <1>0, <1>7, Queue DEF StatFile, cur, Kinds
    <3> QED BY <1>0, <1>7, <3>1, Ends DEF StatFile, Kinds
  <2> QED BY <1>0, <1>7, <2>1, <2>2 DEF StatFile, Refused, Skipped, NextFile, Kinds, choices, history
<1> HIDE DEF Steps
<1>s. {"open", "scp", "servercopy", "over", "file", "ask", "told", "conflict", "askopen", "create",
       "askcreate", "pump", "commit", "undonext", "undostop", "item"} \subseteq Steps
  BY DEF Steps
<1>c. Carrier \in {"open", "scp", "servercopy"} /\ Direct \in {"open", "scp"}
  BY DEF Carrier, Direct
<1>8. CASE Conflict
  <2>1. pc \in Choosing
    BY <1>8 DEF Conflict, Choosing
  <2>2. todo' \in Seq(Files) /\ consented' \subseteq Paths
    BY <1>0, <1>8, <2>1, QueueTypes DEF Conflict, Refused, Skipped, NextFile, Settle, Ask, Kinds
  <2>3. pc' \in Steps /\ outcome' \in {"running", "ok", "failed", "cancelled"}
    BY <1>0, <1>8, <1>s, <1>c DEF Conflict, Refused, Skipped, NextFile, Settle, Ask, Kinds
  <2>4. left' \in Nat /\ mark' \in Nat /\ mark' <= left'
    BY <1>0, <1>8 DEF Conflict, Refused, Skipped, Settle, Ask, Kinds
  <2>5. existed' \in BOOLEAN /\ dest' \in Paths \cup {NoPath}
    BY <1>0, <1>8 DEF Conflict, Settle, Kinds
  <2> QED BY <1>0, <1>8, <2>2, <2>3, <2>4, <2>5 DEF Conflict, Kinds, choices
<1>9. CASE AnswerOverwrite \/ AnswerSkip \/ AnswerRename
  <2>1. pc \in Choosing
    BY <1>9 DEF AnswerOverwrite, AnswerSkip, AnswerRename, Choosing
  <2>2. todo' \in Seq(Files) /\ consented' \subseteq Paths
    BY <1>0, <1>9, <2>1, QueueTypes
       DEF AnswerOverwrite, AnswerSkip, AnswerRename, Skipped, NextFile, Kinds, history
  <2>3. dest' \in Paths \cup {NoPath}
    BY <1>0, <1>9, <2>1, QueueTypes, Ends DEF AnswerOverwrite, AnswerSkip, AnswerRename, Kinds
  <2>4. pc' \in Steps
    BY <1>0, <1>9, <1>s, <1>c DEF AnswerOverwrite, AnswerSkip, AnswerRename, Skipped, NextFile, Kinds
  <2>5. overwriteAll' \in BOOLEAN /\ skipAll' \in BOOLEAN
    BY <1>0, <1>9 DEF AnswerOverwrite, AnswerSkip, AnswerRename, Kinds, choices
  <2>6. left' \in Nat /\ mark' \in Nat /\ mark' <= left'
    BY <1>0, <1>9 DEF AnswerOverwrite, AnswerSkip, AnswerRename, Skipped, Kinds
  <2>7. /\ UNCHANGED <<opt, item, cancelled, doubt, doubtful, abandoned, s2s>> /\ existed' \in BOOLEAN
        /\ outcome' = outcome
    BY <1>0, <1>9 DEF AnswerOverwrite, AnswerSkip, AnswerRename, Skipped, NextFile, Kinds, choices, history
  <2> QED BY <1>0, <2>2, <2>3, <2>4, <2>5, <2>6, <2>7 DEF Kinds
<1>10. CASE Open \/ AnswerRetry \/ AnswerSkipError \/ Create
  <2>1. pc \in Writing
    BY <1>10 DEF Open, AnswerRetry, AnswerSkipError, Create, Writing
  <2>2. todo' \in Seq(Files)
    BY <1>0, <1>10, <2>1, QueueTypes
       DEF Open, AnswerRetry, AnswerSkipError, Create, Ask, Skipped, NextFile, Kinds, walk
  <2>3. pc' \in Steps /\ outcome' \in {"running", "ok", "failed", "cancelled"}
    BY <1>0, <1>10, <1>s DEF Open, AnswerRetry, AnswerSkipError, Create, Ask, Skipped, NextFile, Kinds
  <2>4. left' \in Nat /\ mark' \in Nat /\ mark' <= left'
    BY <1>0, <1>10 DEF Open, AnswerRetry, AnswerSkipError, Create, Ask, Skipped, Kinds, walk
  <2>5. UNCHANGED <<choices, item, dest, existed, cancelled, consented, doubtful, doubt>>
    BY <1>10 DEF Open, AnswerRetry, AnswerSkipError, Create, walk, history
  <2>6. abandoned' \subseteq Paths
    BY <1>0, <1>10 DEF Open, AnswerRetry, AnswerSkipError, Create, history, Kinds
  <2> QED BY <1>0, <2>2, <2>3, <2>4, <2>5, <2>6 DEF Kinds, choices
<1>11. CASE ServerCopy \/ Scp \/ PumpFile \/ Commit \/ Undo
  <2>1. pc \in Writing
    BY <1>11 DEF ServerCopy, Scp, PumpFile, Commit, Undo, Writing, Streamed, Undoing
  <2>2. todo' \in Seq(Files)
    BY <1>0, <1>11, <2>1, QueueTypes
       DEF ServerCopy, Scp, PumpFile, Commit, Undo, Copied, Unwind, NextFile, Kinds
  <2>3. pc' \in Steps /\ outcome' \in {"running", "ok", "failed", "cancelled"}
    BY <1>0, <1>11, <1>s, <1>c DEF ServerCopy, Scp, PumpFile, Commit, Undo, Copied, Unwind, NextFile, Kinds
  <2>4. left' \in Nat /\ mark' \in Nat /\ mark' <= left'
    <3>1. mark' = mark
      BY <1>11 DEF ServerCopy, Scp, PumpFile, Commit, Undo
    <3>2. CASE ServerCopy \/ Scp \/ Undo
      BY <1>0, <3>1, <3>2 DEF ServerCopy, Scp, Undo, Kinds
    <3>3. left' = left \/ left' = left + 1
      <4>1. CASE PumpFile
        BY <4>1 DEF PumpFile
      <4>2. CASE Commit
        BY <4>2 DEF Commit, Copied
      <4> QED BY <1>11, <3>2, <4>1, <4>2 DEF ServerCopy, Scp, Undo
    <3> QED BY <1>0, <3>1, <3>3 DEF Kinds
  <2>5. doubtful' \subseteq Paths
    BY <1>0, <1>11, <2>1, QueueTypes DEF ServerCopy, Scp, PumpFile, Commit, Undo, Unwind, Kinds
  <2>6. doubt' \in {"no", "reported", "silent"} /\ s2s' \in {"probe", "works", "off"}
    BY <1>0, <1>11 DEF ServerCopy, Scp, Abandon, PumpFile, Commit, Undo, Kinds, choices
  <2>8. abandoned' \subseteq Paths
    BY <1>0, <1>11, <2>1, QueueTypes DEF ServerCopy, Scp, Abandon, PumpFile, Commit, Undo, Kinds
  <2>7. UNCHANGED <<opt, overwriteAll, skipAll, item, dest, existed, cancelled, consented>>
    BY <1>11 DEF ServerCopy, Scp, PumpFile, Commit, Undo, choices
  <2> QED BY <1>0, <2>2, <2>3, <2>4, <2>5, <2>6, <2>7, <2>8 DEF Kinds
<1>12. CASE \E p \in Foreign : ForeignCreate(p)
  BY <1>0, <1>12 DEF ForeignCreate, Kinds, choices, walk, history
<1>13. CASE Over
  BY <1>0, <1>13 DEF Over
<1> QED BY <1>1, <1>2, <1>3, <1>4, <1>5, <1>6, <1>7, <1>8, <1>9, <1>10, <1>11, <1>12, <1>13
        DEF Next, Worker, User
-----------------------------------------------------------------------------
(***************************************************************************)
(* The worker's place                                                      *)
(***************************************************************************)
\* The folder in hand stays there while its files are carried over.
LEMMA FolderKept ==
  ASSUME TypeOK, Place, Disk, Running, Changes, pc \notin Between, IsFolder(item), fs[it.dst] = Folder
  PROVE  fs'[it.dst] = Folder
<1>0. /\ Walk /\ Spot /\ Kept /\ fs \in [Paths -> Content]
      /\ item \in DOMAIN Items /\ it.dst \in Paths /\ it = Items[item]
  BY OnItem DEF Place, Disk, TypeOK
<1>1. CASE Looks
  BY <1>1 DEF Looks
<1>2. CASE Writes \/ Copies
  <2>1. fs[dest] # Folder
    BY <1>0, <1>2 DEF Writes, Copies, Spot
  <2> QED BY <1>0, <1>2, <2>1 DEF Writes, Copies, Put
<1>3. CASE Enters
  BY <1>0, <1>3 DEF Enters
<1>4. CASE Intrudes
  BY <1>0, <1>4, MarksAssumption DEF Intrudes
<1>5. CASE Removes
  <2>1. it.dst \notin SourcesOf(item)
    BY <1>0, ItemIs, FolderIs DEF SourcesOf
  <2> QED BY <1>0, <1>5, <2>1 DEF Removes, Removed
<1>6. CASE Moves
  BY <1>6, MarksAssumption DEF Moves, Clear
<1> QED BY <1>1, <1>2, <1>3, <1>4, <1>5, <1>6 DEF Changes

\* A step that keeps to the file in hand.
Holds ==
  /\ UNCHANGED <<item, todo, mark>>
  /\ left \in Nat /\ mark \in Nat /\ mark <= left /\ left' \in Nat /\ left' >= left
  /\ \A g \in Files : arrived[g] # NoPath => arrived'[g] # NoPath

LEMMA HoldKeeps ==
  ASSUME TypeOK, Place, Disk, Running, Changes, Holds,
         pc \in {"file"} \cup Choosing \cup Writing, todo # <<>>,
         pc' \in Choosing \cup Writing, pc' = "undonext" => left' > mark,
         dest' \in Paths, dest' = Dst[cur] \/ dest' \in Names[cur]
  PROVE  Walk' /\ Counted'
<1>0. /\ Walk /\ Counted /\ pc \notin Between
      /\ pc' \notin {"over", "enter", "list", "rename", "renaming"} /\ pc' \notin Between
  BY DEF Place, Choosing, Writing, Streamed, Undoing, Between
<1>1. FilesOf(item) \subseteq Files /\ it' = it /\ cur' = cur
  BY <1>0, OnItem DEF Holds, it, cur
<1>2. IsFolder(item) => fs'[it.dst] = Folder
  BY <1>0, FolderKept DEF Walk
<1>3. Walk'
  <2>1. item' <= Len(Items) /\ ToSet(todo') \subseteq FilesOf(item')
    BY <1>0 DEF Holds, Walk
  <2> QED BY <1>0, <1>1, <1>2, <2>1 DEF Holds, Walk, IsFolder
<1>4. Counted'
  <2>1. ASSUME left' = mark', NEW g \in FilesOf(item) PROVE g \in ToSet(todo') \/ arrived'[g] # NoPath
    <3>1. left = mark /\ g \in Files
      BY <1>1, <2>1 DEF Holds
    <3>2. g \in ToSet(todo) \/ arrived[g] # NoPath
      BY <1>0, <2>1, <3>1 DEF Counted
    <3> QED BY <3>1, <3>2 DEF Holds
  <2>2. item' = item /\ mark' = mark
    BY DEF Holds
  <2>3. FilesOf(item') = FilesOf(item)
    BY <2>2
  <2> QED BY <1>0, <2>1, <2>2, <2>3 DEF Counted
<1> QED BY <1>3, <1>4

\* A step that leaves the file in hand, which arrived or was left behind.
LEMMA LeaveKeeps ==
  ASSUME TypeOK, Place, Disk, Running, Changes,
         pc \in {"file"} \cup Choosing \cup Writing, todo # <<>>,
         NextFile, UNCHANGED <<item, mark>>, left' \in Nat, left' >= left,
         left' > left \/ left > mark \/ arrived'[cur] # NoPath,
         \A g \in Files : arrived[g] # NoPath => arrived'[g] # NoPath
  PROVE  Walk' /\ Counted' /\ Spot'
<1>0. /\ Walk /\ Counted /\ pc \notin Between /\ pc' = "file" /\ todo' = Tail(todo)
      /\ todo \in Seq(Files) /\ left \in Nat /\ mark \in Nat /\ mark <= left
  BY TypesAre DEF Place, Choosing, Writing, Streamed, Undoing, Between, NextFile, Goto, Kinds
<1>1. /\ FilesOf(item) \subseteq Files /\ it' = it /\ ToSet(todo') \subseteq ToSet(todo)
      /\ \A g \in ToSet(todo) : g = cur \/ g \in ToSet(todo')
  BY <1>0, OnItem, Queue DEF it, cur
<1>2. IsFolder(item) => fs'[it.dst] = Folder
  BY <1>0, FolderKept DEF Walk
<1>3. Walk'
  <2>1. item' <= Len(Items) /\ ToSet(todo') \subseteq FilesOf(item')
    BY <1>0, <1>1 DEF Walk
  <2> QED BY <1>0, <1>1, <1>2, <2>1 DEF Walk, IsFolder, Choosing, Writing, Streamed, Undoing
<1>4. Counted'
  <2>1. ASSUME left' = mark', NEW g \in FilesOf(item) PROVE g \in ToSet(todo') \/ arrived'[g] # NoPath
    <3>1. left = mark /\ left' = left /\ mark' = mark /\ g \in Files
      BY <1>0, <1>1, <2>1
    <3>2. g \in ToSet(todo) \/ arrived[g] # NoPath
      BY <1>0, <2>1, <3>1 DEF Counted
    <3>3. arrived'[cur] # NoPath
      BY <1>0, <3>1
    <3> QED BY <1>1, <3>1, <3>2, <3>3
  <2>2. FilesOf(item') = FilesOf(item)
    OBVIOUS
  <2> QED BY <1>0, <2>1, <2>2 DEF Counted
<1>5. Spot'
  BY <1>0 DEF Spot, Writing, Streamed, Undoing
<1> QED BY <1>3, <1>4, <1>5

LEMMA SkipKeeps ==
  ASSUME TypeOK, Place, Disk, Running, Changes,
         pc \in {"file"} \cup Choosing \cup Writing, todo # <<>>,
         Skipped, UNCHANGED <<item, mark, arrived>>
  PROVE  Walk' /\ Counted' /\ Spot'
<1>0. left \in Nat /\ left' = left + 1 /\ NextFile
  BY DEF TypeOK, Skipped
<1>1. left' \in Nat /\ left' >= left /\ left' > left
  BY <1>0
<1> QED BY <1>0, <1>1, LeaveKeeps

\* An item begins, goes over to a stream or ends.
LEMMA ItemPlace ==
  ASSUME TypeOK, Place, Running,
         Scan \/ BeginItem \/ RenameStat \/ Rename \/ EndItem \/ EnterFolder \/ ListFolder,
         Running'
  PROVE  Walk' /\ Counted' /\ Spot'
<1>0. /\ Walk /\ Counted /\ Kinds /\ Len(Items) \in Nat /\ outcome' = "running"
      /\ pc \notin Between => FilesOf(item) \subseteq Files /\ it.dst \in Paths /\ item \in DOMAIN Items
  BY TypesAre, OnItem, ItemDomain DEF Place, Running
<1>1. ASSUME pc' = "item" PROVE Walk' /\ Counted' /\ Spot'
  BY <1>1 DEF Walk, Counted, Spot, Between, Choosing, Writing, Streamed, Undoing
<1>2. CASE Scan \/ EndItem
  <2>1. pc' = "item"
    BY <1>0, <1>2 DEF Scan, EndItem, NextItem, Goto, Stop
  <2> QED BY <1>1, <2>1
<1>3. ASSUME pc' \in {"rename", "renaming", "enter", "list", "file"}, UNCHANGED <<item, arrived>>,
             item \in DOMAIN Items, ToSet(todo') \subseteq FilesOf(item),
             pc' \in {"enter", "list"} => IsFolder(item),
             IsFolder(item) /\ (todo' # <<>> \/ pc' = "list") => fs'[it.dst] = Folder,
             pc' = "file" /\ left' = mark' => FilesOf(item) \subseteq ToSet(todo'),
             pc' \in {"rename", "renaming"} /\ ~ IsFolder(item) => FilesOf(item) \subseteq ToSet(todo'),
             pc' = "renaming" => fs'[it.dst] = Nothing
      PROVE  Walk' /\ Counted' /\ Spot'
  <2>0. item' = item /\ item <= Len(Items) /\ it' = it /\ (IsFolder(item') <=> IsFolder(item))
        /\ FilesOf(item') = FilesOf(item)
        /\ pc' \notin {"over", "undonext"} /\ pc' \notin Choosing \cup Writing
    BY <1>3, ItemDomain DEF it, Choosing, Writing, Streamed, Undoing
  <2>1. Walk'
    BY <1>3, <2>0 DEF Walk
  <2>2. Counted'
    BY <1>3, <2>0 DEF Counted
  <2>3. Spot'
    BY <1>3, <2>0 DEF Spot, Choosing, Writing, Streamed, Undoing
  <2> QED BY <2>1, <2>2, <2>3
<1>4. CASE BeginItem
  <2>1. /\ item <= Len(Items) /\ UNCHANGED <<fs, item, arrived>> /\ mark' = left
        /\ todo' = IF IsFolder(item) THEN <<>> ELSE it.files
        /\ pc' \in {"rename", "enter", "file"}
        /\ pc' = "enter" => IsFolder(item)
        /\ pc' = "file" => ~ IsFolder(item)
    BY <1>0, <1>4 DEF BeginItem, Stop, Goto, history
  <2>2. item \in DOMAIN Items
    BY <1>0, <2>1, ItemDomain DEF Kinds
  <2>3. IsFolder(item) => todo' = <<>> /\ ToSet(todo') = {}
    <3>1. ToSet(<<>>) = {}
      BY DEF ToSet
    <3> QED BY <2>1, <3>1
  <2>4. ~ IsFolder(item) => ToSet(todo') = FilesOf(item)
    BY <2>1 DEF FilesOf, it
  <2> QED BY <1>3, <2>1, <2>2, <2>3, <2>4
<1>5. CASE RenameStat \/ Rename
  <2>1. CASE pc' = "item"
    BY <1>1, <2>1
  <2>2. CASE pc' # "item"
    <3>1. /\ UNCHANGED <<fs, item, todo, mark, left, arrived>>
          /\ pc' \in {"renaming", "enter", "file"} /\ pc \in {"rename", "renaming"}
          /\ pc' = "enter" => IsFolder(item)
          /\ pc' = "file" => ~ IsFolder(item)
          /\ pc' = "renaming" => fs[it.dst] = Nothing
      <4>1. CASE RenameStat
        BY <1>0, <4>1 DEF RenameStat, Streaming, Stop, Goto, At, walk, history
      <4>2. CASE Rename
        BY <1>0, <2>2, <4>2 DEF Rename, Streaming, NextItem, Stop, Goto, At
      <4> QED BY <1>5, <4>1, <4>2
    <3>2. /\ item \in DOMAIN Items /\ ToSet(todo) \subseteq FilesOf(item)
          /\ (IsFolder(item) /\ todo # <<>> => fs[it.dst] = Folder)
          /\ (~ IsFolder(item) => FilesOf(item) \subseteq ToSet(todo))
      BY <1>0, <3>1 DEF Walk, Counted, Between
    <3> QED BY <1>3, <3>1, <3>2
  <2> QED BY <2>1, <2>2
<1>6. CASE EnterFolder
  <2>1. /\ UNCHANGED <<item, todo, mark, arrived>> /\ pc' \in {"list", "file"} /\ pc = "enter"
        /\ (pc' = "file" => left' = left + 1)
        /\ fs' = fs \/ fs' = [fs EXCEPT ![it.dst] = Folder]
        /\ (pc' = "list" => fs' = [fs EXCEPT ![it.dst] = Folder])
    BY <1>0, <1>6 DEF EnterFolder, Stop, Goto, At, history
  <2>2. /\ item \in DOMAIN Items /\ ToSet(todo) \subseteq FilesOf(item) /\ IsFolder(item) /\ it.dst \in Paths
        /\ (todo # <<>> => fs[it.dst] = Folder)
    BY <1>0, <2>1 DEF Walk, Between
  <2>3. pc' = "file" => left' # mark'
    BY <1>0, <2>1 DEF Kinds
  <2>4. todo # <<>> \/ pc' = "list" => fs'[it.dst] = Folder
    <3>1. fs \in [Paths -> Content]
      BY DEF TypeOK
    <3> QED BY <2>1, <2>2, <3>1
  <2> QED BY <1>3, <2>1, <2>2, <2>3, <2>4
<1>7. CASE ListFolder
  <2>1. /\ UNCHANGED <<fs, item, mark, arrived>> /\ pc' = "file" /\ pc = "list"
        /\ \/ todo' = it.files
           \/ left' = left + 1 /\ \E n \in 0..Len(it.files) : todo' = SubSeq(it.files, 1, n)
    BY <1>0, <1>7 DEF ListFolder, Stop, Goto, At, history
  <2>2. item \in DOMAIN Items /\ IsFolder(item) /\ fs[it.dst] = Folder /\ it.files \in Seq(Files)
        /\ ToSet(it.files) = FilesOf(item)
    BY <1>0, <2>1, ItemIs DEF Walk, Between, it, FilesOf
  <2>3. ToSet(todo') \subseteq FilesOf(item)
    BY <2>1, <2>2, Listing
  <2>4. left' = mark' => FilesOf(item) \subseteq ToSet(todo')
    BY <1>0, <2>1, <2>2 DEF Kinds
  <2> QED BY <1>3, <2>1, <2>2, <2>3, <2>4
<1> QED BY <1>2, <1>4, <1>5, <1>6, <1>7
\* A step of the file in hand that keeps to it, whatever it touches.
LEMMA StayKeeps ==
  ASSUME TypeOK, Place, Disk, Running, Changes,
         pc \in Choosing \cup Writing, UNCHANGED <<item, todo, mark, arrived, dest>>,
         left' = left \/ left' = left + 1,
         pc' \in Choosing \cup Writing, pc' = "undonext" => left' = left + 1
  PROVE  Walk' /\ Counted'
<1>1. Walk /\ Kinds
  BY TypesAre DEF Place
<1>2. todo # <<>> /\ dest' \in Paths /\ (dest' = Dst[cur] \/ dest' \in Names[cur])
  BY <1>1, FileInHand
<1>3. Holds /\ (pc' = "undonext" => left' > mark)
  BY <1>1 DEF Holds, Kinds
<1> QED BY <1>2, <1>3, HoldKeeps

LEMMA StagesAre ==
  /\ {"conflict", "ask", "told"} = Choosing
  /\ {"servercopy", "scp", "open", "askopen", "create", "askcreate", "pump", "commit",
      "undonext", "undostop"} = Writing
  /\ {"pump", "commit", "undonext", "undostop"} = Streamed
  /\ {"undonext", "undostop"} = Undoing
  BY DEF Choosing, Writing, Streamed, Undoing

LEMMA StatPlace ==
  ASSUME TypeOK, Place, Disk, Running, Changes, StatFile, Running'
  PROVE  Walk' /\ Counted' /\ Spot'
<1>0. Walk /\ Kinds /\ pc = "file" /\ todo # <<>> /\ UNCHANGED <<item, mark, arrived>> /\ pc \notin Between
  BY TypesAre DEF Place, StatFile, At, history, Between
<1>1. CASE Skipped
  BY <1>0, <1>1, SkipKeeps
<1>2. CASE dest' = Dst[cur] /\ pc' = "conflict" /\ UNCHANGED <<todo, left>>
  <2>1. cur \in Files
    BY <1>0, Queue DEF Kinds, cur
  <2>2. Dst[cur] \in Paths
    BY <2>1, Ends
  <2>3. Holds /\ pc' \in Choosing
    BY <1>0, <1>2, StagesAre DEF Holds, Kinds
  <2>4. Walk' /\ Counted'
    BY <1>0, <1>2, <2>2, <2>3, HoldKeeps
  <2> QED BY <1>2, <2>4 DEF Spot, Writing, Streamed, Undoing
<1> QED BY <1>1, <1>2 DEF StatFile, Refused, Stop, Goto, Running

LEMMA ChoosePlace ==
  ASSUME TypeOK, Place, Disk, Running, Changes, Running',
         Conflict \/ AnswerOverwrite \/ AnswerSkip \/ AnswerRename \/ AnswerUnsupported \/ Dismiss
  PROVE  Walk' /\ Counted' /\ Spot'
<1>0. /\ Walk /\ Kinds /\ Spot /\ pc \in Choosing /\ UNCHANGED <<fs, item, mark, arrived, opt>>
      /\ outcome = "running" /\ outcome' = "running"
  <2>1. pc \in Choosing /\ UNCHANGED <<fs, item, mark, arrived, opt>>
    BY StagesAre DEF Conflict, AnswerOverwrite, AnswerSkip, AnswerRename, AnswerUnsupported, Dismiss,
                     At, history, walk, choices
  <2> QED BY <2>1, TypesAre DEF Place, Running
<1>1. /\ todo # <<>> /\ dest \in Paths /\ (dest = Dst[cur] \/ dest \in Names[cur])
      /\ cur \in Files
  BY <1>0, FileInHand
<1>2. CASE Skipped
  BY <1>0, <1>1, <1>2, SkipKeeps
<1>3. ASSUME UNCHANGED <<todo, left>>, pc' \in {"conflict", "told"},
             dest' = dest \/ dest' \in Names[cur]
      PROVE  Walk' /\ Counted' /\ Spot'
  <2>1. Holds /\ pc' \in Choosing /\ pc' # "undonext"
    BY <1>0, <1>3, StagesAre DEF Holds, Kinds
  <2>2. dest' \in Paths /\ (dest' = Dst[cur] \/ dest' \in Names[cur])
    BY <1>1, <1>3, Ends
  <2>3. Walk' /\ Counted'
    BY <1>0, <1>1, <2>1, <2>2, HoldKeeps
  <2>4. Spot'
    BY <1>3, StagesAre DEF Spot
  <2> QED BY <2>3, <2>4
<1>4. ASSUME UNCHANGED <<todo, left, dest>>, pc' = "ask", fs[dest] \notin {Nothing, Folder}
      PROVE  Walk' /\ Counted' /\ Spot'
  <2>1. Walk' /\ Counted'
    BY <1>0, <1>4, StagesAre, StayKeeps
  <2>2. Spot'
    BY <1>0, <1>4, StagesAre DEF Spot
  <2> QED BY <2>1, <2>2
<1>5. ASSUME UNCHANGED <<todo, left, dest>>, pc' = Carrier, existed' \in BOOLEAN, fs[dest] # Folder,
             IF existed' THEN dest \in consented' ELSE fs[dest] = Nothing
      PROVE  Walk' /\ Counted' /\ Spot'
  <2>1. pc' \in {"servercopy", "scp", "open"} /\ (pc' = "scp" => opt'.via \in {"fish", "scp"})
    BY <1>0, <1>5 DEF Carrier, Direct
  <2>2. Walk' /\ Counted'
    BY <1>0, <1>5, <2>1, StagesAre, StayKeeps
  <2>3. Spot'
    BY <1>0, <1>5, <2>1, StagesAre DEF Spot
  <2> QED BY <2>2, <2>3
<1>6. CASE Conflict
  <2>1. CASE fs[dest] = Nothing /\ Settle(FALSE)
    BY <1>5, <2>1, MarksAssumption DEF Settle, Goto
  <2>2. CASE fs[dest] \notin {Nothing, Folder} /\ Settle(TRUE) /\ consented' = consented \cup {dest}
    BY <1>5, <2>2 DEF Settle, Goto
  <2>3. CASE fs[dest] \notin {Nothing, Folder} /\ Ask("ask") /\ UNCHANGED <<todo, dest, left>>
    BY <1>0, <1>4, <2>3 DEF Ask, Goto, Stop
  <2>4. CASE Refused(opt.ignoreWrite)
    BY <1>0, <1>2, <2>4 DEF Refused, Stop
  <2> QED BY <1>2, <1>6, <2>1, <2>2, <2>3, <2>4 DEF Conflict
<1>7. CASE AnswerOverwrite
  <2>1. /\ UNCHANGED <<todo, left, dest>> /\ pc' = Carrier /\ existed' = TRUE /\ dest \in consented'
        /\ pc = "ask"
    BY <1>7 DEF AnswerOverwrite, Goto, At
  <2>2. fs[dest] # Folder
    BY <1>0, <2>1 DEF Spot
  <2> QED BY <1>5, <2>1, <2>2
<1>8. CASE AnswerSkip
  BY <1>2, <1>8 DEF AnswerSkip
<1>9. CASE AnswerRename
  BY <1>3, <1>9 DEF AnswerRename, Goto
<1>10. CASE AnswerUnsupported \/ Dismiss
  BY <1>3, <1>10 DEF AnswerUnsupported, Dismiss, Goto, walk
<1> QED BY <1>6, <1>7, <1>8, <1>9, <1>10

\* The spot after a write of the file in hand that goes on with it.
LEMMA SpotStays ==
  ASSUME TypeOK, Spot, pc \in Writing, dest \in Paths, pc' \in Writing,
         UNCHANGED <<dest, existed, consented, opt>>,
         fs' = fs \/ Put(Partial),
         pc' \in Undoing => ~ existed,
         pc' \in Streamed /\ ~ existed /\ ~ Staged => fs'[dest] = Partial,
         pc' = "scp" => opt.via \in {"fish", "scp"}
  PROVE  Spot'
<1>1. fs'[dest] = fs[dest] \/ fs'[dest] = Partial
  BY DEF Put, TypeOK
<1>2. fs'[dest] # Folder /\ (~ existed => fs'[dest] \in {Nothing, Alien, Partial})
  BY <1>1, MarksAssumption DEF Spot
<1>3. existed => dest \in consented
  BY DEF Spot
<1>4. pc' \notin {"ask", "renaming"}
  BY StagesAre
<1> QED BY <1>2, <1>3, <1>4 DEF Spot, Staged

LEMMA OpenPlace ==
  ASSUME TypeOK, Place, Disk, Running, Changes, Running',
         Open \/ AnswerRetry \/ AnswerSkipError \/ Create
  PROVE  Walk' /\ Counted' /\ Spot'
<1>0. /\ Walk /\ Kinds /\ Spot /\ pc \in {"open", "askopen", "create", "askcreate"} /\ pc \in Writing
      /\ UNCHANGED <<item, mark, arrived, opt, dest, existed, consented>>
      /\ outcome = "running" /\ outcome' = "running"
  <2>1. /\ pc \in {"open", "askopen", "create", "askcreate"}
        /\ UNCHANGED <<item, mark, arrived, opt, dest, existed, consented>>
    BY DEF Open, AnswerRetry, AnswerSkipError, Create, At, history, walk, choices
  <2> QED BY <2>1, TypesAre, StagesAre DEF Place, Running
<1>1. todo # <<>> /\ dest \in Paths
  BY <1>0, FileInHand
<1>2. CASE Skipped
  BY <1>0, <1>1, <1>2, SkipKeeps
<1>3. ASSUME UNCHANGED <<todo, left>>, fs' = fs, pc' \in {"open", "askopen", "create", "askcreate"}
      PROVE  Walk' /\ Counted' /\ Spot'
  <2>1. pc' \in Writing /\ pc' \notin Streamed /\ pc' \notin Undoing /\ pc' # "undonext" /\ pc' # "scp"
    BY <1>3, StagesAre
  <2>2. Walk' /\ Counted'
    BY <1>0, <1>3, <2>1, StayKeeps
  <2>3. Spot'
    BY <1>0, <1>1, <1>3, <2>1, SpotStays
  <2> QED BY <2>2, <2>3
<1>4. ASSUME UNCHANGED <<todo, left>>, pc' = "pump", IF Staged THEN fs' = fs ELSE Put(Partial)
      PROVE  Walk' /\ Counted' /\ Spot'
  <2>1. pc' \in Writing /\ pc' \notin Undoing /\ pc' # "undonext" /\ pc' # "scp"
    BY <1>4, StagesAre
  <2>2. Walk' /\ Counted'
    BY <1>0, <1>4, <2>1, StayKeeps
  <2>3. ~ Staged => fs'[dest] = Partial
    BY <1>1, <1>4 DEF Put, TypeOK
  <2>4. Spot'
    BY <1>0, <1>1, <1>4, <2>1, <2>3, SpotStays
  <2> QED BY <2>2, <2>4
<1>5. CASE Open
  BY <1>0, <1>2, <1>3, <1>5 DEF Open, Ask, Goto, Stop
<1>6. CASE AnswerRetry
  BY <1>3, <1>6 DEF AnswerRetry, Goto, walk
<1>7. CASE AnswerSkipError
  BY <1>2, <1>7 DEF AnswerSkipError
<1>8. CASE Create
  BY <1>0, <1>2, <1>3, <1>4, <1>8 DEF Create, Ask, Goto, Stop
<1> QED BY <1>5, <1>6, <1>7, <1>8

\* A copy that arrived.
LEMMA CopiedPlace ==
  ASSUME TypeOK, Place, Disk, Running, Changes, pc \in Writing, Copied, UNCHANGED <<item, mark>>
  PROVE  Walk' /\ Counted' /\ Spot'
<1>1. Walk /\ Kinds /\ arrived \in [Files -> Paths \cup {NoPath}]
  BY TypesAre DEF Place
<1>2. todo # <<>> /\ dest \in Paths /\ cur \in Files
  BY <1>1, FileInHand
<1>3. arrived'[cur] = dest /\ \A g \in Files : g # cur => arrived'[g] = arrived[g]
  BY <1>1, <1>2 DEF Copied
<1>4. dest # NoPath
  BY <1>2, TransferAssumption
<1>5. \A g \in Files : arrived[g] # NoPath => arrived'[g] # NoPath
  BY <1>2, <1>3, <1>4
<1>6. NextFile /\ left' \in Nat /\ left' >= left
  BY <1>1 DEF Copied, Kinds
<1> QED BY <1>2, <1>3, <1>4, <1>5, <1>6, LeaveKeeps

LEMMA CarryPlace ==
  ASSUME TypeOK, Place, Disk, Running, Changes, Running', ServerCopy \/ Scp
  PROVE  Walk' /\ Counted' /\ Spot'
<1>0. /\ Walk /\ Kinds /\ Spot /\ pc \in {"servercopy", "scp"} /\ pc \in Writing
      /\ UNCHANGED <<item, mark, opt, dest, existed, consented, left>>
      /\ outcome = "running" /\ outcome' = "running"
  <2>1. /\ pc \in {"servercopy", "scp"}
        /\ UNCHANGED <<item, mark, opt, dest, existed, consented, left>>
    BY DEF ServerCopy, Scp, At, choices
  <2> QED BY <2>1, TypesAre, StagesAre DEF Place, Running
<1>1. todo # <<>> /\ dest \in Paths
  BY <1>0, FileInHand
<1>2. CASE Copied
  BY <1>0, <1>2, CopiedPlace
<1>3. ASSUME UNCHANGED <<todo, arrived>>, fs' = fs \/ Put(Partial), pc' \in {"open", Direct}
      PROVE  Walk' /\ Counted' /\ Spot'
  <2>1. pc' \in Writing /\ pc' \notin Streamed /\ pc' \notin Undoing /\ pc' # "undonext"
        /\ (pc' = "scp" => opt.via \in {"fish", "scp"})
    BY <1>3, StagesAre DEF Direct
  <2>2. Walk' /\ Counted'
    BY <1>0, <1>3, <2>1, StayKeeps
  <2>3. Spot'
    BY <1>0, <1>1, <1>3, <2>1, SpotStays
  <2> QED BY <2>2, <2>3
<1>4. CASE ServerCopy
  BY <1>0, <1>2, <1>3, <1>4 DEF ServerCopy, Abandon, Goto, Stop
<1>5. CASE Scp
  BY <1>0, <1>2, <1>3, <1>5 DEF Scp, Abandon, Goto
<1> QED BY <1>4, <1>5

LEMMA StreamPlace ==
  ASSUME TypeOK, Place, Disk, Running, Changes, Running', PumpFile \/ Commit \/ Undo
  PROVE  Walk' /\ Counted' /\ Spot'
<1>0. /\ Walk /\ Counted /\ Kinds /\ Spot /\ pc \in Streamed /\ pc \in Writing
      /\ UNCHANGED <<item, mark, opt, dest, existed, consented>>
      /\ outcome = "running" /\ outcome' = "running"
  <2>1. pc \in Streamed /\ UNCHANGED <<item, mark, opt, dest, existed, consented>>
    BY StagesAre DEF PumpFile, Commit, Undo, At, choices
  <2> QED BY <2>1, TypesAre DEF Place, Running, Writing
<1>1. todo # <<>> /\ dest \in Paths
  BY <1>0, FileInHand
<1>2. ASSUME UNCHANGED <<fs, todo, arrived>>, pc' \in Streamed, left' = left \/ left' = left + 1,
             pc' = "undonext" => left' = left + 1, pc' \in Undoing => ~ existed
      PROVE  Walk' /\ Counted' /\ Spot'
  <2>1. pc' \in Writing /\ pc' # "scp"
    BY <1>2, StagesAre
  <2>2. Walk' /\ Counted'
    BY <1>0, <1>2, <2>1, StayKeeps
  <2>3. ~ existed /\ ~ Staged => fs'[dest] = Partial
    BY <1>0, <1>2 DEF Spot
  <2>4. Spot'
    BY <1>0, <1>1, <1>2, <2>1, <2>3, SpotStays
  <2> QED BY <2>2, <2>4
<1>3. ASSUME NEW next \in BOOLEAN, NEW undo \in BOOLEAN, Unwind(next, undo), UNCHANGED <<fs, arrived>>,
             IF next THEN left' = left + 1 ELSE left' \in {left, left + 1}, undo => ~ existed
      PROVE  Walk' /\ Counted' /\ Spot'
  <2>1. CASE undo
    <3>1. UNCHANGED todo /\ pc' = IF next THEN "undonext" ELSE "undostop"
      BY <1>3, <2>1 DEF Unwind, Goto
    <3> QED BY <1>2, <1>3, <2>1, <3>1, StagesAre
  <2>2. CASE ~ undo /\ next
    <3>1. Skipped
      BY <1>3, <2>2 DEF Unwind, Skipped
    <3> QED BY <1>0, <1>1, <1>3, <3>1, SkipKeeps
  <2>3. CASE ~ undo /\ ~ next
    BY <1>0, <1>3, <2>3 DEF Unwind, Stop
  <2> QED BY <2>1, <2>2, <2>3
<1>4. CASE PumpFile
  <2>1. CASE pc' = "commit" /\ UNCHANGED <<todo, left>>
    BY <1>2, <1>4, <2>1, StagesAre DEF PumpFile
  <2>2. ASSUME NEW ignored \in {FALSE, opt.ignoreRead \/ opt.ignoreWrite},
               NEW discard \in {"done", "failed", "refused"},
               left' = IF ignored THEN left + 1 ELSE left,
               Unwind(ignored /\ discard = "done", ~existed /\ ~Staged /\ discard # "refused")
        PROVE  Walk' /\ Counted' /\ Spot'
    <3>1. PICK next \in BOOLEAN : next = (ignored /\ discard = "done")
      OBVIOUS
    <3>2. PICK undo \in BOOLEAN : undo = (~existed /\ ~Staged /\ discard # "refused")
      OBVIOUS
    <3>3. Unwind(next, undo)
      BY <2>2, <3>1, <3>2
    <3>4. IF next THEN left' = left + 1 ELSE left' \in {left, left + 1}
      BY <2>2, <3>1
    <3>5. UNCHANGED <<fs, arrived>> /\ (undo => ~ existed)
      BY <1>4, <3>2 DEF PumpFile
    <3> QED BY <1>3, <3>3, <3>4, <3>5
  <2> QED BY <1>4, <2>1, <2>2 DEF PumpFile, Goto
<1>5. CASE Commit
  <2>1. CASE Copied
    BY <1>0, <2>1, CopiedPlace
  <2>2. ASSUME NEW ignored \in {FALSE, opt.ignoreWrite}, NEW definite \in BOOLEAN,
               left' = IF ignored THEN left + 1 ELSE left,
               Unwind(ignored, definite /\ ~existed), UNCHANGED <<fs, arrived>>
        PROVE  Walk' /\ Counted' /\ Spot'
    <3>1. PICK next \in BOOLEAN : next = ignored
      BY <1>0 DEF Kinds
    <3>2. PICK undo \in BOOLEAN : undo = (definite /\ ~existed)
      OBVIOUS
    <3>3. Unwind(next, undo)
      BY <2>2, <3>1, <3>2
    <3>4. IF next THEN left' = left + 1 ELSE left' \in {left, left + 1}
      BY <2>2, <3>1
    <3> QED BY <1>3, <2>2, <3>2, <3>3, <3>4
  <2>3. CASE Unwind(FALSE, FALSE)
    BY <1>0, <2>3 DEF Unwind, Stop
  <2> QED BY <1>5, <2>1, <2>2, <2>3 DEF Commit
<1>6. CASE Undo
  <2>1. pc = "undonext" /\ NextFile
    BY <1>0, <1>6 DEF Undo, Stop
  <2>2. left' = left /\ arrived' = arrived /\ left > mark /\ left' \in Nat /\ left' >= left
    BY <1>0, <1>6, <2>1 DEF Undo, Counted, Kinds
  <2> QED BY <1>0, <1>1, <2>1, <2>2, LeaveKeeps
<1> QED BY <1>4, <1>5, <1>6

\* What the rest of the world does leaves the worker where it is.
LEMMA WorldPlace ==
  ASSUME TypeOK, Place, Disk, Running, Changes, Running', Cancel \/ \E p \in Foreign : ForeignCreate(p)
  PROVE  Walk' /\ Counted' /\ Spot'
<1>0. /\ Walk /\ Counted /\ Spot
      /\ UNCHANGED <<pc, item, todo, dest, existed, mark, left, arrived, consented, opt>>
  BY DEF Place, Cancel, ForeignCreate, choices, walk, history
<1>1. Counted'
  BY <1>0 DEF Counted, IsFolder, FilesOf
<1>2. Walk'
  <2>1. pc \notin Between /\ IsFolder(item) /\ fs[it.dst] = Folder => fs'[it.dst] = Folder
    BY FolderKept
  <2>2. it' = it /\ cur' = cur /\ (IsFolder(item)' <=> IsFolder(item)) /\ FilesOf(item)' = FilesOf(item)
    BY <1>0 DEF it, cur, IsFolder, FilesOf
  <2> QED BY <1>0, <2>1, <2>2 DEF Walk
<1>3. Spot'
  <2>1. CASE fs' = fs
    BY <1>0, <2>1 DEF Spot, Staged, it
  <2>2. ASSUME NEW p \in Paths, fs[p] = Nothing, fs' = [fs EXCEPT ![p] = Alien] PROVE Spot'
    <3>1. pc \in Choosing \cup Writing => dest \in Paths
      BY <1>0, FileInHand
    <3>2. pc \in Choosing \cup Writing => fs'[dest] = fs[dest] \/ (fs[dest] = Nothing /\ fs'[dest] = Alien)
      BY <2>2, <3>1 DEF TypeOK
    <3>3. pc = "ask" \/ pc \in Writing \/ (pc \notin Writing /\ pc \notin Streamed /\ pc \notin Undoing /\ pc # "scp")
      BY StagesAre
    <3>4. (pc \in Streamed => pc \in Writing) /\ (pc = "ask" => pc \in Choosing)
      BY StagesAre
    <3>5. pc = "renaming" => it' = it /\ fs'[it.dst] \in {Nothing, Alien}
      <4>1. pc = "renaming" => it.dst \in Paths /\ fs[it.dst] \in {Nothing, Alien}
        BY <1>0, OnItem DEF Between, Spot
      <4> QED BY <1>0, <2>2, <4>1 DEF TypeOK, it
    <3>6. Staged' <=> Staged
      BY <1>0 DEF Staged
    <3> QED BY <1>0, <3>2, <3>3, <3>4, <3>5, <3>6, MarksAssumption DEF Spot
  <2> QED BY <2>1, <2>2, TransferAssumption DEF Cancel, ForeignCreate
<1> QED BY <1>1, <1>2, <1>3

LEMMA StepPlace == ASSUME TypeOK, Place, Disk, Running, Next, Changes PROVE Place'
<1>1. SUFFICES ASSUME Running' PROVE Walk' /\ Counted' /\ Spot'
  BY DEF Place
<1>2. CASE Worker
  <2>1. CASE Scan \/ BeginItem \/ RenameStat \/ Rename \/ EndItem \/ EnterFolder \/ ListFolder
    BY <1>1, <2>1, ItemPlace
  <2>2. CASE Conflict \/ Open \/ Create \/ StatFile
    BY <1>1, <2>2, ChoosePlace, OpenPlace, StatPlace
  <2>3. CASE ServerCopy \/ Scp \/ PumpFile \/ Commit \/ Undo
    BY <1>1, <2>3, CarryPlace, StreamPlace
  <2>4. CASE GiveUpAsking
    BY <1>1, <2>4 DEF GiveUpAsking, AnswerCancel, Stop, Running
  <2> QED BY <1>2, <2>1, <2>2, <2>3, <2>4 DEF Worker
<1>3. CASE User
  <2>1. CASE AnswerCancel
    BY <1>1, <2>1 DEF AnswerCancel, Stop, Running
  <2> QED BY <1>1, <1>3, <2>1, ChoosePlace, OpenPlace DEF User
<1>4. CASE Cancel \/ \E p \in Foreign : ForeignCreate(p)
  BY <1>1, <1>4, WorldPlace
<1>5. CASE Over
  BY <1>5 DEF Over, Running
<1> QED BY <1>2, <1>3, <1>4, <1>5 DEF Next
-----------------------------------------------------------------------------
(***************************************************************************)
(* The transfer as a whole                                                 *)
(***************************************************************************)
\* Nothing happens after the end.
LEMMA OverIsOver == ASSUME ~ Running, Next PROVE UNCHANGED vars
<1> USE DEF Running, At
<1>1. ~ Worker
  <2>1. ~ (Scan \/ BeginItem \/ RenameStat \/ Rename \/ EndItem)
    BY DEF Scan, BeginItem, RenameStat, Rename, EndItem
  <2>2. ~ (EnterFolder \/ ListFolder \/ StatFile \/ Conflict \/ GiveUpAsking)
    BY DEF EnterFolder, ListFolder, StatFile, Conflict, GiveUpAsking, AnswerCancel
  <2>3. ~ (ServerCopy \/ Scp \/ Open \/ Create \/ PumpFile \/ Commit \/ Undo)
    BY DEF ServerCopy, Scp, Open, Create, PumpFile, Commit, Undo
  <2> QED BY <2>1, <2>2, <2>3 DEF Worker
<1>2. ~ User
  <2>1. ~ (AnswerOverwrite \/ AnswerSkip \/ AnswerRename \/ AnswerUnsupported)
    BY DEF AnswerOverwrite, AnswerSkip, AnswerRename, AnswerUnsupported
  <2>2. ~ (Dismiss \/ AnswerCancel \/ AnswerRetry \/ AnswerSkipError)
    BY DEF Dismiss, AnswerCancel, AnswerRetry, AnswerSkipError
  <2> QED BY <2>1, <2>2 DEF User
<1>3. ~ (Cancel \/ \E p \in Foreign : ForeignCreate(p))
  BY DEF Cancel, ForeignCreate
<1> QED BY <1>1, <1>2, <1>3 DEF Next, Over

\* A change reported to be in doubt ends the operation.
LEMMA DoubtEnds ==
  ASSUME Next
  PROVE  doubt' = doubt \/ (doubt' = "silent" /\ Lossy) \/ (doubt' = "reported" /\ ~ Running')
<1> USE DEF Running, Stop
<1>1. CASE Worker
  <2>1. CASE Scan \/ BeginItem \/ RenameStat \/ Rename \/ EndItem \/ EnterFolder \/ ListFolder
    BY <2>1 DEF Scan, BeginItem, RenameStat, Rename, EndItem, EnterFolder, ListFolder, history
  <2>2. CASE StatFile \/ Conflict \/ GiveUpAsking \/ Scp \/ Open \/ Create \/ PumpFile \/ Undo
    BY <2>2 DEF StatFile, Conflict, GiveUpAsking, AnswerCancel, Scp, Abandon, Open, Create, PumpFile, Undo, history
  <2>3. CASE ServerCopy \/ Commit
    BY <2>3 DEF ServerCopy, Abandon, Commit, Unwind
  <2> QED BY <1>1, <2>1, <2>2, <2>3 DEF Worker
<1>2. CASE User
  <2>1. CASE AnswerOverwrite \/ AnswerSkip \/ AnswerRename \/ AnswerUnsupported
    BY <2>1 DEF AnswerOverwrite, AnswerSkip, AnswerRename, AnswerUnsupported, history
  <2>2. CASE Dismiss \/ AnswerCancel \/ AnswerRetry \/ AnswerSkipError
    BY <2>2 DEF Dismiss, AnswerCancel, AnswerRetry, AnswerSkipError, history
  <2> QED BY <1>2, <2>1, <2>2 DEF User
<1>3. CASE Cancel \/ (\E p \in Foreign : ForeignCreate(p)) \/ Over
  BY <1>3 DEF Cancel, ForeignCreate, Over, vars, history
<1> QED BY <1>1, <1>2, <1>3 DEF Next

\* The options stay as they are, and what is left behind only grows.
LEMMA OptStays == ASSUME TypeOK, Next PROVE opt' = opt /\ left' >= left /\ left' \in Nat
<1>0. left \in Nat
  BY DEF TypeOK
<1>1. ASSUME opt' = opt, left' = left \/ left' = left + 1
      PROVE  opt' = opt /\ left' >= left /\ left' \in Nat
  BY <1>0, <1>1
<1>2. CASE Worker
  <2>1. CASE Scan \/ BeginItem \/ RenameStat \/ Rename \/ EndItem \/ EnterFolder \/ ListFolder
    BY <1>1, <2>1 DEF Scan, BeginItem, RenameStat, Rename, EndItem, EnterFolder, ListFolder, choices
  <2>2. CASE StatFile \/ Conflict \/ GiveUpAsking
    BY <1>1, <2>2 DEF StatFile, Conflict, GiveUpAsking, AnswerCancel, Refused, Skipped, Settle, choices
  <2>3. CASE ServerCopy \/ Scp \/ Open \/ Create
    BY <1>1, <2>3 DEF ServerCopy, Scp, Open, Create, Copied, Skipped, choices
  <2>4. CASE PumpFile \/ Undo
    BY <1>1, <2>4 DEF PumpFile, Undo, choices
  <2>5. CASE Commit
    BY <1>1, <2>5 DEF Commit, Copied, choices
  <2> QED BY <1>2, <2>1, <2>2, <2>3, <2>4, <2>5 DEF Worker
<1>3. CASE User
  <2>1. CASE AnswerOverwrite \/ AnswerSkip \/ AnswerRename \/ AnswerUnsupported
    BY <1>1, <2>1 DEF AnswerOverwrite, AnswerSkip, AnswerRename, AnswerUnsupported, Skipped, choices
  <2>2. CASE Dismiss \/ AnswerCancel \/ AnswerRetry \/ AnswerSkipError
    BY <1>1, <2>2 DEF Dismiss, AnswerCancel, AnswerRetry, AnswerSkipError, Skipped, choices
  <2> QED BY <1>3, <2>1, <2>2 DEF User
<1>4. CASE Cancel \/ (\E p \in Foreign : ForeignCreate(p)) \/ Over
  BY <1>1, <1>4 DEF Cancel, ForeignCreate, Over, vars, choices
<1> QED BY <1>2, <1>3, <1>4 DEF Next

LEMMA InitInv == Init => IInv
<1> SUFFICES ASSUME Init PROVE IInv
  OBVIOUS
<1>1. /\ fs \in [Paths -> Content] /\ fs \in Worlds /\ \A f \in Files : fs[Src[f]] = f
      /\ Len(Items) \in Nat /\ arrived = [g \in Files |-> NoPath]
  BY TransferAssumption, ItemDomain DEF Init
<1>2. Kinds
  <2>1. pc \in Steps
    BY DEF Init, Steps
  <2>2. item \in 1..(Len(Items) + 1) /\ <<>> \in Seq(Files)
    BY <1>1 DEF Init
  <2>3. todo \in Seq(Files) /\ consented \subseteq Paths /\ doubtful \subseteq Paths /\ abandoned \subseteq Paths
    BY <2>2 DEF Init
  <2>4. opt \in [move: BOOLEAN, ignoreRead: BOOLEAN, ignoreWrite: BOOLEAN, via: Vias]
    BY DEF Init
  <2>5. outcome \in {"running", "ok", "failed", "cancelled"} /\ s2s \in {"probe", "works", "off"}
    BY DEF Init
  <2>6. left \in Nat /\ mark \in Nat /\ mark <= left
    BY DEF Init
  <2>7. /\ dest \in Paths \cup {NoPath} /\ existed \in BOOLEAN /\ overwriteAll \in BOOLEAN
        /\ skipAll \in BOOLEAN /\ cancelled \in BOOLEAN /\ doubt \in {"no", "reported", "silent"}
    BY DEF Init
  <2> QED BY <2>1, <2>2, <2>3, <2>4, <2>5, <2>6, <2>7 DEF Kinds
<1>3. TypeOK
  BY <1>1, <1>2, TypesAre
<1>4. OnePath
  BY <1>1 DEF OnePath
<1>5. Place /\ Certain
  <2>1. pc = "scan" /\ doubt = "no"
    BY DEF Init
  <2>2. Walk /\ Counted /\ Spot
    BY <2>1, StagesAre DEF Walk, Counted, Spot, Between
  <2> QED BY <2>1, <2>2 DEF Place, Certain
<1>6. Sources
  <2>1. ASSUME NEW j \in DOMAIN Items, IsFolder(j) PROVE fs[Items[j].src] = Folder
    BY <1>1, <2>1, FolderIs
  <2> QED BY <1>1, <2>1 DEF Sources
<1>7. Children
  <2>1. ASSUME NEW j \in DOMAIN Items, IsFolder(j), fs[Items[j].dst] # Folder, NEW g \in FilesOf(j)
        PROVE  fs[Dst[g]] = Nothing /\ Dst[g] \notin SourcesOf(j)
    <3>1. fs[Dst[g]] = Nothing
      BY <1>1, <2>1, FolderIs
    <3>2. fs[Items[j].src] = Folder
      BY <1>1, <2>1, FolderIs
    <3>3. \A h \in FilesOf(j) : fs[Src[h]] # Nothing
      BY <1>1, ItemIs, MarksAssumption
    <3> QED BY <3>1, <3>2, <3>3, MarksAssumption DEF SourcesOf
  <2> QED BY <2>1 DEF Children
<1>8. Arrived /\ InPlace
  BY <1>1 DEF Arrived, InPlace
<1>9. NothingLostUnasked
  BY <1>3, <1>8, NotLost
<1> QED BY <1>3, <1>4, <1>5, <1>6, <1>7, <1>8, <1>9 DEF IInv, Disk, Kept

LEMMA NextInv == IInv /\ [Next]_vars => IInv'
<1> SUFFICES ASSUME IInv, [Next]_vars PROVE IInv'
  OBVIOUS
<1>1. CASE Running /\ Next
  <2>1. Changes
    BY <1>1, StepChanges DEF IInv
  <2>2. Kinds' /\ fs' \in [Paths -> Content] /\ arrived' \in [Files -> Paths \cup {NoPath}]
    BY <1>1, <2>1, StepKinds, PathTypes DEF IInv
  <2>3. TypeOK'
    <3>1. mark' \in 0..left'
      BY <2>2 DEF Kinds
    <3> QED BY <2>2, <3>1 DEF Kinds, TypeOK
  <2>4. Disk' /\ NothingLostUnasked'
    BY <1>1, <2>1, <2>3, StepKeepsDisk DEF IInv
  <2>5. Place'
    BY <1>1, <2>1, StepPlace DEF IInv
  <2>6. OnePath' /\ Certain'
    <3>1. doubt # "reported" /\ (doubt = "silent" => Lossy)
      BY <1>1 DEF IInv, Certain
    <3>2. Lossy' <=> Lossy
      BY <1>1, OptStays DEF IInv, Lossy
    <3>3. Certain'
      BY <1>1, <3>1, <3>2, DoubtEnds DEF Certain
    <3> QED BY <3>3 DEF IInv, OnePath
  <2> QED BY <2>3, <2>4, <2>5, <2>6 DEF IInv
<1>2. CASE UNCHANGED vars
  <2>1. TypeOK' /\ OnePath' /\ Certain'
    BY <1>2 DEF IInv, TypeOK, OnePath, Certain, Lossy, Running, vars, choices, walk, history
  <2>2. Place'
    BY <1>2 DEF IInv, Place, Walk, Counted, Spot, Staged, Running, it, cur, vars, choices, walk, history
  <2>3. Disk'
    BY <1>2 DEF IInv, Disk, Kept, Sources, Children, Arrived, InPlace, Safe, Done, Running, vars,
                choices, walk, history
  <2>4. NothingLostUnasked'
    BY <1>2 DEF IInv, NothingLostUnasked, vars, history
  <2> QED BY <2>1, <2>2, <2>3, <2>4 DEF IInv
<1> QED BY <1>1, <1>2, OverIsOver

\* The inductive invariant of a transfer.
LEMMA TransferInv == Spec => []IInv
BY InitInv, NextInv, PTL DEF Spec

\* Every variable of a transfer holds what the code's variable may hold.
THEOREM TypesAreKept == Spec => []TypeOK
<1>1. IInv => TypeOK
  BY DEF IInv
<1> QED BY <1>1, TransferInv, PTL

\* No file of a copy or move is ever lost: whatever fails, is skipped, renamed,
\* rolled back or taken by another program, its content is at some path, unless
\* the user agreed to overwrite the path it was at or had arrived at.
THEOREM NothingIsLost == Spec => []NothingLostUnasked
<1>1. IInv => NothingLostUnasked
  BY DEF IInv
<1> QED BY <1>1, TransferInv, PTL

\* What was at a path before the operation stays until the user agrees to its
\* replacement, whatever carries the files over.  What another program puts there
\* meanwhile stays too, but where SFTP, FISH+ or scp replace it, and where a
\* staged writer whose Close failed is rolled back.
THEOREM OthersAreSpared == Spec => OthersFilesStay
<1>1. IInv /\ [Next]_vars =>
        [\A p \in Paths : fs'[p] # fs[p] /\ p \notin consented =>
           /\ fs[p] # Old
           /\ fs[p] = Alien => Overwrites \/ (Staged /\ pc \in {"undonext", "undostop"})]_vars
  <2>1. SUFFICES ASSUME IInv, Next, NEW p \in Paths, fs'[p] # fs[p], p \notin consented
                 PROVE  fs[p] # Old /\ (fs[p] = Alien => Overwrites \/ (Staged /\ pc \in Undoing))
    BY StagesAre
  <2>2. Running
    BY <2>1, OverIsOver DEF vars
  <2>3. Changes
    BY <2>1, <2>2, StepChanges DEF IInv
  <2> QED BY <2>1, <2>2, <2>3, StepSparesOthers DEF IInv
<1> QED BY <1>1, TransferInv, PTL DEF Spec, OthersFilesStay

\* After a change that is reported to be of unknown outcome the worker changes
\* nothing, and only SFTP, FISH+ and scp fail to report one.
THEOREM NoRetryInDoubt == Spec => UncertainIsNotRetried
<1>1. IInv /\ [Next]_vars =>
        [doubt = "reported" \/ (doubt = "silent" /\ ~ Lossy) =>
           \A p \in Paths : fs'[p] = fs[p] \/ fs'[p] = Alien]_vars
  <2>1. SUFFICES ASSUME IInv, Next, doubt = "reported" \/ (doubt = "silent" /\ ~ Lossy) PROVE fs' = fs
    OBVIOUS
  <2>2. ~ Running
    BY <2>1 DEF IInv, Certain
  <2> QED BY <2>1, <2>2, OverIsOver DEF vars
<1> QED BY <1>1, TransferInv, PTL DEF Spec, UncertainIsNotRetried
-----------------------------------------------------------------------------
(***************************************************************************)
(* What an item leaves behind                                              *)
(***************************************************************************)
Starting == {"rename", "renaming", "enter", "list"}
Filing   == {"file"} \cup Choosing \cup Writing

\* The file has not been left yet: its item is to come, or it is in the queue.
ToCome(g) == ~ Done(g) /\ (pc \in Filing /\ g \in FilesOf(item) => g \in ToSet(todo))

\* A file is taken up once, an item starts with nothing left behind, and only
\* what was taken up arrives.
Queued ==
  /\ IsInjective(todo)
  /\ pc \in Starting => left = mark /\ (IsFolder(item) => todo = <<>>)
  /\ pc \in {"rename", "renaming"} => opt.move
  /\ \A g \in Files : ToCome(g) => arrived[g] = NoPath

\* With no read error ignored, what was left behind is a file that did not arrive.
Missing ==
  pc \in Filing \ Undoing /\ left # mark /\ ~ opt.ignoreRead =>
    FilesOf(item) = {} \/ \E g \in FilesOf(item) : g \notin ToSet(todo) /\ arrived[g] = NoPath

Told == Running => Queued /\ Missing

LEMMA FilingIs ==
  /\ Starting \cap Filing = {} /\ Between \cap Filing = {} /\ Between \cap Starting = {}
  /\ Choosing \subseteq Filing /\ Writing \subseteq Filing /\ Undoing \subseteq Writing
  /\ "file" \in Filing /\ "file" \notin Undoing /\ "item" \in Between /\ "over" \notin Filing
  /\ Choosing \cap Undoing = {} /\ Choosing \cap Writing = {}
  BY DEF Starting, Filing, Between, Choosing, Writing, Streamed, Undoing

LEMMA InjectiveParts ==
  ASSUME NEW s \in Seq(Files), IsInjective(s)
  PROVE  /\ s # <<>> => IsInjective(Tail(s)) /\ Head(s) \notin ToSet(Tail(s))
         /\ \A n \in 0..Len(s) : IsInjective(SubSeq(s, 1, n))
<1>0. DOMAIN s = 1..Len(s) /\ Len(s) \in Nat
  OBVIOUS
<1>1. ASSUME s # <<>> PROVE IsInjective(Tail(s)) /\ Head(s) \notin ToSet(Tail(s))
  <2>1. /\ DOMAIN Tail(s) = 1..(Len(s) - 1) /\ Head(s) = s[1] /\ 1 \in 1..Len(s)
        /\ \A i \in 1..(Len(s) - 1) : Tail(s)[i] = s[i + 1]
    BY <1>1
  <2>2. \A i \in 1..(Len(s) - 1) : i + 1 \in 1..Len(s) /\ i + 1 # 1 /\ i \in Int
    BY <1>0
  <2>3. ASSUME NEW i \in 1..(Len(s) - 1), NEW j \in 1..(Len(s) - 1), Tail(s)[i] = Tail(s)[j]
        PROVE  i = j
    <3>1. s[i + 1] = s[j + 1]
      BY <2>1, <2>3
    <3>2. i + 1 = j + 1
      BY <1>0, <2>2, <3>1 DEF IsInjective
    <3> QED BY <2>2, <3>2
  <2>4. ASSUME NEW i \in 1..(Len(s) - 1), Tail(s)[i] = Head(s) PROVE FALSE
    <3>1. s[i + 1] = s[1]
      BY <2>1, <2>4
    <3> QED BY <1>0, <2>1, <2>2, <3>1 DEF IsInjective
  <2> QED BY <2>1, <2>3, <2>4 DEF IsInjective, ToSet
<1>2. ASSUME NEW n \in 0..Len(s) PROVE IsInjective(SubSeq(s, 1, n))
  <2>1. DOMAIN SubSeq(s, 1, n) = 1..n /\ \A i \in 1..n : SubSeq(s, 1, n)[i] = s[i] /\ i \in 1..Len(s)
    BY <1>0
  <2> QED BY <1>0, <2>1 DEF IsInjective
<1> QED BY <1>1, <1>2

(***************************************************************************)
(* How a step goes about the queue                                         *)
(***************************************************************************)
\* It keeps to the file in hand, takes it up, or leaves it.
Stands ==
  /\ pc \in Filing /\ pc' \in Filing /\ UNCHANGED <<item, todo, mark, arrived, opt>>
  /\ pc' \in Undoing \/ (pc \notin Undoing /\ left' = left)
  /\ pc \in Writing => pc' \in Writing /\ dest' = dest
Leaves ==
  /\ pc \in Filing /\ pc' = "file" /\ todo # <<>> /\ todo' = Tail(todo)
  /\ UNCHANGED <<item, mark, opt>>
  /\ \/ arrived' = arrived
     \/ pc \notin Undoing /\ left' = left /\ arrived' = [arrived EXCEPT ![cur] = dest]

\* It waits between two items, begins one, or ends it.
Waits == pc \in Between /\ pc' \in Between /\ UNCHANGED <<item, todo, arrived, opt>>
Begins ==
  /\ pc \notin Filing /\ pc' \in Starting \cup {"file"} /\ UNCHANGED <<item, arrived, opt>>
  /\ item <= Len(Items) /\ IsInjective(todo')
  /\ pc' \in Starting => left' = mark' /\ (IsFolder(item) => todo' = <<>>)
  /\ pc' \in {"rename", "renaming"} => opt.move
  /\ pc' = "file" /\ left' # mark' /\ ~ opt.ignoreRead => todo' = <<>>
Closes ==
  /\ pc \notin Between /\ pc' = "item" /\ item' = item + 1 /\ todo' = todo /\ opt' = opt
  /\ \A g \in Files : g \notin FilesOf(item) => arrived'[g] = arrived[g]

Strides == Stands \/ Leaves \/ Waits \/ Begins \/ Closes \/ ~ Running'

LEMMA DoneGrows ==
  ASSUME TypeOK, NEW g \in Files
  PROVE  /\ item' = item => (Done(g)' <=> Done(g))
         /\ item \in DOMAIN Items /\ item' = item + 1 =>
              /\ ~ Done(g)' => ~ Done(g) /\ g \notin FilesOf(item)
              /\ Done(g)' => Done(g) \/ g \in FilesOf(item)
<1>1. item \in Nat
  BY DEF TypeOK
<1>2. item' = item => (Done(g)' <=> Done(g))
  BY DEF Done
<1>3. ASSUME item \in DOMAIN Items, item' = item + 1, ~ Done(g)' PROVE ~ Done(g) /\ g \notin FilesOf(item)
  <2>1. item < item' /\ \A j \in DOMAIN Items : j < item => j < item'
    BY <1>1, <1>3, ItemDomain
  <2> QED BY <1>3, <2>1 DEF Done
<1>4. ASSUME item \in DOMAIN Items, item' = item + 1, Done(g)' PROVE Done(g) \/ g \in FilesOf(item)
  <2>1. PICK j \in DOMAIN Items : j < item' /\ g \in FilesOf(j)
    BY <1>4 DEF Done
  <2>2. j < item \/ j = item
    BY <1>1, <1>4, <2>1, ItemDomain
  <2> QED BY <2>1, <2>2 DEF Done
<1> QED BY <1>2, <1>3, <1>4

\* What is to come after a step was to come before it.
LEMMA ComesLater ==
  ASSUME TypeOK, Place, Running, Strides, Running', Queued, NEW g \in Files, ToCome(g)'
  PROVE  /\ ToCome(g) /\ arrived'[g] = NoPath
         /\ Leaves => g # cur
         /\ Closes => g \notin FilesOf(item)
<1>0. /\ Walk /\ todo \in Seq(Files) /\ arrived \in [Files -> Paths \cup {NoPath}]
      /\ pc \notin Between => item \in DOMAIN Items /\ FilesOf(item) \subseteq Files
  BY OnItem DEF Place, TypeOK
<1>1. arrived'[g] = arrived[g] /\ ToCome(g) => arrived'[g] = NoPath
  BY DEF Queued
<1>2. CASE Stands
  <2>1. ToCome(g)
    BY <1>2, DoneGrows DEF Stands, ToCome
  <2> QED BY <1>1, <1>2, <2>1, FilingIs DEF Stands, Leaves, Closes, ToCome
<1>3. CASE Waits
  <2>1. ToCome(g)
    BY <1>3, DoneGrows, FilingIs DEF Waits, ToCome
  <2> QED BY <1>1, <1>3, <2>1, FilingIs DEF Waits, Leaves, Closes
<1>4. CASE Begins
  <2>1. ToCome(g)
    BY <1>4, DoneGrows DEF Begins, ToCome
  <2> QED BY <1>1, <1>4, <2>1, FilingIs DEF Begins, Leaves, Closes, Starting
<1>5. CASE Closes
  <2>1. ~ Done(g) /\ g \notin FilesOf(item)
    BY <1>0, <1>5, DoneGrows DEF Closes, ToCome
  <2> QED BY <1>1, <1>5, <2>1, FilingIs DEF Closes, Leaves, ToCome
<1>6. CASE Leaves
  <2>1. /\ pc \in Filing /\ pc' \in Filing /\ pc' \notin Between /\ item' = item /\ todo' = Tail(todo)
        /\ todo # <<>> /\ pc \notin Between
    BY <1>6, FilingIs DEF Leaves
  <2>2. /\ ToSet(Tail(todo)) \subseteq ToSet(todo) /\ cur \notin ToSet(Tail(todo)) /\ cur \in FilesOf(item)
    <3>1. cur \in ToSet(todo) /\ ToSet(todo) \subseteq FilesOf(item)
      BY <1>0, <2>1, Queue DEF cur, Walk
    <3> QED BY <1>0, <2>1, <3>1, Queue, InjectiveParts DEF Queued, cur
  <2>3. ~ Done(g) /\ (g \in FilesOf(item) => g \in ToSet(Tail(todo)))
    BY <2>1, DoneGrows DEF ToCome
  <2>4. ToCome(g) /\ g # cur
    BY <2>2, <2>3 DEF ToCome
  <2>5. arrived'[g] = arrived[g]
    BY <1>0, <1>6, <2>4 DEF Leaves
  <2>6. ~ Closes
    BY <2>1, FilingIs DEF Closes
  <2> QED BY <1>1, <2>4, <2>5, <2>6
<1> QED BY <1>2, <1>3, <1>4, <1>5, <1>6 DEF Strides

LEMMA StrideTold ==
  ASSUME TypeOK, Place, Running, Told, Strides
  PROVE  Told'
<1> SUFFICES ASSUME Running' PROVE Queued' /\ Missing'
  BY DEF Told
<1>0. /\ Walk /\ todo \in Seq(Files) /\ arrived \in [Files -> Paths \cup {NoPath}] /\ Queued /\ Missing
      /\ pc \notin Between => item \in DOMAIN Items /\ FilesOf(item) \subseteq Files
  BY OnItem DEF Place, TypeOK, Told
<1>1. \A g \in Files : ToCome(g)' => arrived'[g] = NoPath
  BY <1>0, ComesLater
<1>2. CASE Stands
  <2>1. Queued'
    BY <1>0, <1>1, <1>2, FilingIs DEF Stands, Queued, Starting
  <2>2. Missing'
    BY <1>0, <1>2 DEF Stands, Missing
  <2> QED BY <2>1, <2>2
<1>3. CASE Waits \/ Closes
  <2>1. Queued'
    BY <1>0, <1>1, <1>3, FilingIs DEF Waits, Closes, Queued, Starting
  <2>2. Missing'
    BY <1>3, FilingIs DEF Waits, Closes, Missing
  <2> QED BY <2>1, <2>2
<1>4. CASE Begins
  <2>1. Queued'
    BY <1>0, <1>1, <1>4 DEF Begins, Queued, Starting, IsFolder
  <2>2. ASSUME pc' = "file", left' # mark', ~ opt'.ignoreRead, NEW g \in FilesOf(item)
        PROVE  g \notin ToSet(todo') /\ arrived'[g] = NoPath
    <3>1. todo' = <<>> /\ item \in DOMAIN Items /\ arrived' = arrived /\ pc \notin Filing
      BY <1>4, <2>2, ItemDomain DEF Begins, TypeOK
    <3>2. ToSet(todo') = {}
      BY <3>1 DEF ToSet
    <3>3. g \in Files /\ ToCome(g)
      BY <3>1, ItemIs, InHand DEF ToCome
    <3> QED BY <1>0, <3>1, <3>2, <3>3 DEF Queued
  <2>3. Missing'
    BY <1>4, <2>2, FilingIs DEF Begins, Missing, Starting
  <2> QED BY <2>1, <2>3
<1>5. CASE Leaves
  <2>0. /\ pc \in Filing /\ pc' = "file" /\ item' = item /\ mark' = mark /\ opt' = opt /\ pc \notin Between
        /\ todo # <<>> /\ todo' = Tail(todo) /\ FilesOf(item') = FilesOf(item)
    BY <1>5, FilingIs DEF Leaves
  <2>1. /\ cur \in FilesOf(item) /\ cur \in ToSet(todo) /\ cur \notin ToSet(todo')
        /\ ToSet(todo') \subseteq ToSet(todo) /\ IsInjective(todo')
    <3>1. cur \in ToSet(todo) /\ ToSet(todo) \subseteq FilesOf(item)
      BY <1>0, <2>0, Queue DEF cur, Walk
    <3> QED BY <1>0, <2>0, <3>1, Queue, InjectiveParts DEF Queued, cur
  <2>2. Queued'
    BY <1>1, <2>0, <2>1, FilingIs DEF Queued, Starting
  <2>3. arrived[cur] = NoPath
    <3>1. cur \in Files /\ ToCome(cur)
      BY <1>0, <2>0, <2>1, InHand DEF ToCome
    <3> QED BY <1>0, <3>1 DEF Queued
  <2>4. ASSUME arrived' = arrived PROVE Missing'
    BY <2>0, <2>1, <2>3, <2>4 DEF Missing
  <2>5. ASSUME pc \notin Undoing, left' = left, arrived' = [arrived EXCEPT ![cur] = dest] PROVE Missing'
    <3>1. SUFFICES ASSUME left # mark, ~ opt.ignoreRead
                   PROVE  \E g \in FilesOf(item) : g \notin ToSet(todo') /\ arrived'[g] = NoPath
      BY <2>0, <2>5 DEF Missing
    <3>2. PICK g \in FilesOf(item) : g \notin ToSet(todo) /\ arrived[g] = NoPath
      BY <1>0, <2>0, <2>1, <2>5, <3>1 DEF Missing
    <3>3. g \in Files /\ g # cur /\ g \notin ToSet(todo')
      BY <1>0, <2>0, <2>1, <3>2
    <3>4. arrived'[g] = NoPath
      BY <1>0, <2>5, <3>2, <3>3
    <3> QED BY <3>3, <3>4
  <2> QED BY <1>5, <2>2, <2>4, <2>5 DEF Leaves
<1> QED BY <1>2, <1>3, <1>4, <1>5 DEF Strides

\* Every step of a running transfer is one of these.
LEMMA ItemStrides ==
  ASSUME TypeOK, Place, Running, Told, Running',
         Scan \/ BeginItem \/ RenameStat \/ Rename \/ EndItem \/ EnterFolder \/ ListFolder
  PROVE  Strides
<1>0. /\ Walk /\ Kinds /\ Queued /\ outcome = "running" /\ outcome' = "running" /\ Len(Items) \in Nat
      /\ pc \notin Between => item \in DOMAIN Items /\ item <= Len(Items)
  BY TypesAre, OnItem, ItemDomain DEF Place, Told, Running, Walk
<1>e. IsInjective(<<>>) /\ {"rename", "renaming", "enter", "list"} = Starting /\ {"scan", "item"} = Between
  BY DEF IsInjective, Starting, Between
<1>1. CASE Scan
  BY <1>0, <1>1, <1>e DEF Scan, At, Goto, Stop, Strides, Waits, walk, history, choices
<1>2. CASE BeginItem
  <2>1. /\ item <= Len(Items) /\ UNCHANGED <<item, arrived, opt, left>> /\ mark' = left
        /\ todo' = IF IsFolder(item) THEN <<>> ELSE it.files
        /\ pc' \in {"rename", "enter", "file"} /\ pc = "item"
        /\ (pc' = "rename" => opt.move)
    BY <1>0, <1>2 DEF BeginItem, Stop, Goto, At, history, choices
  <2>2. item \in DOMAIN Items
    BY <1>0, <2>1, ItemDomain DEF Kinds
  <2>3. IsInjective(todo')
    BY <1>e, <2>1, <2>2, ItemsAssumption DEF it
  <2>4. pc \notin Filing /\ pc' \in Starting \cup {"file"} /\ left' = mark'
    BY <1>e, <2>1, FilingIs
  <2>5. IsFolder(item) => todo' = <<>>
    BY <2>1
  <2>6. Begins
    BY <2>1, <2>3, <2>4, <2>5 DEF Begins
  <2> QED BY <2>6 DEF Strides
<1>3. ASSUME UNCHANGED <<item, todo, mark, left, arrived, opt>>, pc \in Starting,
             pc' \in Starting \cup {"file"}, pc' \in {"rename", "renaming"} => opt.move
      PROVE  Strides
  <2>1. left' = mark' /\ (IsFolder(item) => todo' = <<>>) /\ item <= Len(Items) /\ pc \notin Filing
    BY <1>0, <1>3, FilingIs DEF Queued
  <2>2. Begins
    BY <1>0, <1>3, <2>1 DEF Begins, Queued
  <2> QED BY <2>2 DEF Strides
<1>4. CASE RenameStat
  <2>1. /\ UNCHANGED <<item, todo, mark, left, arrived, opt>> /\ pc = "rename"
        /\ pc' \in {"renaming", "enter", "file"}
    BY <1>0, <1>4 DEF RenameStat, Streaming, Stop, Goto, At, walk, history, choices
  <2>2. opt.move
    BY <1>0, <2>1 DEF Queued
  <2> QED BY <1>3, <1>e, <2>1, <2>2
<1>5. CASE Rename
  <2>0. pc = "renaming" /\ UNCHANGED <<todo, mark, opt>>
    BY <1>5 DEF Rename, At, choices
  <2>1. CASE pc' \in {"enter", "file"} /\ UNCHANGED <<item, arrived, left>>
    BY <1>3, <1>e, <2>0, <2>1
  <2>2. CASE /\ NextItem
             /\ arrived' = [g \in Files |-> IF g \in FilesOf(item) THEN Dst[g] ELSE arrived[g]]
    <3>1. Closes
      BY <1>e, <2>0, <2>2 DEF NextItem, Goto, Closes
    <3> QED BY <3>1 DEF Strides
  <2> QED BY <1>0, <1>5, <2>1, <2>2 DEF Rename, Relocate, Streaming, Stop, Goto
<1>6. CASE EndItem
  <2>1. Closes
    BY <1>0, <1>6, <1>e DEF EndItem, NextItem, Stop, Goto, At, Closes, choices, history
  <2> QED BY <2>1 DEF Strides
<1>7. CASE EnterFolder
  <2>1. /\ UNCHANGED <<item, todo, mark, arrived, opt>> /\ pc = "enter"
        /\ (pc' = "list" /\ left' = left) \/ (pc' = "file" /\ left' = left + 1)
    BY <1>0, <1>7 DEF EnterFolder, Stop, Goto, At, history, choices
  <2>2. IsFolder(item) /\ todo = <<>> /\ left = mark
    BY <1>0, <1>e, <2>1 DEF Walk, Queued
  <2>3. pc \notin Filing /\ pc' \in Starting \cup {"file"} /\ item <= Len(Items)
    BY <1>0, <1>e, <2>1, FilingIs
  <2>4. Begins
    BY <1>e, <2>1, <2>2, <2>3 DEF Begins
  <2> QED BY <2>4 DEF Strides
<1>8. CASE ListFolder
  <2>1. /\ UNCHANGED <<item, mark, arrived, opt>> /\ pc = "list" /\ pc' = "file"
        /\ \/ todo' = it.files /\ left' = left
           \/ opt.ignoreRead /\ \E n \in 0..Len(it.files) : todo' = SubSeq(it.files, 1, n)
    BY <1>0, <1>8 DEF ListFolder, Stop, Goto, At, history, choices
  <2>2. item \in DOMAIN Items /\ item <= Len(Items) /\ left = mark
    BY <1>0, <1>e, <2>1 DEF Queued
  <2>3. IsInjective(it.files) /\ it.files \in Seq(Files)
    BY <2>2, ItemsAssumption, ItemIs DEF it
  <2>4. IsInjective(todo')
    BY <2>1, <2>3, InjectiveParts
  <2>5. pc \notin Filing /\ pc' \notin Starting /\ left' # mark' => opt.ignoreRead
    BY <2>1, <2>2
  <2>6. pc \notin Filing /\ pc' \notin Starting
    BY <1>e, <2>1, FilingIs DEF Starting
  <2>7. Begins
    BY <2>1, <2>2, <2>4, <2>5, <2>6 DEF Begins
  <2> QED BY <2>7 DEF Strides
<1> QED BY <1>1, <1>2, <1>4, <1>5, <1>6, <1>7, <1>8

LEMMA FileStrides ==
  ASSUME TypeOK, Place, Running, Running',
         \/ StatFile \/ Conflict \/ AnswerOverwrite \/ AnswerSkip \/ AnswerRename \/ AnswerUnsupported
         \/ Dismiss \/ Open \/ AnswerRetry \/ AnswerSkipError \/ Create
         \/ ServerCopy \/ Scp \/ PumpFile \/ Commit \/ Undo
  PROVE  Strides
<1>0. /\ Walk /\ outcome = "running" /\ outcome' = "running"
      /\ "file" \in Filing /\ Choosing \subseteq Filing /\ Writing \subseteq Filing /\ "file" \notin Undoing
  BY FilingIs DEF Place, Running
<1>t. ASSUME pc \in Choosing \cup Writing PROVE todo # <<>>
  BY <1>0, <1>t, FileInHand
<1>1. ASSUME UNCHANGED <<item, todo, mark, left, arrived, opt>>, pc \in Filing \ Undoing, pc' \in Filing,
             pc \in Writing => pc' \in Writing /\ dest' = dest
      PROVE  Strides
  BY <1>1 DEF Strides, Stands
<1>2. ASSUME UNCHANGED <<item, mark, arrived, opt>>, pc \in Filing, todo # <<>>, NextFile PROVE Strides
  BY <1>2 DEF Strides, Leaves, NextFile, Goto
<1>3. CASE StatFile
  <2>1. UNCHANGED <<item, mark, arrived, opt>> /\ pc = "file" /\ todo # <<>>
    BY <1>3 DEF StatFile, At, history, choices
  <2>2. NextFile \/ (UNCHANGED <<todo, left>> /\ pc' = "conflict")
    BY <1>0, <1>3 DEF StatFile, Refused, Skipped, Stop, Goto
  <2>3. pc \notin Writing
    BY <2>1, StagesAre
  <2> QED BY <1>0, <1>1, <1>2, <2>1, <2>2, <2>3, StagesAre
<1>4. CASE Conflict \/ AnswerOverwrite \/ AnswerSkip \/ AnswerRename \/ AnswerUnsupported \/ Dismiss
  <2>1. UNCHANGED <<item, mark, arrived, opt>> /\ pc \in Choosing
    BY <1>4, StagesAre DEF Conflict, AnswerOverwrite, AnswerSkip, AnswerRename, AnswerUnsupported, Dismiss,
                           At, history, walk, choices
  <2>0. pc \notin Writing
    BY <2>1, FilingIs
  <2>2. Carrier \in {"open", "scp", "servercopy"}
    BY DEF Carrier, Direct
  <2>3. CASE Conflict
    BY <1>0, <2>0, <2>2, <2>3, <1>1, <1>2, <1>t, <2>1, StagesAre, FilingIs
       DEF Conflict, Settle, Refused, Skipped, Stop, Goto, Ask
  <2>4. CASE AnswerSkip
    BY <1>0, <2>4, <1>2, <1>t, <2>1 DEF AnswerSkip, Skipped
  <2>5. CASE AnswerOverwrite \/ AnswerRename \/ AnswerUnsupported \/ Dismiss
    <3>1. UNCHANGED <<todo, left>> /\ pc' \in Choosing \cup Writing
      BY <2>2, <2>5, StagesAre DEF AnswerOverwrite, AnswerRename, AnswerUnsupported, Dismiss, Goto, walk
    <3> QED BY <1>0, <1>1, <2>0, <2>1, <3>1, FilingIs
  <2> QED BY <1>4, <2>3, <2>4, <2>5
<1>5. CASE Open \/ AnswerRetry \/ AnswerSkipError \/ Create
  <2>1. UNCHANGED <<item, mark, arrived, opt, dest>> /\ pc \in Writing \ Undoing
    BY <1>5, StagesAre DEF Open, AnswerRetry, AnswerSkipError, Create, At, history, walk, choices
  <2>2. NextFile \/ (UNCHANGED <<todo, left>> /\ pc' \in Writing)
    <3>1. CASE Open
      BY <1>0, <3>1, StagesAre DEF Open, Skipped, Ask, Goto, Stop
    <3>2. CASE AnswerRetry \/ AnswerSkipError
      BY <1>0, <3>2, StagesAre DEF AnswerRetry, AnswerSkipError, Skipped, Goto, Stop, walk
    <3>3. CASE Create
      BY <1>0, <3>3, StagesAre DEF Create, Skipped, Ask, Goto, Stop
    <3> QED BY <1>5, <3>1, <3>2, <3>3
  <2> QED BY <1>0, <1>1, <1>2, <1>t, <2>1, <2>2
<1>6. ASSUME pc \in Writing \ Undoing, Copied, UNCHANGED <<item, mark, opt>> PROVE Strides
  <2>1. Leaves
    BY <1>0, <1>6, <1>t DEF Leaves, Copied, NextFile, Goto
  <2> QED BY <2>1 DEF Strides
<1>7. CASE ServerCopy \/ Scp
  <2>1. UNCHANGED <<item, mark, opt, left, dest>> /\ pc \in Writing \ Undoing
    BY <1>7, StagesAre DEF ServerCopy, Scp, At, choices
  <2>2. Copied \/ (UNCHANGED <<todo, arrived>> /\ pc' \in {"open", "scp"})
    BY <1>0, <1>7 DEF ServerCopy, Scp, Direct, Goto, Stop
  <2> QED BY <1>0, <1>1, <1>6, <2>1, <2>2, StagesAre
<1>8. CASE PumpFile \/ Commit
  <2>1. UNCHANGED <<item, mark, opt, dest>> /\ pc \in Writing \ Undoing
    BY <1>8, StagesAre DEF PumpFile, Commit, At, choices
  <2>2. ASSUME NEW next, NEW undo, Unwind(next, undo), arrived' = arrived PROVE Strides
    <3>1. CASE NextFile
      BY <1>0, <1>2, <1>t, <2>1, <2>2, <3>1
    <3>2. CASE UNCHANGED todo /\ pc' \in Undoing
      <4>1. Stands
        BY <1>0, <2>1, <2>2, <3>2, FilingIs DEF Stands
      <4> QED BY <4>1 DEF Strides
    <3> QED BY <1>0, <2>2, <3>1, <3>2, StagesAre DEF Unwind, Goto, Stop
  <2>3. CASE pc' = "commit" /\ UNCHANGED <<todo, left, arrived>>
    BY <1>0, <1>1, <2>1, <2>3, StagesAre
  <2>4. CASE PumpFile
    BY <2>2, <2>3, <2>4 DEF PumpFile, Goto
  <2>5. CASE Commit
    BY <1>6, <2>1, <2>2, <2>5 DEF Commit
  <2> QED BY <1>8, <2>4, <2>5
<1>9. CASE Undo
  <2>1. UNCHANGED <<item, mark, arrived, opt>> /\ pc \in Writing /\ NextFile
    BY <1>0, <1>9, StagesAre DEF Undo, At, Stop, choices
  <2> QED BY <1>0, <1>2, <1>t, <2>1
<1> QED BY <1>3, <1>4, <1>5, <1>7, <1>8, <1>9

LEMMA StepStrides == ASSUME TypeOK, Place, Running, Told, Next PROVE Strides
<1> SUFFICES ASSUME Running' PROVE Strides
  BY DEF Strides
<1>1. CASE Worker
  <2>1. CASE GiveUpAsking
    BY <2>1 DEF GiveUpAsking, AnswerCancel, Stop, Running
  <2> QED BY <1>1, <2>1, ItemStrides, FileStrides DEF Worker
<1>2. CASE User
  <2>1. CASE AnswerCancel
    BY <2>1 DEF AnswerCancel, Stop, Running
  <2> QED BY <1>2, <2>1, FileStrides DEF User
<1>3. CASE Cancel \/ \E p \in Foreign : ForeignCreate(p)
  <2>1. UNCHANGED <<pc, item, todo, mark, left, arrived, opt, dest>> /\ Walk /\ Queued
    BY <1>3 DEF Cancel, ForeignCreate, choices, walk, history, Place, Told
  <2>2. CASE pc \in Filing
    BY <2>1, <2>2 DEF Strides, Stands
  <2>3. CASE pc \in Between
    BY <2>1, <2>3 DEF Strides, Waits
  <2>4. CASE pc \in Starting
    <3>1. item <= Len(Items) /\ pc \notin Filing /\ pc # "file"
      BY <2>1, <2>4, FilingIs DEF Walk
    <3>2. Begins
      BY <2>1, <2>4, <3>1 DEF Begins, Queued
    <3> QED BY <3>2 DEF Strides
  <2>5. pc \in Filing \cup Between \cup Starting
    BY <2>1 DEF TypeOK, Steps, Walk, Filing, Between, Starting, Choosing, Writing, Streamed, Undoing
  <2> QED BY <2>2, <2>3, <2>4, <2>5
<1>4. CASE Over
  BY <1>4 DEF Over, Running
<1> QED BY <1>1, <1>2, <1>3, <1>4 DEF Next

LEMMA InitTold == Init => Told
<1> SUFFICES ASSUME Init PROVE Queued /\ Missing
  BY DEF Told
<1>1. pc = "scan" /\ pc \in Between /\ todo = <<>> /\ arrived = [g \in Files |-> NoPath]
  BY DEF Init, Between
<1>2. IsInjective(todo)
  BY <1>1 DEF IsInjective
<1> QED BY <1>1, <1>2, FilingIs DEF Queued, Missing, Starting

LEMMA ToldInv == Spec => [](IInv /\ Told)
<1>1. IInv /\ Told /\ [Next]_vars => Told'
  <2> SUFFICES ASSUME IInv, Told, [Next]_vars PROVE Told'
    OBVIOUS
  <2>1. CASE Running /\ Next
    BY <2>1, StepStrides, StrideTold DEF IInv
  <2>2. CASE UNCHANGED vars
    BY <2>2 DEF Told, Queued, Missing, ToCome, Done, Running, vars, choices, walk, history
  <2> QED BY <2>1, <2>2, OverIsOver
<1> QED BY <1>1, InitTold, TransferInv, PTL DEF Spec

\* Only a rename and the end of an item go on to the next one.
LEMMA ItemStays == ASSUME Next, ~ Rename, ~ EndItem PROVE item' = item
<1>1. ASSUME Worker PROVE item' = item
  <2>1. CASE Scan \/ BeginItem \/ RenameStat \/ EnterFolder \/ ListFolder \/ StatFile \/ Conflict
    BY <2>1 DEF Scan, BeginItem, RenameStat, EnterFolder, ListFolder, StatFile, Conflict, walk
  <2>2. CASE GiveUpAsking \/ ServerCopy \/ Scp \/ Open \/ Create \/ PumpFile \/ Commit \/ Undo
    BY <2>2 DEF GiveUpAsking, AnswerCancel, ServerCopy, Scp, Open, Create, PumpFile, Commit, Undo, walk
  <2> QED BY <1>1, <2>1, <2>2 DEF Worker
<1>2. ASSUME User PROVE item' = item
  <2>1. CASE AnswerOverwrite \/ AnswerSkip \/ AnswerRename \/ AnswerUnsupported
    BY <2>1 DEF AnswerOverwrite, AnswerSkip, AnswerRename, AnswerUnsupported, walk
  <2>2. CASE Dismiss \/ AnswerCancel \/ AnswerRetry \/ AnswerSkipError
    BY <2>2 DEF Dismiss, AnswerCancel, AnswerRetry, AnswerSkipError, walk
  <2> QED BY <1>2, <2>1, <2>2 DEF User
<1>3. ASSUME Cancel \/ (\E p \in Foreign : ForeignCreate(p)) \/ Over PROVE item' = item
  BY <1>3 DEF Cancel, ForeignCreate, Over, vars, walk
<1> QED BY <1>1, <1>2, <1>3 DEF Next

\* With no error ignored a move takes away the source of every item that
\* arrived whole, whatever was skipped in an item before it.
THEOREM WholeItemsAreMoved == Spec => WholeItemsMove
<1>1. IInv /\ Told /\ [Next]_vars =>
        [ /\ opt.move /\ ~opt.ignoreRead /\ item' = item + 1
          /\ FilesOf(item) # {} /\ \A g \in FilesOf(item) : arrived'[g] # NoPath
          => \A p \in SourcesOf(item) : fs'[p] = Nothing ]_vars
  <2>1. SUFFICES ASSUME IInv, Told, Next, opt.move, ~ opt.ignoreRead, item' = item + 1,
                        FilesOf(item) # {}, \A g \in FilesOf(item) : arrived'[g] # NoPath,
                        NEW p \in SourcesOf(item)
                 PROVE  fs'[p] = Nothing
    OBVIOUS
  <2>2. Running /\ item \in Nat
    BY <2>1, OverIsOver DEF vars, walk, IInv, TypeOK
  <2>3. Walk /\ Kept /\ Missing /\ Changes /\ OnePath
    BY <2>1, <2>2, StepChanges DEF IInv, Place, Disk, Told
  <2>4. CASE Rename
    <3>1. item \in DOMAIN Items /\ p \in Paths
      BY <2>1, <2>3, <2>4, OnItem, ItemIs DEF Rename, At, Between, IInv
    <3>2. fs' = Moved(item)
      BY <2>1, <2>2, <2>4 DEF Rename, Relocate, Streaming
    <3> QED BY <2>1, <3>1, <3>2 DEF Moved
  <2>5. CASE EndItem
    <3>1. item \in DOMAIN Items /\ p \in Paths /\ pc = "file" /\ todo = <<>> /\ arrived' = arrived
      BY <2>1, <2>3, <2>5, OnItem, ItemIs DEF EndItem, At, Between, IInv, history
    <3>2. left = mark
      <4>1. \A g \in FilesOf(item) : arrived[g] # NoPath
        BY <2>1, <3>1
      <4>2. pc \in Filing \ Undoing
        BY <3>1, FilingIs
      <4>3. \A g \in FilesOf(item) : g \notin ToSet(todo) /\ arrived[g] = NoPath => FALSE
        BY <4>1
      <4> QED BY <2>1, <2>3, <4>2, <4>3 DEF Missing
    <3>3. fs' = [q \in Paths |-> IF q \in SourcesOf(item) THEN Nothing ELSE fs[q]]
      BY <2>1, <2>2, <2>5, <3>2 DEF EndItem
    <3> QED BY <2>1, <3>1, <3>3
  <2> QED BY <2>1, <2>2, <2>4, <2>5, ItemStays
<1> QED BY <1>1, ToldInv, PTL DEF Spec, WholeItemsMove
-----------------------------------------------------------------------------
(***************************************************************************)
(* What is left at the end                                                 *)
(***************************************************************************)
\* No file goes to, and none may be renamed to, a path another file comes from.
NamesApart ==
  \A f, g \in Files : f # g => Dst[f] # Src[g] /\ Src[g] \notin Names[f]

\* The user gives the source of a file only while that very file is written.
OwnPath ==
  Running => \A g \in Files : ToCome(g) /\ Src[g] \in consented =>
               pc \in Writing /\ g = cur /\ dest = Src[g]

\* Half a file is the one in hand, one the user or the rollback answers for, or
\* one a failed scp or server copy left.
Answered == consented \cup doubtful \cup abandoned
Pending(p) == Running /\ pc \in Streamed /\ ~ existed /\ ~ Staged /\ p = dest
Halves ==
  \A p \in Paths : fs[p] = Partial => p \in Answered \/ Pending(p)

\* What a copy, and a move that is through with a file, may leave at its source.
Unmoved == ~ opt.move => \A g \in Files : Src[g] \notin consented => fs[Src[g]] = g
Stays ==
  opt.move => \A g \in Files :
    Done(g) /\ Src[g] \notin consented /\ fs[Src[g]] = g => left > 0

\* An operation that ended well is through with every file.
Through ==
  outcome = "ok" => \A g \in Files :
    Done(g) /\ (fs[Src[g]] = g \/ Src[g] \in consented \/ arrived[g] # NoPath)

Leavings == OwnPath /\ Halves /\ Unmoved /\ Stays /\ Through

LEMMA LeavingsSettle ==
  ASSUME TypeOK, Leavings
  PROVE  Settled
<1>1. NoRemains
  BY DEF Leavings, Halves, Answered, Pending, Running, NoRemains
<1>2. ASSUME NEW g \in Files, Src[g] \notin consented
      PROVE  /\ ~opt.move => fs[Src[g]] = g
             /\ opt.move /\ outcome = "ok" =>
                  IF fs[Src[g]] = g THEN left > 0 ELSE arrived[g] # NoPath
  BY <1>2 DEF Leavings, Unmoved, Stays, Through
<1>3. SourcesSettled
  BY <1>2 DEF SourcesSettled
<1> QED BY <1>1, <1>3 DEF Settled

(***************************************************************************)
(* Facts about single steps                                                *)
(***************************************************************************)
\* Only a settled conflict and an answer give a path away: the one in hand.
LEMMA GrantsAre ==
  ASSUME Next
  PROVE  \/ consented' = consented
         \/ /\ pc \in Choosing /\ pc' \in Writing /\ consented' = consented \cup {dest}
            /\ dest' = dest /\ todo' = todo
<1>c. Carrier \in Writing
  BY StagesAre DEF Carrier, Direct
<1>1. CASE Worker
  <2>1. CASE Scan \/ BeginItem \/ RenameStat \/ Rename \/ EndItem \/ EnterFolder \/ ListFolder
    BY <2>1 DEF Scan, BeginItem, RenameStat, Rename, EndItem, EnterFolder, ListFolder, history
  <2>2. CASE StatFile \/ GiveUpAsking \/ ServerCopy \/ Scp \/ Open \/ Create \/ PumpFile \/ Commit \/ Undo
    BY <2>2 DEF StatFile, GiveUpAsking, AnswerCancel, ServerCopy, Scp, Open, Create, PumpFile, Commit, Undo, history
  <2>3. CASE Conflict
    BY <1>c, <2>3, StagesAre DEF Conflict, Settle, Goto, At
  <2> QED BY <1>1, <2>1, <2>2, <2>3 DEF Worker
<1>2. CASE User
  <2>1. CASE AnswerOverwrite
    BY <1>c, <2>1, StagesAre DEF AnswerOverwrite, Goto, At
  <2>2. CASE AnswerSkip \/ AnswerRename \/ AnswerUnsupported
    BY <2>2 DEF AnswerSkip, AnswerRename, AnswerUnsupported, history
  <2>3. CASE Dismiss \/ AnswerCancel \/ AnswerRetry \/ AnswerSkipError
    BY <2>3 DEF Dismiss, AnswerCancel, AnswerRetry, AnswerSkipError, history
  <2> QED BY <1>2, <2>1, <2>2, <2>3 DEF User
<1>3. CASE Cancel \/ (\E p \in Foreign : ForeignCreate(p)) \/ Over
  BY <1>3 DEF Cancel, ForeignCreate, Over, vars, history
<1> QED BY <1>1, <1>2, <1>3 DEF Next

\* A step but the rename and the end of an item touches no file unasked.
Touches == Looks \/ Writes \/ Copies \/ Enters \/ Intrudes
LEMMA StepTouches ==
  ASSUME TypeOK, Place, Running, Next, ~ Rename, ~ EndItem
  PROVE  Touches
<1>0. Walk /\ Spot
  BY DEF Place
<1>1. CASE Worker
  <2>1. CASE ServerCopy \/ Scp \/ Create \/ Commit \/ Undo
    BY <1>0, <2>1, ServerCopyChanges, ScpChanges, CreateChanges, CommitChanges, UndoChanges DEF Touches
  <2> QED BY <1>1, <2>1, EnterChanges, OtherChanges DEF Worker, Touches
<1>2. CASE User \/ Cancel \/ Over
  BY <1>2, OtherChanges DEF Touches
<1>3. CASE \E p \in Foreign : ForeignCreate(p)
  BY <1>3, ForeignChanges DEF Touches
<1> QED BY <1>1, <1>2, <1>3 DEF Next

LEMMA TouchedFiles ==
  ASSUME TypeOK, Place, Running, Touches, NamesApart, NEW g \in Files
  PROVE  /\ fs[Src[g]] = g /\ Src[g] \notin consented => fs'[Src[g]] = g
         /\ Done(g) /\ fs'[Src[g]] = g => fs[Src[g]] = g
<1>0. Walk /\ Spot /\ fs \in [Paths -> Content] /\ Src[g] \in Paths
      /\ g \notin {Old, Alien, Partial, Folder, Nothing}
  BY Ends DEF Place, TypeOK
<1>1. CASE Looks
  BY <1>1 DEF Looks
<1>2. CASE Writes \/ Copies
  <2>1. pc \in Writing /\ cur \in Files /\ dest \in Paths /\ ~ Done(cur)
        /\ (dest = Dst[cur] \/ dest \in Names[cur])
    BY <1>0, <1>2, FileInHand DEF Writes, Copies
  <2>2. \A p \in Paths : p # dest => fs'[p] = fs[p]
    BY <1>0, <1>2, <2>1 DEF Writes, Copies, Put
  <2>3. Done(g) => dest # Src[g]
    BY <2>1 DEF NamesApart
  <2>4. fs[dest] = g => dest \in consented
    <3>1. existed \in BOOLEAN
      BY DEF TypeOK
    <3> QED BY <1>0, <2>1, <3>1 DEF Spot
  <2> QED BY <1>0, <2>2, <2>3, <2>4
<1>3. CASE Enters
  <2>1. fs[it.dst] \in {Nothing, Folder} /\ fs' = [fs EXCEPT ![it.dst] = Folder]
    BY <1>3 DEF Enters
  <2> QED BY <1>0, <2>1
<1>4. CASE Intrudes
  BY <1>0, <1>4 DEF Intrudes
<1> QED BY <1>1, <1>2, <1>3, <1>4 DEF Touches

(***************************************************************************)
(* Every step keeps the leavings                                           *)
(***************************************************************************)
LEMMA OwnPathKept ==
  ASSUME NamesApart, TypeOK, Place, Running, Told, Next, OwnPath
  PROVE  OwnPath'
<1> SUFFICES ASSUME Running', NEW g \in Files, ToCome(g)', Src[g] \in consented'
             PROVE  pc' \in Writing /\ g = cur' /\ dest' = Src[g]
  BY DEF OwnPath
<1>0. /\ Strides /\ Walk /\ Queued
      /\ ToCome(g) /\ (Leaves => g # cur) /\ (Closes => g \notin FilesOf(item))
  BY StepStrides, ComesLater DEF Place, Told
<1>1. CASE Src[g] \in consented
  <2>1. pc \in Writing /\ g = cur /\ dest = Src[g]
    BY <1>0, <1>1 DEF OwnPath
  <2>2. pc \in Filing /\ pc \notin Between /\ g \in FilesOf(item)
    BY <1>0, <2>1, FileInHand, FilingIs
  <2>3. Stands
    BY <1>0, <2>1, <2>2, FilingIs DEF Strides, Waits, Begins
  <2> QED BY <2>1, <2>3 DEF Stands, cur
<1>2. CASE Src[g] \notin consented
  <2>1. /\ pc \in Choosing /\ pc' \in Writing /\ Src[g] = dest /\ dest' = dest /\ todo' = todo
    BY <1>2, GrantsAre
  <2>2. cur \in Files /\ (dest = Dst[cur] \/ dest \in Names[cur])
    BY <1>0, <2>1, FileInHand
  <2>3. g = cur
    BY <2>1, <2>2 DEF NamesApart
  <2> QED BY <2>1, <2>3 DEF cur
<1> QED BY <1>1, <1>2

\* Nothing of an item that is being renamed has been given away.
LEMMA RenamedWhole ==
  ASSUME TypeOK, Place, Disk, Running, OwnPath, pc = "renaming"
  PROVE  /\ item \in DOMAIN Items /\ FilesOf(item) \subseteq Files
         /\ \A h \in FilesOf(item) : fs[Src[h]] = h
<1>0. Walk /\ Kept /\ pc \notin Between /\ pc \notin Filing /\ pc \notin Writing
  BY FilingIs DEF Place, Disk, Between, Starting
<1>1. item \in DOMAIN Items /\ FilesOf(item) \subseteq Files
  BY <1>0, OnItem
<1>2. ASSUME NEW h \in FilesOf(item) PROVE fs[Src[h]] = h
  <2>1. h \in Files /\ ~ Done(h)
    BY <1>1, InHand
  <2>2. Src[h] \notin consented
    BY <1>0, <2>1 DEF OwnPath, ToCome
  <2> QED BY <1>0, <2>1, <2>2 DEF Kept, Sources
<1> QED BY <1>1, <1>2

LEMMA RenamedTree ==
  ASSUME NamesApart, TypeOK, OnePath, Place, Disk, Running, OwnPath, pc = "renaming",
         Clear, fs' = Moved(item)
  PROVE  /\ \A p \in Paths : fs'[p] = Partial => fs[p] = Partial
         /\ \A g \in FilesOf(item) : fs'[Src[g]] # g
         /\ \A g \in Files : Done(g) /\ fs'[Src[g]] = g => fs[Src[g]] = g
<1>0. /\ item \in DOMAIN Items /\ FilesOf(item) \subseteq Files /\ Kept
      /\ \A h \in FilesOf(item) : fs[Src[h]] = h
  BY RenamedWhole DEF Disk
<1>1. \A p \in SourcesOf(item) : p \in Paths /\ fs'[p] = Nothing
  BY <1>0, ItemIs DEF Moved
<1>2. /\ \A p \in Paths : fs[p] \notin {Nothing, Alien} /\ p \notin SourcesOf(item) => fs'[p] = fs[p]
      /\ \A h \in FilesOf(item) : fs[Src[h]] = h => fs'[Dst[h]] = h
      /\ IsFolder(item) => fs'[it.dst] = Folder
      /\ \A p \in Paths : fs[p] \in {Nothing, Alien} /\ fs'[p] # fs[p] =>
           fs'[p] = Nothing \/ p = it.dst \/ \E h \in FilesOf(item) : p = Dst[h]
  BY <1>0, MovedTree
<1>3. ~ IsFolder(item) => \E h \in FilesOf(item) : it.dst = Dst[h]
  BY <1>0, FileIs DEF it
<1>4. ASSUME NEW p \in Paths, fs'[p] = Partial PROVE fs[p] = Partial
  <2>1. CASE fs[p] \in {Nothing, Alien}
    <3>1. (p = it.dst /\ IsFolder(item)) \/ \E h \in FilesOf(item) : p = Dst[h]
      BY <1>2, <1>3, <1>4, <2>1, MarksAssumption
    <3>2. \A h \in FilesOf(item) : p # Dst[h]
      BY <1>0, <1>2, <1>4, MarksAssumption
    <3> QED BY <1>2, <1>4, <3>1, <3>2, MarksAssumption
  <2>2. CASE fs[p] \notin {Nothing, Alien}
    BY <1>1, <1>2, <1>4, <2>2, MarksAssumption
  <2> QED BY <2>1, <2>2
<1>5. ASSUME NEW g \in FilesOf(item) PROVE fs'[Src[g]] # g
  <2>1. Src[g] \in SourcesOf(item) /\ g # Nothing
    BY <1>0, Ends DEF SourcesOf
  <2> QED BY <1>1, <2>1
<1>6. ASSUME NEW g \in Files, Done(g), fs'[Src[g]] = g PROVE fs[Src[g]] = g
  <2>1. Src[g] \in Paths /\ g \notin {Nothing, Alien} /\ g \notin FilesOf(item)
    BY <1>0, <1>6, Ends, InHand
  <2>2. CASE fs[Src[g]] \in {Nothing, Alien}
    <3>1. it.dst # Src[g] \/ ~ IsFolder(item)
      BY <1>0, <2>1, FolderIs DEF it
    <3>2. \E h \in FilesOf(item) : Src[g] = Dst[h]
      BY <1>2, <1>3, <1>6, <2>1, <2>2, <3>1
    <3> QED BY <1>0, <2>1, <3>2 DEF NamesApart
  <2>3. CASE fs[Src[g]] \notin {Nothing, Alien}
    BY <1>1, <1>2, <1>6, <2>1, <2>3
  <2> QED BY <2>2, <2>3
<1> QED BY <1>4, <1>5, <1>6

\* A rename leaves the tree as it was, or moves an item that is whole.
LEMMA RenameIs ==
  ASSUME Spot, Rename
  PROVE  /\ pc = "renaming" /\ consented' = consented /\ doubtful' = doubtful /\ abandoned' = abandoned
         /\ \/ fs' = fs /\ item' = item
            \/ /\ Clear /\ fs' = Moved(item)
               /\ item' = item + 1 \/ item' = item
         /\ outcome' # "ok" \/ outcome' = outcome
<1>1. pc = "renaming" /\ consented' = consented /\ doubtful' = doubtful /\ abandoned' = abandoned
  BY DEF Rename, At
<1>2. MayMove => Clear
  BY <1>1 DEF MayMove, Clear, Spot
<1> QED BY <1>1, <1>2 DEF Rename, Relocate, Streaming, NextItem, Stop, Goto

LEMMA EndItemIs ==
  ASSUME EndItem
  PROVE  /\ pc = "file" /\ consented' = consented /\ doubtful' = doubtful /\ abandoned' = abandoned
         /\ left' = left
         /\ \/ /\ opt.move /\ item' = item + 1
               /\ fs' = [p \in Paths |-> IF p \in SourcesOf(item) THEN Nothing ELSE fs[p]]
            \/ /\ opt.move /\ item' = item
               /\ \E gone \in SUBSET SourcesOf(item) :
                    fs' = [p \in Paths |-> IF p \in gone THEN Nothing ELSE fs[p]]
            \/ ~ (opt.move /\ left = mark) /\ item' = item + 1 /\ fs' = fs
         /\ outcome' # "ok" \/ outcome' = outcome
<1>1. \A gone \in SUBSET (SourcesOf(item) \ {it.src}) : gone \in SUBSET SourcesOf(item)
  OBVIOUS
<1> QED BY <1>1 DEF EndItem, At, NextItem, Stop, Goto, history

LEMMA UnmovedKept ==
  ASSUME NamesApart, TypeOK, Place, Running, Told, Next, Unmoved
  PROVE  Unmoved'
<1>0. opt' = opt /\ consented \subseteq consented' /\ Queued
  BY OptStays, GrantsAre DEF Told
<1> SUFFICES ASSUME ~ opt.move, NEW g \in Files, Src[g] \notin consented' PROVE fs'[Src[g]] = g
  BY <1>0 DEF Unmoved
<1>1. fs[Src[g]] = g /\ Src[g] \notin consented
  BY <1>0 DEF Unmoved
<1>2. CASE Rename
  BY <1>0, <1>2, RenameIs DEF Queued, Place
<1>3. CASE EndItem
  BY <1>1, <1>3, EndItemIs
<1>4. CASE ~ Rename /\ ~ EndItem
  BY <1>1, <1>4, StepTouches, TouchedFiles
<1> QED BY <1>2, <1>3, <1>4

LEMMA StaysKept ==
  ASSUME NamesApart, TypeOK, OnePath, Place, Disk, Running, Next, OwnPath, Stays
  PROVE  Stays'
<1>0. /\ opt' = opt /\ left' >= left /\ left \in Nat /\ left' \in Nat /\ consented \subseteq consented'
      /\ Walk /\ mark \in Nat /\ mark <= left
  BY OptStays, GrantsAre, TypesAre DEF TypeOK, Place, Kinds
<1> SUFFICES ASSUME opt.move, NEW g \in Files, Done(g)', Src[g] \notin consented', fs'[Src[g]] = g
             PROVE  left' > 0
  BY <1>0 DEF Stays
<1>1. ASSUME Done(g), fs[Src[g]] = g PROVE left' > 0
  <2>1. left > 0
    BY <1>0, <1>1 DEF Stays
  <2> QED BY <1>0, <2>1
<1>2. CASE Rename
  <2>1. CASE fs' = fs /\ item' = item
    BY <1>1, <2>1, DoneGrows
  <2>2. CASE Clear /\ fs' = Moved(item) /\ (item' = item + 1 \/ item' = item)
    <3>1. pc = "renaming"
      BY <1>2 DEF Rename, At
    <3>2. item \in DOMAIN Items /\ g \notin FilesOf(item)
      BY <2>2, <3>1, RenamedWhole, RenamedTree
    <3>3. Done(g)
      BY <2>2, <3>2, DoneGrows
    <3> QED BY <1>1, <2>2, <3>1, <3>3, RenamedTree
  <2> QED BY <1>2, <2>1, <2>2, RenameIs DEF Place
<1>3. CASE EndItem
  <2>1. pc \notin Between /\ item \in DOMAIN Items /\ SourcesOf(item) \subseteq Paths /\ Src[g] \in Paths /\ g # Nothing
    BY <1>0, <1>3, EndItemIs, OnItem, ItemIs, Ends DEF Between
  <2>2. CASE item' = item + 1 /\ fs' = [p \in Paths |-> IF p \in SourcesOf(item) THEN Nothing ELSE fs[p]]
    <3>1. Src[g] \notin SourcesOf(item) /\ fs[Src[g]] = g
      BY <2>1, <2>2
    <3>2. g \notin FilesOf(item)
      BY <3>1 DEF SourcesOf
    <3>3. Done(g)
      BY <2>1, <2>2, <3>2, DoneGrows
    <3> QED BY <1>1, <3>1, <3>3
  <2>3. ASSUME item' = item, NEW gone \in SUBSET SourcesOf(item),
               fs' = [p \in Paths |-> IF p \in gone THEN Nothing ELSE fs[p]]
        PROVE  left' > 0
    <3>1. fs[Src[g]] = g
      BY <2>1, <2>3
    <3> QED BY <1>1, <2>3, <3>1, DoneGrows
  <2>4. CASE ~ (opt.move /\ left = mark) /\ item' = item + 1 /\ fs' = fs
    <3>1. left # mark /\ left' = left
      BY <1>3, <2>4, EndItemIs
    <3> QED BY <1>0, <3>1
  <2> QED BY <1>3, <2>2, <2>3, <2>4, EndItemIs
<1>4. CASE ~ Rename /\ ~ EndItem
  <2>1. Done(g)
    BY <1>4, ItemStays, DoneGrows
  <2> QED BY <1>1, <1>4, <2>1, StepTouches, TouchedFiles
<1> QED BY <1>2, <1>3, <1>4

LEMMA ThroughKept ==
  ASSUME TypeOK, Place, Disk, Running, Next
  PROVE  Through'
<1> SUFFICES ASSUME outcome' = "ok", NEW g \in Files
             PROVE  Done(g)' /\ (fs'[Src[g]] = g \/ Src[g] \in consented' \/ arrived'[g] # NoPath)
  BY DEF Through
<1>0. outcome = "running" /\ Kept
  BY DEF Disk, Running
<1>1. BeginItem
  <2>1. CASE Worker
    <3>1. ~ (Scan \/ RenameStat \/ Rename \/ EndItem \/ EnterFolder \/ ListFolder)
      BY <1>0 DEF Scan, RenameStat, Streaming, EnterFolder, ListFolder, Goto, Stop, Rename, EndItem, NextItem
    <3>2. ~ (StatFile \/ Conflict \/ GiveUpAsking)
      BY <1>0 DEF StatFile, Conflict, GiveUpAsking, AnswerCancel, Refused, Skipped, NextFile, Settle, Ask, Goto, Stop
    <3>3. ~ (ServerCopy \/ Scp \/ Open \/ Create)
      BY <1>0 DEF ServerCopy, Scp, Open, Create, Copied, Skipped, NextFile, Ask, Goto, Stop
    <3>4. ~ (PumpFile \/ Commit \/ Undo)
      BY <1>0 DEF PumpFile, Commit, Undo, Unwind, Copied, NextFile, Goto, Stop
    <3> QED BY <2>1, <3>1, <3>2, <3>3, <3>4 DEF Worker
  <2>2. ~ User
    <3>1. ~ (AnswerOverwrite \/ AnswerSkip \/ AnswerRename \/ AnswerUnsupported)
      BY <1>0 DEF AnswerOverwrite, AnswerSkip, AnswerRename, AnswerUnsupported, Skipped, NextFile, Goto
    <3>2. ~ (Dismiss \/ AnswerCancel \/ AnswerRetry \/ AnswerSkipError)
      BY <1>0 DEF Dismiss, AnswerCancel, AnswerRetry, AnswerSkipError, Skipped, NextFile, Goto, Stop
    <3> QED BY <3>1, <3>2 DEF User
  <2>3. ~ (Cancel \/ \E p \in Foreign : ForeignCreate(p)) /\ ~ Over
    BY <1>0 DEF Cancel, ForeignCreate, Over
  <2> QED BY <2>1, <2>2, <2>3 DEF Next
<1>2. item > Len(Items) /\ UNCHANGED <<fs, item, consented, arrived>>
  BY <1>0, <1>1 DEF BeginItem, Stop, Goto, history
<1>3. Done(g)
  <2>1. PICK j \in DOMAIN Items : g \in FilesOf(j)
    BY ItemsAssumption
  <2>2. j < item
    BY <1>2, <2>1, ItemDomain DEF TypeOK
  <2> QED BY <2>1, <2>2 DEF Done
<1>4. fs[Src[g]] = g \/ Src[g] \in consented \/ arrived[g] # NoPath
  BY <1>0 DEF Kept, InPlace
<1> QED BY <1>2, <1>3, <1>4 DEF Done

\* Half a file is read only from a source the user gave away: the file's own.
LEMMA HalfReceived ==
  ASSUME TypeOK, Place, Disk, Running, Told, OwnPath, pc \in Writing, Received = Partial
  PROVE  dest \in consented
<1>0. Walk /\ Kept
  BY DEF Place, Disk
<1>1. cur \in Files /\ ~ Done(cur) /\ cur \in ToSet(todo)
  BY <1>0, FileInHand
<1>2. ToCome(cur)
  BY <1>1 DEF ToCome
<1>3. fs[Src[cur]] # cur
  <2>1. PICK f \in Files : f = cur
    BY <1>1
  <2> QED BY <1>1, <2>1, ReceivedIs, MarksAssumption
<1>4. Src[cur] \in consented
  BY <1>0, <1>1, <1>3 DEF Kept, Sources
<1> QED BY <1>1, <1>2, <1>4 DEF OwnPath

\* What is half after a step was so before, or is answered for, or in hand.
LEMMA HalvesKept ==
  ASSUME Halves,
         \A p \in Paths : fs'[p] = Partial =>
           (fs[p] = Partial /\ (p \in Answered => p \in Answered')) \/ p \in Answered' \/ Pending(p)',
         \A p \in Paths : Pending(p) /\ fs'[p] = Partial => p \in Answered' \/ Pending(p)'
  PROVE  Halves'
BY DEF Halves

\* A step with no stream in hand.
LEMMA HalvesQuiet ==
  ASSUME Halves, pc \notin Streamed,
         \A p \in Paths : fs'[p] = Partial =>
           (fs[p] = Partial /\ (p \in Answered => p \in Answered')) \/ p \in Answered' \/ Pending(p)'
  PROVE  Halves'
BY HalvesKept DEF Pending

\* A write at the destination in hand.
LEMMA PutElsewhere ==
  ASSUME TypeOK, dest \in Paths, NEW c, Put(c)
  PROVE  fs'[dest] = c /\ \A p \in Paths : p # dest => fs'[p] = fs[p]
BY DEF TypeOK, Put

LEMMA HalvesItems ==
  ASSUME NamesApart, TypeOK, OnePath, Place, Disk, Running, OwnPath, Halves,
         Scan \/ BeginItem \/ RenameStat \/ Rename \/ EndItem \/ EnterFolder \/ ListFolder
  PROVE  Halves'
<1>0. Walk /\ Spot /\ pc \notin Streamed /\ Answered' = Answered
  <2>1. /\ pc \in {"scan", "item", "rename", "renaming", "file", "enter", "list"}
        /\ consented' = consented /\ doubtful' = doubtful /\ abandoned' = abandoned
    BY DEF Scan, BeginItem, RenameStat, Rename, EndItem, EnterFolder, ListFolder, At, history
  <2> QED BY <2>1, StagesAre DEF Place, Answered
<1>1. ASSUME \A p \in Paths : fs'[p] = Partial => fs[p] = Partial PROVE Halves'
  BY <1>0, <1>1, HalvesQuiet
<1>2. CASE Scan \/ BeginItem \/ RenameStat \/ ListFolder
  BY <1>1, <1>2 DEF Scan, BeginItem, RenameStat, ListFolder
<1>3. CASE Rename
  BY <1>0, <1>1, <1>3, RenameIs, RenamedTree
<1>4. CASE EndItem
  BY <1>1, <1>4, EndItemIs, MarksAssumption
<1>5. CASE EnterFolder
  <2>1. fs' = fs \/ fs' = [fs EXCEPT ![it.dst] = Folder]
    BY <1>5 DEF EnterFolder
  <2>2. \A p \in Paths : fs'[p] = fs[p] \/ fs'[p] = Folder
    BY <2>1 DEF TypeOK
  <2> QED BY <1>1, <2>2, MarksAssumption
<1> QED BY <1>2, <1>3, <1>4, <1>5

LEMMA HalvesFile ==
  ASSUME TypeOK, Place, Disk, Running, Told, OwnPath, Halves,
         StatFile \/ Conflict \/ GiveUpAsking \/ User \/ Open \/ Create \/ ServerCopy \/ Scp
  PROVE  Halves'
<1>1. CASE StatFile \/ Conflict \/ GiveUpAsking \/ User \/ Open
  <2>1. fs' = fs
    <3>1. CASE StatFile \/ Conflict \/ GiveUpAsking \/ Open
      BY <3>1 DEF StatFile, Conflict, GiveUpAsking, AnswerCancel, Open
    <3>2. CASE AnswerOverwrite \/ AnswerSkip \/ AnswerRename \/ AnswerUnsupported
      BY <3>2 DEF AnswerOverwrite, AnswerSkip, AnswerRename, AnswerUnsupported
    <3>3. CASE Dismiss \/ AnswerCancel \/ AnswerRetry \/ AnswerSkipError
      BY <3>3 DEF Dismiss, AnswerCancel, AnswerRetry, AnswerSkipError
    <3> QED BY <1>1, <3>1, <3>2, <3>3 DEF User
  <2>2. consented \subseteq consented' /\ doubtful' = doubtful /\ abandoned' = abandoned
    <3>1. CASE StatFile \/ Conflict \/ GiveUpAsking \/ Open
      BY <3>1 DEF StatFile, Conflict, GiveUpAsking, AnswerCancel, Open, history
    <3>2. CASE AnswerOverwrite \/ AnswerSkip \/ AnswerRename \/ AnswerUnsupported
      BY <3>2 DEF AnswerOverwrite, AnswerSkip, AnswerRename, AnswerUnsupported, history
    <3>3. CASE Dismiss \/ AnswerCancel \/ AnswerRetry \/ AnswerSkipError
      BY <3>3 DEF Dismiss, AnswerCancel, AnswerRetry, AnswerSkipError, history
    <3> QED BY <1>1, <3>1, <3>2, <3>3 DEF User
  <2>3. pc \notin Streamed
    <3>1. CASE StatFile \/ Conflict \/ GiveUpAsking \/ Open
      BY <3>1, StagesAre DEF StatFile, Conflict, GiveUpAsking, AnswerCancel, Open, At
    <3>2. CASE AnswerOverwrite \/ AnswerSkip \/ AnswerRename \/ AnswerUnsupported
      BY <3>2, StagesAre DEF AnswerOverwrite, AnswerSkip, AnswerRename, AnswerUnsupported, At
    <3>3. CASE Dismiss \/ AnswerCancel \/ AnswerRetry \/ AnswerSkipError
      BY <3>3, StagesAre DEF Dismiss, AnswerCancel, AnswerRetry, AnswerSkipError, At
    <3> QED BY <1>1, <3>1, <3>2, <3>3 DEF User
  <2> QED BY <2>1, <2>2, <2>3, HalvesQuiet DEF Answered
<1>2. ASSUME pc \in {"create", "servercopy", "scp"}
      PROVE  /\ pc \in Writing /\ pc \notin Streamed /\ dest \in Paths
             /\ Received = Partial => dest \in consented
  <2>1. pc \in Writing /\ pc \notin Streamed /\ Walk
    BY <1>2, StagesAre DEF Place
  <2> QED BY <2>1, FileInHand, HalfReceived
<1>3. CASE Create
  <2>0. pc = "create" /\ UNCHANGED <<consented, doubtful, dest, existed, opt>>
    BY <1>3 DEF Create, At, choices
  <2>1. CASE fs' = fs /\ abandoned' = abandoned
    BY <1>2, <2>0, <2>1, HalvesQuiet DEF Answered
  <2>2. CASE /\ ~ Staged /\ Put(Partial) /\ pc' = "pump" /\ outcome' = outcome
             /\ abandoned' = abandoned \ {dest}
    <3>1. \A p \in Paths : p # dest => fs'[p] = fs[p] /\ (p \in Answered => p \in Answered')
      BY <1>2, <2>0, <2>2, PutElsewhere DEF Answered
    <3>2. existed => dest \in consented
      BY <1>2, <2>0 DEF Place, Spot
    <3>3. existed => dest \in Answered'
      BY <2>0, <3>2 DEF Answered
    <3>4. ~ existed => Pending(dest)'
      BY <2>0, <2>2, StagesAre DEF Pending, Running, Staged
    <3> QED BY <1>2, <2>0, <3>1, <3>3, <3>4, HalvesQuiet
  <2> QED BY <1>3, <2>1, <2>2 DEF Create, Goto
<1>4. ASSUME pc \in {"servercopy", "scp"}, NEW c, Put(c), c = Partial => dest \in Answered',
             \A p \in Paths : p # dest /\ p \in Answered => p \in Answered'
      PROVE  Halves'
  <2>1. fs'[dest] = c /\ \A p \in Paths : p # dest => fs'[p] = fs[p]
    BY <1>2, <1>4, PutElsewhere
  <2> QED BY <1>2, <1>4, <2>1, HalvesQuiet
<1>5. ASSUME pc \in {"servercopy", "scp"}, fs' = fs, Answered \subseteq Answered' PROVE Halves'
  BY <1>2, <1>5, HalvesQuiet
<1>6. ASSUME pc \in {"servercopy", "scp"}, Abandon, UNCHANGED <<consented, doubtful>> PROVE Halves'
  <2>1. CASE UNCHANGED <<fs, abandoned>>
    BY <1>5, <1>6, <2>1 DEF Answered
  <2>2. CASE Put(Partial) /\ abandoned' = abandoned \cup {dest}
    BY <1>4, <1>6, <2>2 DEF Answered
  <2> QED BY <1>6, <2>1, <2>2 DEF Abandon
<1>7. CASE ServerCopy
  <2>0. pc = "servercopy" /\ consented' = consented
    BY <1>7 DEF ServerCopy, At
  <2>1. CASE Put(Received) /\ UNCHANGED <<doubtful, abandoned>>
    BY <1>2, <1>4, <2>0, <2>1 DEF Answered
  <2>2. CASE doubtful' = doubtful \cup {dest} /\ abandoned' = abandoned
             /\ (fs' = fs \/ \E c \in {Received, Partial} : Put(c))
    BY <1>4, <1>5, <2>0, <2>2 DEF Answered
  <2>3. CASE UNCHANGED <<fs, doubtful, abandoned>>
    BY <1>5, <2>0, <2>3 DEF Answered
  <2> QED BY <1>6, <1>7, <2>0, <2>1, <2>2, <2>3 DEF ServerCopy
<1>8. CASE Scp
  <2>0. pc = "scp" /\ consented' = consented /\ doubtful' = doubtful
    BY <1>8 DEF Scp, At
  <2>1. CASE Put(Received) /\ abandoned' = abandoned \ {dest}
    BY <1>2, <1>4, <2>0, <2>1 DEF Answered
  <2> QED BY <1>6, <1>8, <2>0, <2>1 DEF Scp
<1> QED BY <1>1, <1>3, <1>7, <1>8

LEMMA HalvesStream ==
  ASSUME TypeOK, Place, Disk, Running, Told, OwnPath, Halves, PumpFile \/ Commit \/ Undo
  PROVE  Halves'
<1>0. /\ pc \in Streamed /\ dest \in Paths /\ UNCHANGED <<consented, abandoned, dest, existed, opt>>
      /\ (Received = Partial => dest \in consented) /\ outcome = "running"
  <2>1. pc \in Streamed /\ pc \in Writing /\ UNCHANGED <<consented, abandoned, dest, existed, opt>> /\ Walk
    BY StagesAre DEF PumpFile, Commit, Undo, At, choices, Place
  <2> QED BY <2>1, FileInHand, HalfReceived DEF Running
<1>1. ASSUME fs' = fs, doubtful' = doubtful, pc' \in Streamed, outcome' = outcome PROVE Halves'
  <2>1. \A p \in Paths : Pending(p)' <=> Pending(p)
    BY <1>0, <1>1 DEF Pending, Running, Staged
  <2> QED BY <1>0, <1>1, <2>1, HalvesKept DEF Answered
<1>2. ASSUME NEW c, Put(c), c # Partial \/ dest \in consented, doubtful \subseteq doubtful' PROVE Halves'
  <2>1. fs'[dest] = c /\ \A p \in Paths : p # dest => fs'[p] = fs[p]
    BY <1>0, <1>2, PutElsewhere
  <2>2. \A p \in Paths : Pending(p) => p = dest
    BY DEF Pending
  <2> QED BY <1>0, <1>2, <2>1, <2>2, HalvesKept DEF Answered
<1>3. ASSUME fs' = fs, doubtful' = IF existed \/ Staged THEN doubtful ELSE doubtful \cup {dest}
      PROVE  Halves'
  <2>1. \A p \in Paths : Pending(p) => p \in doubtful'
    BY <1>3 DEF Pending
  <2>2. doubtful \subseteq doubtful'
    BY <1>3
  <2> QED BY <1>0, <1>3, <2>1, <2>2, HalvesKept DEF Answered
<1>4. ASSUME NEW next, NEW undo, Unwind(next, undo), fs' = fs PROVE Halves'
  <2>1. CASE undo
    <3>1. doubtful' = doubtful /\ pc' \in Streamed /\ outcome' = outcome
      BY <1>4, <2>1, StagesAre DEF Unwind, Goto
    <3> QED BY <1>1, <1>4, <3>1
  <2>2. CASE ~ undo
    BY <1>3, <1>4, <2>2 DEF Unwind
  <2> QED BY <2>1, <2>2
<1>5. CASE PumpFile
  <2>1. CASE pc' = "commit" /\ outcome' = outcome /\ doubtful' = doubtful
    BY <1>1, <1>5, <2>1, StagesAre DEF PumpFile
  <2> QED BY <1>4, <1>5, <2>1 DEF PumpFile, Goto
<1>6. CASE Commit
  <2>1. CASE Put(Received) /\ doubtful' = doubtful
    BY <1>0, <1>2, <2>1
  <2>2. CASE Put(Received) /\ Unwind(FALSE, FALSE)
    <3>1. doubtful \subseteq doubtful'
      BY <2>2 DEF Unwind
    <3> QED BY <1>0, <1>2, <2>2, <3>1
  <2> QED BY <1>4, <1>6, <2>1, <2>2 DEF Commit
<1>7. CASE Undo
  <2>1. CASE Put(Nothing) /\ doubtful' = doubtful
    BY <1>2, <2>1, MarksAssumption
  <2>2. CASE fs' = fs /\ doubtful' = doubtful \cup {dest}
    <3>1. \A p \in Paths : Pending(p) => p = dest
      BY DEF Pending
    <3> QED BY <1>0, <2>2, <3>1, HalvesKept DEF Answered
  <2> QED BY <1>7, <2>1, <2>2 DEF Undo
<1> QED BY <1>5, <1>6, <1>7

LEMMA StepHalves ==
  ASSUME NamesApart, TypeOK, OnePath, Place, Disk, Running, Told, OwnPath, Halves, Next
  PROVE  Halves'
<1>1. CASE Worker \/ User
  BY <1>1, HalvesItems, HalvesFile, HalvesStream DEF Worker
<1>2. CASE Cancel \/ \E p \in Foreign : ForeignCreate(p)
  <2>1. UNCHANGED <<consented, doubtful, abandoned, pc, dest, existed, opt, outcome>>
    BY <1>2 DEF Cancel, ForeignCreate, choices, walk, history
  <2>2. \A p \in Paths : Pending(p)' <=> Pending(p)
    BY <2>1 DEF Pending, Running, Staged
  <2>3. \A p \in Paths : fs'[p] = fs[p] \/ fs'[p] = Alien
    BY <1>2 DEF Cancel, ForeignCreate, TypeOK
  <2> QED BY <2>1, <2>2, <2>3, HalvesKept, MarksAssumption DEF Answered
<1>3. CASE Over
  BY <1>3 DEF Over, Running
<1> QED BY <1>1, <1>2, <1>3 DEF Next

LEMMA InitLeavings == Init => Leavings
<1> SUFFICES ASSUME Init PROVE Leavings
  OBVIOUS
<1>1. /\ fs \in Worlds /\ item = 1 /\ consented = {} /\ doubtful = {} /\ outcome = "running"
  BY DEF Init
<1>2. /\ \A p \in Paths : fs[p] # Partial
      /\ \A g \in Files : fs[Src[g]] = g
  BY <1>1, TransferAssumption
<1>3. \A g \in Files : ~ Done(g)
  BY <1>1, ItemDomain DEF Done
<1> QED BY <1>1, <1>2, <1>3 DEF Leavings, OwnPath, Halves, Unmoved, Stays, Through

\* When a copy or a move is over, half a file is left only where the user agreed
\* to a replacement, where the outcome is unknown or the rollback was refused or
\* failed, and where a failed scp or FISH+ copy left it and nothing was streamed
\* there since; a copy leaves every source as it was, and a move that ended well
\* accounts for every file.  The operation copies no file to a path another of
\* its files comes from.
THEOREM LeavingsAreSettled == ASSUME NamesApart PROVE Spec => []Settled
<1>1. IInv /\ Told /\ Leavings /\ [Next]_vars => Leavings'
  <2> SUFFICES ASSUME IInv, Told, Leavings, [Next]_vars PROVE Leavings'
    OBVIOUS
  <2>1. CASE Running /\ Next
    <3>1. OwnPath' /\ Unmoved'
      BY <2>1, OwnPathKept, UnmovedKept DEF IInv, Leavings
    <3>2. Stays' /\ Through'
      BY <2>1, StaysKept, ThroughKept DEF IInv, Leavings
    <3>3. Halves'
      BY <2>1, StepHalves DEF IInv, Leavings
    <3> QED BY <3>1, <3>2, <3>3 DEF Leavings
  <2>2. CASE UNCHANGED vars
    <3>1. OwnPath' /\ Halves'
      BY <2>2 DEF Leavings, OwnPath, Halves, Answered, Pending, ToCome, Done, Running, Staged, cur, vars, choices, walk, history
    <3>2. Unmoved' /\ Stays' /\ Through'
      BY <2>2 DEF Leavings, Unmoved, Stays, Through, Done, vars, choices, walk, history
    <3> QED BY <3>1, <3>2 DEF Leavings
  <2> QED BY <2>1, <2>2, OverIsOver
<1>2. IInv /\ Leavings => Settled
  BY LeavingsSettle DEF IInv
<1> QED BY <1>1, <1>2, InitLeavings, ToldInv, PTL DEF Spec
-----------------------------------------------------------------------------
(***************************************************************************)
(* The stream of one file                                                  *)
(***************************************************************************)
\* The bytes after the first m, appended to them, are the first m + n.
LEMMA AppendPiece ==
  ASSUME NEW s \in Seq(Nat), NEW m \in Nat, NEW n \in Nat, m + n <= Len(s)
  PROVE  SubSeq(s, 1, m) \o SubSeq(s, m + 1, m + n) = SubSeq(s, 1, m + n)
<1> DEFINE l == SubSeq(s, 1, m) \o SubSeq(s, m + 1, m + n)
           r == SubSeq(s, 1, m + n)
<1>1. SubSeq(s, 1, m) \in Seq(Nat) /\ Len(SubSeq(s, 1, m)) = m
  OBVIOUS
<1>2. SubSeq(s, m + 1, m + n) \in Seq(Nat) /\ Len(SubSeq(s, m + 1, m + n)) = n
  OBVIOUS
<1>3. l \in Seq(Nat) /\ Len(l) = m + n
  BY <1>1, <1>2
<1>4. r \in Seq(Nat) /\ Len(r) = m + n
  OBVIOUS
<1>5. ASSUME NEW i \in 1..(m + n) PROVE l[i] = r[i]
  <2>1. CASE i <= m
    BY <2>1, <1>1, <1>2
  <2>2. CASE i > m
    BY <2>2, <1>1, <1>2
  <2> QED BY <2>1, <2>2
<1> QED BY <1>3, <1>4, <1>5, SeqEqual

\* The whole of a sequence is its first Len(s) elements.
LEMMA WholePiece ==
  ASSUME NEW s \in Seq(Nat)
  PROVE  SubSeq(s, 1, Len(s)) = s
OBVIOUS

LEMMA Joined ==
  ASSUME NEW s \in Seq(Nat), NEW t \in Seq(Nat)
  PROVE  s \o t \in Seq(Nat)
OBVIOUS

-----------------------------------------------------------------------------
\* The strengthening: while the pump runs, offset counts exactly what has gone
\* out, and a stream that has not failed stands at it.
Aligned ==
  pumpOutcome = "running" =>
    written = SubSeq(Data, 1, offset) /\ (~positional => pos = offset)

PumpInv ==
  /\ PumpTypeOK /\ Aligned
  /\ Prefix /\ WholeIsWhole /\ AttemptsBound

\* A turn of a pump whose books are in order reads where its output ends: m of
\* the n bytes it delivers are the next m of the source.
LEMMA NextBytes ==
  ASSUME PumpInv, pumpOutcome = "running", NEW n \in 0..Buffer, Delivers(n),
         NEW m \in 0..n
  PROVE  /\ ReadsAt = offset /\ offset + m \in 0..Size
         /\ Bytes(m) \in Seq(Nat)
         /\ written \o Bytes(m) = SubSeq(Data, 1, offset + m)
<1> USE PumpAssumption
<1>1. ReadsAt = offset
  BY DEF PumpInv, PumpTypeOK, Aligned, ReadsAt
<1>2. /\ offset \in Nat /\ m \in Nat /\ n \in Nat /\ m <= n
      /\ offset <= Size /\ Size = Len(Data) /\ Size \in Nat
  BY DEF PumpInv, PumpTypeOK, Size
<1>3. offset + m <= Size
  BY <1>1, <1>2 DEF Delivers
<1>4. SubSeq(Data, 1, offset) \o SubSeq(Data, offset + 1, offset + m) = SubSeq(Data, 1, offset + m)
  BY <1>2, <1>3, AppendPiece
<1>5. Bytes(m) \in Seq(Nat)
  <2>1. offset + 1 \in 1..(Len(Data) + 1) /\ offset + m \in (offset)..Len(Data)
    BY <1>2, <1>3
  <2> QED BY <2>1, <1>1, <1>2, <1>3 DEF Bytes
<1>6. written = SubSeq(Data, 1, offset)
  BY DEF PumpInv, Aligned
<1>7. Bytes(m) = SubSeq(Data, offset + 1, offset + m)
  BY <1>1 DEF Bytes
<1>8. written \o Bytes(m) = SubSeq(Data, 1, offset + m)
  BY <1>4, <1>6, <1>7
<1>9. offset + m \in 0..Size
  BY <1>2, <1>3
<1> QED BY <1>1, <1>5, <1>8, <1>9

\* The same of the bytes Take lets out, as the next state sees it.
LEMMA Taken ==
  ASSUME PumpInv, pumpOutcome = "running", NEW n \in 0..Buffer, Delivers(n), Take(n)
  PROVE  /\ offset' = offset + n /\ offset' \in 0..Size
         /\ written' \in Seq(Nat) /\ written' = SubSeq(Data, 1, offset')
<1>1. n \in 0..n
  BY PumpAssumption
<1>2. /\ ReadsAt = offset /\ offset + n \in 0..Size /\ Bytes(n) \in Seq(Nat)
      /\ written \o Bytes(n) = SubSeq(Data, 1, offset + n)
  BY <1>1, NextBytes
<1>3. written \in Seq(Nat)
  BY DEF PumpInv, PumpTypeOK
<1>4. written \o Bytes(n) \in Seq(Nat)
  BY <1>2, <1>3, Joined
<1> QED BY <1>2, <1>4 DEF Take

LEMMA InitPumpInv == PumpInit => PumpInv
<1> SUFFICES ASSUME PumpInit PROVE PumpInv
  OBVIOUS
<1> USE PumpAssumption
<1>1. Size \in Nat
  BY DEF Size
<1>2. SubSeq(Data, 1, 0) = <<>>
  OBVIOUS
<1>3. PumpTypeOK
  <2>1. pos \in 0..Size /\ offset \in 0..Size /\ failures \in 0..Attempts
    BY <1>1 DEF PumpInit
  <2>2. written \in Seq(Nat)
    BY DEF PumpInit
  <2> QED BY <2>1, <2>2 DEF PumpInit, PumpTypeOK
<1>4. Aligned /\ WholeIsWhole /\ AttemptsBound
  BY <1>2 DEF PumpInit, Aligned, WholeIsWhole, AttemptsBound
<1>5. Prefix
  <2>1. 0 \in 0..Size /\ written = SubSeq(Data, 1, 0)
    BY <1>1, <1>2 DEF PumpInit
  <2> QED BY <2>1 DEF Prefix
<1> QED BY <1>3, <1>4, <1>5 DEF PumpInv

\* Every way a read can end keeps the books in order.
LEMMA ReadKeeps ==
  ASSUME PumpInv, pumpOutcome = "running", UNCHANGED pumpCancelled, NEW n \in 0..Buffer, Delivers(n),
         \/ ReadOn(n) \/ ReadEnd(n) \/ ReadFails(n) \/ WriteFails(n)
         \/ Take(n) /\ pumpOutcome' = "cancelled" /\ UNCHANGED <<pos, positional, failures, idle>>
  PROVE  PumpInv'
<1> USE PumpAssumption
<1>0. /\ Size \in Nat /\ offset \in 0..Size /\ pos \in 0..Size /\ failures \in 0..Attempts
      /\ failures < Attempts /\ positional \in BOOLEAN /\ pumpCancelled \in BOOLEAN
      /\ n \in Nat /\ Size = Len(Data) /\ written \in Seq(Nat) /\ idle \in BOOLEAN
  BY DEF PumpInv, PumpTypeOK, AttemptsBound, Size
<1>1. CASE ReadOn(n)
  <2>1. Take(n)
    BY <1>1 DEF ReadOn
  <2>2. /\ offset' = offset + n /\ offset' \in 0..Size
        /\ written' \in Seq(Nat) /\ written' = SubSeq(Data, 1, offset')
    BY <2>1, Taken
  <2>3. Aligned'
    BY <1>1, <2>2, <1>0 DEF ReadOn, Aligned, PumpInv
  <2>4. pos' \in 0..Size
    BY <1>1, <1>0, <2>2, <2>3 DEF ReadOn, Aligned, PumpInv
  <2>5. PumpTypeOK'
    <3>1. failures' \in 0..Attempts /\ idle' \in BOOLEAN
      BY <1>1, <1>0 DEF ReadOn, Before
    <3> QED BY <3>1, <1>1, <1>0, <2>2, <2>4 DEF ReadOn, PumpTypeOK, Size
  <2>6. Prefix' /\ WholeIsWhole' /\ AttemptsBound'
    BY <1>1, <1>0, <2>2
       DEF ReadOn, Before, Prefix, WholeIsWhole, AttemptsBound, Size
  <2> QED BY <2>3, <2>5, <2>6 DEF PumpInv
<1>2. CASE ReadEnd(n)
  <2>1. Take(n)
    BY <1>2 DEF ReadEnd
  <2>2. /\ offset' = offset + n /\ offset' \in 0..Size
        /\ written' \in Seq(Nat) /\ written' = SubSeq(Data, 1, offset')
    BY <2>1, Taken
  <2>3. ReadsAt = offset
    <3>1. 0 \in 0..n
      BY <1>0
    <3> QED BY <3>1, NextBytes
  <2>4. written' = Data
    BY <1>2, <2>2, <2>3, <1>0, WholePiece DEF ReadEnd
  <2>5. PumpTypeOK'
    BY <1>2, <1>0, <2>2 DEF ReadEnd, Before, PumpTypeOK, Size
  <2>6. Aligned' /\ Prefix' /\ WholeIsWhole' /\ AttemptsBound'
    BY <1>2, <2>2, <2>4
       DEF ReadEnd, Aligned, Prefix, WholeIsWhole,
           AttemptsBound, Size
  <2> QED BY <2>5, <2>6 DEF PumpInv
<1>3. CASE ReadFails(n)
  <2>1. Take(n)
    BY <1>3 DEF ReadFails
  <2>2. /\ offset' = offset + n /\ offset' \in 0..Size
        /\ written' \in Seq(Nat) /\ written' = SubSeq(Data, 1, offset')
    BY <2>1, Taken
  <2>3. pos' \in 0..Size
    BY <1>3, <1>0 DEF ReadFails, Adrift
  <2>4. Before(n) \in Nat /\ Before(n) < Attempts
    BY <1>0 DEF Before
  <2>5. PumpTypeOK'
    <3>0. failures' = Before(n) + 1 /\ idle' = FALSE
      BY <1>3 DEF ReadFails
    <3>a. failures' \in 0..Attempts
      BY <3>0, <2>4
    <3>b. idle' \in BOOLEAN
      BY <3>0
    <3>1. failures' \in 0..Attempts /\ idle' \in BOOLEAN
      BY <3>a, <3>b
    <3>2. positional' \in BOOLEAN /\ pumpOutcome' \in {"running", "readFailure"} /\ pumpCancelled' \in BOOLEAN
      BY <1>3, <1>0 DEF ReadFails
    <3> QED BY <3>1, <3>2, <2>2, <2>3 DEF PumpTypeOK, Size
  <2>6. Aligned' /\ Prefix' /\ WholeIsWhole' /\ AttemptsBound'
    BY <1>3, <1>0, <2>2, <2>4
       DEF ReadFails, Aligned, Prefix, WholeIsWhole,
           AttemptsBound, Size
  <2> QED BY <2>5, <2>6 DEF PumpInv
<1>4. CASE WriteFails(n)
  <2>1. PICK m \in 0..n : written' = written \o Bytes(m)
    BY <1>4 DEF WriteFails
  <2>2. /\ offset + m \in 0..Size /\ Bytes(m) \in Seq(Nat)
        /\ written \o Bytes(m) = SubSeq(Data, 1, offset + m)
    BY <2>1, NextBytes
  <2>3. written' \in Seq(Nat) /\ written' = SubSeq(Data, 1, offset + m)
    BY <2>1, <2>2, <1>0
  <2>4. PumpTypeOK'
    BY <1>4, <1>0, <2>3 DEF WriteFails, PumpTypeOK, Size
  <2>5. Aligned' /\ Prefix' /\ WholeIsWhole' /\ AttemptsBound'
    BY <1>4, <2>2, <2>3
       DEF WriteFails, Aligned, Prefix, WholeIsWhole,
           AttemptsBound, Size
  <2> QED BY <2>4, <2>5 DEF PumpInv
<1>5. CASE Take(n) /\ pumpOutcome' = "cancelled" /\ UNCHANGED <<pos, positional, failures, idle>>
  <2>1. /\ offset' \in 0..Size
        /\ written' \in Seq(Nat) /\ written' = SubSeq(Data, 1, offset')
    BY <1>5, Taken
  <2>2. PumpTypeOK'
    BY <1>5, <1>0, <2>1 DEF PumpTypeOK, Size
  <2>3. Aligned' /\ Prefix' /\ WholeIsWhole' /\ AttemptsBound'
    BY <1>5, <2>1 DEF Aligned, Prefix, WholeIsWhole, AttemptsBound, Size
  <2> QED BY <2>2, <2>3 DEF PumpInv
<1> QED BY <1>1, <1>2, <1>3, <1>4, <1>5

LEMMA NextPumpInv == PumpInv /\ [PumpNext]_(pumpVars) => PumpInv'
<1> SUFFICES ASSUME PumpInv, [PumpNext]_(pumpVars) PROVE PumpInv'
  OBVIOUS
<1>1. CASE Turn
  <2>1. PICK n \in 0..Buffer :
          Delivers(n) /\ (ReadOn(n) \/ ReadEnd(n) \/ ReadFails(n) \/ WriteFails(n))
    BY <1>1 DEF Turn
  <2> QED BY <1>1, <2>1, ReadKeeps DEF Turn
<1>2. CASE StopPump
  <2>1. CASE /\ pumpOutcome' = "cancelled"
             /\ UNCHANGED <<pos, offset, positional, failures, written, pumpCancelled, idle>>
    BY <2>1 DEF PumpInv, PumpTypeOK, Aligned, Prefix, WholeIsWhole, AttemptsBound
  <2>2. CASE \E n \in 0..Buffer :
               /\ Delivers(n)
               /\ \/ ReadEnd(n) \/ WriteFails(n)
                  \/ Take(n) /\ pumpOutcome' = "cancelled" /\ UNCHANGED <<pos, positional, failures, idle>>
    BY <1>2, <2>2, ReadKeeps DEF StopPump
  <2> QED BY <1>2, <2>1, <2>2 DEF StopPump
<1>3. CASE CancelPump
  BY <1>3
     DEF CancelPump, PumpInv, PumpTypeOK, Aligned, Prefix,
         WholeIsWhole, AttemptsBound
<1>4. CASE UNCHANGED pumpVars
  BY <1>4
     DEF pumpVars, PumpInv, PumpTypeOK, Aligned, Prefix,
         WholeIsWhole, AttemptsBound
<1> QED BY <1>1, <1>2, <1>3, <1>4 DEF PumpNext, PumpOver

\* The inductive invariant of the pump.
LEMMA PumpInvAlways == PumpSpec => []PumpInv
BY InitPumpInv, NextPumpInv, PTL DEF PumpSpec

\* Every variable of the pump holds what the code's variable may hold.
THEOREM PumpTypesAreKept == PumpSpec => []PumpTypeOK
<1>1. PumpInv => PumpTypeOK
  BY DEF PumpInv
<1> QED BY <1>1, PumpInvAlways, PTL

\* What pumpFile has let out is a prefix of its source at every moment, and the
\* whole of it once it returned without an error.
THEOREM PumpWritesTheFile == PumpSpec => []OnlyTheFile
<1>1. PumpInv => OnlyTheFile
  BY DEF PumpInv, OnlyTheFile
<1> QED BY <1>1, PumpInvAlways, PTL

\* A pump that still runs has an attempt left.
THEOREM PumpKeepsAttempts == PumpSpec => []AttemptsBound
<1>1. PumpInv => AttemptsBound
  BY DEF PumpInv
<1> QED BY <1>1, PumpInvAlways, PTL
==============================================================================
