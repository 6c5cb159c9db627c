------------------------ MODULE RetentionLoopProofs ------------------------
(***************************************************************************)
(* The planning loop computes the plan, for every partition, clock and     *)
(* request.  The invariant says what the loop has removed at each stage    *)
(* and that its totals describe the rest; the plan then follows because    *)
(* the evictions in key order are nested (PrefixesNest), so the first one  *)
(* that makes room is the intersection of all that do.                     *)
(***************************************************************************)
EXTENDS RetentionLoop, RetentionProofs, SequenceTheorems

Gone == {remove[k] : k \in DOMAIN remove}
Dropped == Candidates(fs, req) \ (unseen \cup remaining)

LoopType ==
    /\ fs \in Partition /\ now \in Time \cup {NoTime} /\ req \in Request
    /\ stage \in {"admit", "temporaries", "age", "quota", "done"}
    /\ unseen \subseteq Groups(fs) /\ remaining \subseteq Candidates(fs, req)
    /\ remove \in Seq(Name)

(* Whether the request has passed the tests before the plan.               *)
Admitted == stage \in {"temporaries", "age", "quota"} \/ result \in {"granted", "Capacity"}

Planning == stage \in {"age", "quota"} \/ result \in {"granted", "Capacity"}

(* The loop has removed the staging files and, of the groups it has come   *)
(* across, those that must go; after the first pass it has gone down the   *)
(* order of eviction and no shorter way makes room.                        *)
Progress ==
    /\ stage # "done" <=> result = "pending"
    /\ Admitted => PlanRefusal(fs, now, req) \in {"Capacity", "none"}
    /\ ~Planning => remove = <<>> /\ remaining = {}
    /\ Planning => Gone = Temporaries(fs) \cup Members(fs, Dropped)
    /\ stage = "age" => remaining = (Candidates(fs, req) \ unseen) \ MustGo(fs, now, req)
    /\ Planning /\ stage # "age" =>
          /\ unseen = {}
          /\ Dropped \in Prefixes(fs, now, req)
          /\ \A E \in Prefixes(fs, now, req) :
                E \subseteq Dropped /\ E # Dropped => ~Fits(fs, KeptAfter(fs, E), req)
    /\ result = "granted" => RoomNow
    /\ result = "Capacity" => ~RoomNow /\ remaining = {}
    /\ stage = "done" /\ ~Admitted =>
          result = PlanRefusal(fs, now, req) /\ result # "none"

Totals ==
    LET left == Present(fs) \ Gone
    IN  keptBytes = BytesOf(fs, left) /\ keptFiles = FilesOf(left)

LoopInv == LoopType /\ Progress /\ Totals /\ WholeGroupsInOrder

-----------------------------------------------------------------------------
(* Removing a group                                                        *)

LEMMA GroupNames ==
    ASSUME NEW i \in Id
    PROVE  /\ Start(i) \in Name /\ Finish(i) \in Name /\ Start(i) # Finish(i)
           /\ Start(i).kind = "start" /\ Finish(i).kind = "finish"
           /\ Start(i).id = i /\ Finish(i).id = i
           /\ \A n \in FinalName : n.id = i => n = Start(i) \/ n = Finish(i)
           /\ Start(i) \in FinalName /\ Finish(i) \in FinalName
BY DEF Start, Finish, Name, FinalName, Kinds

(* The names a group contributes, start first.                             *)
LEMMA GroupListed ==
    ASSUME NEW i \in Id
    PROVE  /\ GroupFiles(i) \in Seq(Name)
           /\ fs[Start(i)] # Absent /\ fs[Finish(i)] # Absent =>
                 Len(GroupFiles(i)) = 2 /\ GroupFiles(i)[1] = Start(i) /\ GroupFiles(i)[2] = Finish(i)
           /\ fs[Start(i)] # Absent /\ fs[Finish(i)] = Absent =>
                 Len(GroupFiles(i)) = 1 /\ GroupFiles(i)[1] = Start(i)
           /\ fs[Start(i)] = Absent /\ fs[Finish(i)] # Absent =>
                 Len(GroupFiles(i)) = 1 /\ GroupFiles(i)[1] = Finish(i)
           /\ fs[Start(i)] = Absent /\ fs[Finish(i)] = Absent => Len(GroupFiles(i)) = 0
<1> DEFINE s == Listed(Start(i))
           t == Listed(Finish(i))
<1>1. ASSUME NEW n \in Name
      PROVE  /\ Listed(n) \in Seq(Name)
             /\ fs[n] = Absent => Len(Listed(n)) = 0
             /\ fs[n] # Absent => Len(Listed(n)) = 1 /\ Listed(n)[1] = n
  BY DEF Listed
<1>2. s \in Seq(Name) /\ t \in Seq(Name)
  BY <1>1, GroupNames
<1>3. /\ s \o t \in Seq(Name)
      /\ Len(s \o t) = Len(s) + Len(t)
      /\ \A k \in 1 .. Len(s) + Len(t) :
            (s \o t)[k] = IF k <= Len(s) THEN s[k] ELSE t[k - Len(s)]
  <2> HIDE DEF s, t
  <2> QED BY <1>2, ConcatProperties
<1>4. /\ fs[Start(i)] = Absent => Len(s) = 0
      /\ fs[Start(i)] # Absent => Len(s) = 1 /\ s[1] = Start(i)
      /\ fs[Finish(i)] = Absent => Len(t) = 0
      /\ fs[Finish(i)] # Absent => Len(t) = 1 /\ t[1] = Finish(i)
  BY <1>1, GroupNames
<1>5. GroupFiles(i) = s \o t
  BY DEF GroupFiles
<1> HIDE DEF s, t
<1>6. CASE fs[Start(i)] # Absent /\ fs[Finish(i)] # Absent
  <2>1. Len(s) = 1 /\ Len(t) = 1 /\ s[1] = Start(i) /\ t[1] = Finish(i)
    BY <1>4, <1>6
  <2>2. Len(s \o t) = 2 /\ (s \o t)[1] = s[1] /\ (s \o t)[2] = t[2 - 1]
    BY <1>3, <2>1
  <2> QED BY <1>3, <1>5, <1>6, <2>1, <2>2
<1>7. CASE fs[Start(i)] # Absent /\ fs[Finish(i)] = Absent
  <2>1. Len(s) = 1 /\ Len(t) = 0 /\ s[1] = Start(i)
    BY <1>4, <1>7
  <2>2. Len(s \o t) = 1 /\ (s \o t)[1] = s[1]
    BY <1>3, <2>1
  <2> QED BY <1>3, <1>5, <1>7, <2>1, <2>2
<1>8. CASE fs[Start(i)] = Absent /\ fs[Finish(i)] # Absent
  <2>1. Len(s) = 0 /\ Len(t) = 1 /\ t[1] = Finish(i)
    BY <1>4, <1>8
  <2>2. Len(s \o t) = 1 /\ (s \o t)[1] = t[1 - 0]
    BY <1>3, <2>1
  <2> QED BY <1>3, <1>5, <1>8, <2>1, <2>2
<1>9. CASE fs[Start(i)] = Absent /\ fs[Finish(i)] = Absent
  <2>1. Len(s \o t) = 0
    BY <1>3, <1>4, <1>9
  <2> QED BY <1>3, <1>5, <1>9, <2>1
<1> QED BY <1>6, <1>7, <1>8, <1>9

Listing(s) == {s[k] : k \in DOMAIN s}

LEMMA GroupListing ==
    ASSUME fs \in Partition, NEW i \in Id
    PROVE  Listing(GroupFiles(i)) = Members(fs, {i})
<1>1. Members(fs, {i}) = {n \in {Start(i), Finish(i)} : fs[n] # Absent}
  BY GroupNames DEF Members, Present
<1> DEFINE g == GroupFiles(i)
<1>2. g \in Seq(Name)
  BY GroupListed
<1> HIDE DEF g
<1>3. DOMAIN g = 1 .. Len(g)
  BY <1>2, LenProperties
<1>4. 1 .. 1 = {1} /\ 1 .. 2 = {1, 2} /\ 1 .. 0 = {}
  OBVIOUS
<1>5. CASE fs[Start(i)] # Absent /\ fs[Finish(i)] # Absent
  <2>1. DOMAIN g = {1, 2} /\ g[1] = Start(i) /\ g[2] = Finish(i)
    BY <1>3, <1>4, <1>5, GroupListed DEF g
  <2>2. Listing(g) = {Start(i), Finish(i)}
    BY <2>1 DEF Listing
  <2> QED BY <1>1, <1>5, <2>2 DEF g
<1>6. CASE fs[Start(i)] # Absent /\ fs[Finish(i)] = Absent
  <2>1. DOMAIN g = {1} /\ g[1] = Start(i)
    BY <1>3, <1>4, <1>6, GroupListed DEF g
  <2>2. Listing(g) = {Start(i)}
    BY <2>1 DEF Listing
  <2> QED BY <1>1, <1>6, <2>2 DEF g
<1>7. CASE fs[Start(i)] = Absent /\ fs[Finish(i)] # Absent
  <2>1. DOMAIN g = {1} /\ g[1] = Finish(i)
    BY <1>3, <1>4, <1>7, GroupListed DEF g
  <2>2. Listing(g) = {Finish(i)}
    BY <2>1 DEF Listing
  <2> QED BY <1>1, <1>7, <2>2 DEF g
<1>8. CASE fs[Start(i)] = Absent /\ fs[Finish(i)] = Absent
  <2>1. DOMAIN g = {}
    BY <1>3, <1>4, <1>8, GroupListed DEF g
  <2>2. Listing(g) = {}
    BY <2>1 DEF Listing
  <2> QED BY <1>1, <1>8, <2>2 DEF g
<1> QED BY <1>5, <1>6, <1>7, <1>8

LEMMA ListingOfBoth ==
    ASSUME NEW s \in Seq(Name), NEW t \in Seq(Name)
    PROVE  Listing(s \o t) = Listing(s) \cup Listing(t)
<1>1. /\ DOMAIN (s \o t) = 1 .. Len(s) + Len(t)
      /\ DOMAIN s = 1 .. Len(s) /\ DOMAIN t = 1 .. Len(t)
      /\ Len(s) \in Nat /\ Len(t) \in Nat
  BY ConcatProperties, LenProperties
<1>2. \A k \in 1 .. Len(s) + Len(t) :
         (s \o t)[k] = IF k <= Len(s) THEN s[k] ELSE t[k - Len(s)]
  BY ConcatProperties
<1>3. ASSUME NEW k \in 1 .. Len(s) + Len(t)
      PROVE  (s \o t)[k] \in Listing(s) \cup Listing(t)
  <2>1. CASE k <= Len(s)
    BY <1>1, <1>2, <2>1 DEF Listing
  <2>2. CASE k > Len(s)
    <3>1. k - Len(s) \in DOMAIN t /\ (s \o t)[k] = t[k - Len(s)]
      BY <1>1, <1>2, <2>2
    <3> QED BY <3>1 DEF Listing
  <2> QED BY <1>1, <2>1, <2>2
<1>4. ASSUME NEW k \in 1 .. Len(s) PROVE s[k] \in Listing(s \o t)
  <2>1. k \in DOMAIN (s \o t) /\ (s \o t)[k] = s[k]
    BY <1>1, <1>2
  <2> QED BY <2>1 DEF Listing
<1>5. ASSUME NEW k \in 1 .. Len(t) PROVE t[k] \in Listing(s \o t)
  <2>1. k + Len(s) \in DOMAIN (s \o t) /\ (s \o t)[k + Len(s)] = t[k]
    BY <1>1, <1>2
  <2> QED BY <2>1 DEF Listing
<1> QED BY <1>1, <1>3, <1>4, <1>5 DEF Listing

(* A sequence of names in which no group is torn; the property is about    *)
(* the removals.                                                           *)
WholeIn(s) ==
    \A k \in DOMAIN s :
        /\ s[k].kind = "finish" /\ fs[Start(s[k].id)] # Absent
              => k > 1 /\ s[k - 1] = Start(s[k].id)
        /\ s[k].kind = "start" /\ fs[Finish(s[k].id)] # Absent
              => k < Len(s) /\ s[k + 1] = Finish(s[k].id)

LEMMA WholeTogether ==
    ASSUME NEW s \in Seq(Name), NEW t \in Seq(Name), WholeIn(s), WholeIn(t)
    PROVE  WholeIn(s \o t)
<1> DEFINE u == s \o t
<1>1. /\ DOMAIN u = 1 .. Len(s) + Len(t) /\ Len(u) = Len(s) + Len(t)
      /\ DOMAIN s = 1 .. Len(s) /\ DOMAIN t = 1 .. Len(t)
      /\ Len(s) \in Nat /\ Len(t) \in Nat
  BY ConcatProperties, LenProperties
<1>2. \A k \in 1 .. Len(s) + Len(t) :
         u[k] = IF k <= Len(s) THEN s[k] ELSE t[k - Len(s)]
  BY ConcatProperties
<1> HIDE DEF u
<1> SUFFICES ASSUME NEW k \in 1 .. Len(s) + Len(t)
             PROVE  /\ u[k].kind = "finish" /\ fs[Start(u[k].id)] # Absent
                          => k > 1 /\ u[k - 1] = Start(u[k].id)
                    /\ u[k].kind = "start" /\ fs[Finish(u[k].id)] # Absent
                          => k < Len(u) /\ u[k + 1] = Finish(u[k].id)
  BY <1>1 DEF WholeIn, u
<1>3. CASE k <= Len(s)
  <2>1. k \in DOMAIN s /\ u[k] = s[k]
    BY <1>1, <1>2, <1>3
  <2>2. k > 1 => u[k - 1] = s[k - 1]
    BY <1>1, <1>2, <1>3
  <2>3. k < Len(s) => u[k + 1] = s[k + 1] /\ k < Len(u)
    BY <1>1, <1>2, <1>3
  <2> QED BY <2>1, <2>2, <2>3 DEF WholeIn
<1>4. CASE k > Len(s)
  <2> DEFINE j == k - Len(s)
  <2>1. j \in DOMAIN t /\ u[k] = t[j] /\ j \in Nat
    BY <1>1, <1>2, <1>4
  <2>2. j > 1 => u[k - 1] = t[j - 1] /\ k > 1
    <3>1. j > 1 => /\ k - 1 \in 1 .. Len(s) + Len(t) /\ ~(k - 1 <= Len(s)) /\ k > 1
                   /\ (k - 1) - Len(s) = j - 1
      BY <1>1, <1>4
    <3> QED BY <1>2, <3>1
  <2>3. j < Len(t) => u[k + 1] = t[j + 1] /\ k < Len(u)
    <3>1. j < Len(t) => /\ k + 1 \in 1 .. Len(s) + Len(t) /\ ~(k + 1 <= Len(s)) /\ k < Len(u)
                        /\ (k + 1) - Len(s) = j + 1
      BY <1>1, <1>4
    <3> QED BY <1>2, <3>1
  <2> HIDE DEF j
  <2> QED BY <2>1, <2>2, <2>3 DEF WholeIn
<1> QED BY <1>1, <1>3, <1>4

LEMMA GroupIsWhole ==
    ASSUME NEW i \in Id
    PROVE  WholeIn(GroupFiles(i))
<1> DEFINE g == GroupFiles(i)
<1>1. g \in Seq(Name)
  BY GroupListed
<1> HIDE DEF g
<1>2. DOMAIN g = 1 .. Len(g)
  BY <1>1, LenProperties
<1>3. CASE fs[Start(i)] # Absent /\ fs[Finish(i)] # Absent
  <2>1. Len(g) = 2 /\ g[1] = Start(i) /\ g[2] = Finish(i)
    BY <1>3, GroupListed DEF g
  <2>2. \A k \in DOMAIN g : k = 1 \/ k = 2
    BY <1>2, <2>1
  <2>3. g[2 - 1] = Start(i) /\ g[1 + 1] = Finish(i)
    BY <2>1
  <2> QED BY <2>1, <2>2, <2>3, GroupNames DEF WholeIn, g
<1>4. CASE fs[Start(i)] # Absent /\ fs[Finish(i)] = Absent
  <2>1. Len(g) = 1 /\ g[1] = Start(i)
    BY <1>4, GroupListed DEF g
  <2>2. \A k \in DOMAIN g : k = 1
    BY <1>2, <2>1
  <2> QED BY <1>4, <2>1, <2>2, GroupNames DEF WholeIn, g
<1>5. CASE fs[Start(i)] = Absent /\ fs[Finish(i)] # Absent
  <2>1. Len(g) = 1 /\ g[1] = Finish(i)
    BY <1>5, GroupListed DEF g
  <2>2. \A k \in DOMAIN g : k = 1
    BY <1>2, <2>1
  <2> QED BY <1>5, <2>1, <2>2, GroupNames DEF WholeIn, g
<1>6. CASE fs[Start(i)] = Absent /\ fs[Finish(i)] = Absent
  <2>1. DOMAIN g = {}
    BY <1>2, <1>6, GroupListed DEF g
  <2> QED BY <2>1 DEF WholeIn, g
<1> QED BY <1>3, <1>4, <1>5, <1>6

LEMMA MembersApart ==
    ASSUME NEW D, NEW i, i \notin D
    PROVE  /\ Members(fs, D \cup {i}) = Members(fs, D) \cup Members(fs, {i})
           /\ Members(fs, {i}) \cap (Temporaries(fs) \cup Members(fs, D)) = {}
           /\ Members(fs, {i}) \subseteq Present(fs)
BY DEF Members, Temporaries, TempName, FinalName, Kinds

(* Taking a group that is still there keeps the totals true.               *)
LEMMA GroupGoes ==
    ASSUME LoopInv, Planning, NEW i \in Groups(fs), i \notin Dropped, RemoveGroup(i), fs' = fs
    PROVE  /\ remove' \in Seq(Name)
           /\ Gone' = Gone \cup Members(fs, {i})
           /\ Totals'
           /\ WholeGroupsInOrder'
<1> USE DEF LoopInv, LoopType
<1>1. i \in Id
  BY GroupsAreIds
<1>2. /\ remove \in Seq(Name) /\ GroupFiles(i) \in Seq(Name)
      /\ remove' = remove \o GroupFiles(i)
  BY <1>1, GroupListed DEF RemoveGroup
<1>3. remove' \in Seq(Name)
  BY <1>2, ConcatProperties
<1>4. Gone' = Gone \cup Members(fs, {i})
  <2>1. Listing(remove') = Listing(remove) \cup Listing(GroupFiles(i))
    BY <1>2, ListingOfBoth
  <2> QED BY <1>1, <2>1, GroupListing DEF Gone, Listing
<1>5. WholeGroupsInOrder'
  <2>1. WholeIn(remove)
    BY DEF WholeGroupsInOrder, WholeIn
  <2>2. WholeIn(remove \o GroupFiles(i))
    BY <1>1, <1>2, <2>1, GroupIsWhole, WholeTogether
  <2> QED BY <1>2, <2>2 DEF WholeGroupsInOrder, WholeIn
<1>6. Totals'
  <2> DEFINE L == Present(fs) \ Gone
             M == Members(fs, {i})
  <2>1. M \subseteq L /\ L \subseteq Present(fs)
    BY MembersApart DEF Progress
  <2>2. (Present(fs) \ Gone)' = L \ M
    BY <1>4 DEF Present
  <2>3. keptBytes = BytesOf(fs, L) /\ keptFiles = 1 + Cardinality(L)
    BY DEF Totals, FilesOf
  <2>4. keptBytes' = keptBytes - BytesOf(fs, M) /\ keptFiles' = keptFiles - Cardinality(M)
    BY DEF RemoveGroup
  <2> HIDE DEF L, M
  <2>5. /\ Weighed(fs, L) /\ IsFiniteSet(L) /\ IsFiniteSet(M)
        /\ BytesOf(fs, M) \in Nat /\ BytesOf(fs, L \ M) \in Nat
    BY <2>1, PresentIsFinite DEF Weighed
  <2>6. BytesOf(fs, L) = BytesOf(fs, M) + BytesOf(fs, L \ M)
    BY <2>1, <2>5, BytesApart
  <2>7. Cardinality(L \ M) = Cardinality(L) - Cardinality(M)
    <3>1. L \cap M = M
      BY <2>1
    <3> QED BY <2>5, <3>1, FS_Difference
  <2>8. Cardinality(L) \in Nat /\ Cardinality(M) \in Nat
    BY <2>5, FS_CardinalityType
  <2>9. keptBytes' = BytesOf(fs, L \ M) /\ keptFiles' = 1 + Cardinality(L \ M)
    BY <2>3, <2>4, <2>5, <2>6, <2>7, <2>8
  <2> QED BY <2>2, <2>9 DEF Totals, FilesOf
<1> QED BY <1>3, <1>4, <1>5, <1>6

-----------------------------------------------------------------------------
(* The invariant                                                           *)

LEMMA LoopInit == Init => LoopInv
<1> SUFFICES ASSUME Init PROVE LoopInv
  OBVIOUS
<1>1. LoopType
  BY InputAssumption DEF Init, LoopType
<1>2. Gone = {} /\ DOMAIN remove = {}
  BY DEF Init, Gone
<1>3. ~Planning /\ ~Admitted
  BY DEF Init, Planning, Admitted
<1>4. Progress
  BY <1>3 DEF Init, Progress
<1>5. Totals
  BY <1>2 DEF Init, Totals
<1>6. WholeGroupsInOrder
  BY <1>2 DEF WholeGroupsInOrder
<1> QED BY <1>1, <1>4, <1>5, <1>6 DEF LoopInv

LEMMA AdmitKeeps ==
    ASSUME LoopInv, Admit
    PROVE  LoopInv'
<1> USE DEF LoopInv, LoopType, Admit, inputs
<1>1. result = "pending" /\ ~Planning /\ remove = <<>> /\ remaining = {}
  BY DEF Progress, Planning
<1>2. Gone = {} /\ (Present(fs) \ Gone) = Present(fs)
  BY <1>1 DEF Gone
<1>3. keptBytes > ByteLimit \/ keptFiles > FileLimit <=> Overfull(fs)
  BY <1>2 DEF Totals, Overfull
<1>4. /\ Admission = "pending" => PlanRefusal(fs, now, req) \in {"Capacity", "none"}
      /\ Admission # "pending" => Admission = PlanRefusal(fs, now, req)
      /\ Admission \notin {"none", "granted", "Capacity"}
  BY <1>3 DEF Admission, PlanRefusal
<1>5. Progress'
  BY <1>1, <1>4 DEF Progress, Planning, Admitted
<1>6. Totals' /\ WholeGroupsInOrder'
  BY DEF Totals, WholeGroupsInOrder, Gone
<1> QED BY <1>5, <1>6

(* The staging files are no group's.                                       *)
LEMMA DropTemporariesKeeps ==
    ASSUME LoopInv, DropTemporaries
    PROVE  LoopInv'
<1> USE DEF LoopInv, LoopType, DropTemporaries, inputs
<1> DEFINE T == Temporaries(fs)
<1>1. result = "pending" /\ ~Planning /\ remove = <<>> /\ remaining = {}
  BY DEF Progress, Planning
<1>2. Gone = {} /\ (Present(fs) \ Gone) = Present(fs)
  BY <1>1 DEF Gone
<1>3. T \subseteq Present(fs) /\ T \subseteq Name /\ \A n \in T : n.kind = "tmp"
  BY DEF Temporaries, TempName, Present
<1>4. IsFiniteSet(T) /\ Cardinality(T) \in Nat
  BY <1>3, PresentIsFinite, FS_Subset, FS_CardinalityType
<1>5. PICK order \in [1 .. Cardinality(T) -> T] :
         {order[k] : k \in DOMAIN order} = T /\ remove' = order
  OBVIOUS
<1>6. remove' \in Seq(Name)
  <2>1. remove' \in [1 .. Cardinality(T) -> Name]
    BY <1>3, <1>5
  <2> HIDE DEF T
  <2> QED BY <1>4, <2>1, SeqDef
<1>7. Gone' = T
  BY <1>5 DEF Gone
<1>8. Totals'
  <2> DEFINE P == Present(fs)
  <2>1. (Present(fs) \ Gone)' = P \ T
    BY <1>7 DEF Present
  <2>2. /\ keptBytes' = BytesOf(fs, P) - BytesOf(fs, T)
        /\ keptFiles' = (1 + Cardinality(P)) - Cardinality(T)
    BY <1>2 DEF Totals, FilesOf
  <2>3. Weighed(fs, P) /\ IsFiniteSet(P) /\ Cardinality(P) \in Nat
    BY PresentIsFinite
  <2>4. BytesOf(fs, T) \in Nat /\ BytesOf(fs, P \ T) \in Nat
    BY <1>3, PresentIsFinite
  <2> HIDE DEF P, T
  <2>5. T \subseteq P
    BY <1>3 DEF P, T
  <2>6. BytesOf(fs, P) = BytesOf(fs, T) + BytesOf(fs, P \ T)
    BY <2>3, <2>5, BytesApart
  <2>7. Cardinality(P \ T) = Cardinality(P) - Cardinality(T)
    <3>1. P \cap T = T
      BY <2>5
    <3> QED BY <1>4, <2>3, <3>1, FS_Difference
  <2>8. keptBytes' = BytesOf(fs, P \ T) /\ keptFiles' = 1 + Cardinality(P \ T)
    BY <1>4, <2>2, <2>3, <2>4, <2>6, <2>7
  <2> QED BY <2>1, <2>8 DEF Totals, FilesOf
<1>9. WholeGroupsInOrder'
  <2>1. \A k \in DOMAIN remove' : remove'[k].kind = "tmp"
    BY <1>3, <1>5
  <2> QED BY <2>1 DEF WholeGroupsInOrder
<1>10. Dropped' = {} /\ Members(fs, {}) = {}
  BY GroupsAreIds DEF Dropped, Members, Candidates
<1>11. Progress'
  <2>1. (Candidates(fs, req) \ unseen') \ MustGo(fs, now, req) = {}
    BY GroupsAreIds
  <2>2. Planning' /\ Admitted' /\ Admitted
    BY DEF Planning, Admitted
  <2> QED BY <1>1, <1>7, <1>10, <2>1, <2>2 DEF Progress
<1> QED BY <1>6, <1>8, <1>9, <1>11

LEMMA NextIsFirst ==
    ASSUME fs \in Partition, NEW S \in SUBSET Id, S # {}
    PROVE  /\ NextGroup(S) \in S
           /\ \A j \in S \ {NextGroup(S)} : EvictedBefore(fs, NextGroup(S), j)
<1> DEFINE First(i) == \A j \in S \ {i} : EvictedBefore(fs, i, j)
<1>1. \E i \in S : First(i)
  BY EvictionFirst
<1>2. NextGroup(S) = CHOOSE i \in S : First(i)
  BY DEF NextGroup
<1> HIDE DEF First
<1>3. NextGroup(S) \in S /\ First(NextGroup(S))
  BY <1>1, <1>2
<1> QED BY <1>3 DEF First

(* The first pass takes what must go and sets the rest aside.              *)
LEMMA AgeStepKeeps ==
    ASSUME LoopInv, AgeStep
    PROVE  LoopInv'
<1> USE DEF LoopInv, LoopType
<1> DEFINE C == Candidates(fs, req)
           M == MustGo(fs, now, req)
           i == NextGroup(unseen)
<1>1. stage = "age" /\ unseen # {} /\ UNCHANGED <<fs, now, req, stage, result>>
  BY DEF AgeStep, inputs
<1>2. i \in unseen /\ i \in Groups(fs) /\ i \in Id
  BY <1>1, GroupsAreIds, NextIsFirst
<1>3. unseen' = unseen \ {i}
  BY DEF AgeStep
<1>4. Planning /\ Admitted /\ i \notin Dropped
  BY <1>1, <1>2 DEF Planning, Admitted, Dropped
<1>5. remaining = (C \ unseen) \ M /\ Gone = Temporaries(fs) \cup Members(fs, Dropped)
  BY <1>1, <1>4 DEF Progress
<1>6. i \in C <=> ~IsOwn(i)
  BY <1>2 DEF Candidates, IsOwn
<1>7. ASSUME /\ UNCHANGED <<remove, keptBytes, keptFiles>>
             /\ remaining' = (C \ unseen') \ M
             /\ Dropped' = Dropped
      PROVE  LoopInv'
  <2>1. Totals' /\ WholeGroupsInOrder' /\ Gone' = Gone
    BY <1>1, <1>7 DEF Totals, WholeGroupsInOrder, Gone
  <2>2. Progress'
    BY <1>1, <1>4, <1>5, <1>7, <2>1 DEF Progress, Planning, Admitted
  <2>3. LoopType'
    BY <1>1, <1>3, <1>7
  <2> QED BY <2>1, <2>2, <2>3
<1>8. CASE IsOwn(i) /\ UNCHANGED <<remaining, remove, keptBytes, keptFiles>>
  <2>1. C \ unseen' = C \ unseen /\ Dropped' = Dropped
    BY <1>1, <1>3, <1>6, <1>8 DEF Dropped
  <2> QED BY <1>5, <1>7, <1>8, <2>1
<1>9. CASE /\ ~IsOwn(i) /\ req.op # "all" /\ ~Expired(fs, now, i)
           /\ remaining' = remaining \cup {i}
           /\ UNCHANGED <<remove, keptBytes, keptFiles>>
  <2>1. i \in C /\ i \notin M
    BY <1>6, <1>9 DEF MustGo
  <2> HIDE DEF C, M, i
  <2>2. remaining' = (C \ unseen') \ M
    BY <1>2, <1>3, <1>5, <1>9, <2>1
  <2>3. Dropped' = Dropped
    <3>1. unseen' \cup remaining' = unseen \cup remaining
      BY <1>2, <1>3, <1>9
    <3> QED BY <1>1, <3>1 DEF Dropped
  <2> QED BY <1>7, <1>9, <2>2, <2>3
<1>10. CASE /\ ~IsOwn(i) /\ (req.op = "all" \/ Expired(fs, now, i))
            /\ RemoveGroup(i)
            /\ UNCHANGED remaining
  <2>1. i \in C /\ i \in M
    BY <1>2, <1>6, <1>10 DEF MustGo
  <2>2. remove' \in Seq(Name) /\ Gone' = Gone \cup Members(fs, {i}) /\ Totals' /\ WholeGroupsInOrder'
    <3> HIDE DEF i
    <3> QED BY <1>1, <1>2, <1>4, <1>10, GroupGoes
  <2>3. Dropped' = Dropped \cup {i}
    <3>1. i \notin remaining
      BY <1>2, <1>5
    <3>2. Dropped' = C \ (unseen' \cup remaining') /\ Dropped = C \ (unseen \cup remaining)
      BY <1>1 DEF Dropped
    <3>3. remaining' = remaining
      BY <1>10
    <3> HIDE DEF C, i, M
    <3> QED BY <1>2, <1>3, <2>1, <3>1, <3>2, <3>3
  <2>4. remaining' = (C \ unseen') \ M
    <3> HIDE DEF C, M, i
    <3> QED BY <1>2, <1>3, <1>5, <1>10, <2>1
  <2>5. Gone' = Temporaries(fs) \cup Members(fs, Dropped \cup {i})
    <3> HIDE DEF i
    <3>1. Members(fs, Dropped \cup {i}) = Members(fs, Dropped) \cup Members(fs, {i})
      BY <1>4, MembersApart
    <3> QED BY <1>5, <1>4, <2>2, <3>1
  <2>6. Progress'
    BY <1>1, <1>4, <2>3, <2>4, <2>5 DEF Progress, Planning, Admitted
  <2>7. LoopType'
    BY <1>1, <1>3, <1>10, <2>2
  <2> QED BY <2>2, <2>6, <2>7
<1> QED BY <1>8, <1>9, <1>10 DEF AgeStep

(* What must go is itself an eviction in key order: a group evicted before *)
(* an expired one is older still.                                          *)
LEMMA MustGoFirst ==
    ASSUME fs \in Partition, now \in Time \cup {NoTime}, req \in Request
    PROVE  MustGo(fs, now, req) \in Prefixes(fs, now, req)
<1> DEFINE C == Candidates(fs, req)
           M == MustGo(fs, now, req)
<1>1. M \subseteq C
  BY DEF MustGo, Candidates
<1>2. ASSUME NEW i \in M, NEW j \in C, EvictedBefore(fs, j, i) PROVE j \in M
  <2>1. CASE req.op = "all"
    BY <2>1, GroupsAreIds DEF MustGo
  <2>2. CASE req.op # "all"
    <3>1. i \in Id /\ j \in Id
      BY <1>1, GroupsAreIds
    <3>2. KnownCoverage(fs, i) /\ now \in Nat /\ now - LastTime(fs, i) >= Lifetime /\ now # NoTime
      BY <2>2 DEF MustGo, Expired, Time
    <3>3. KnownCoverage(fs, j) /\ LastTime(fs, j) <= LastTime(fs, i)
      <4>1. /\ KnownCoverage(fs, i) => LastTime(fs, i) \in Nat
            /\ KnownCoverage(fs, j) => LastTime(fs, j) \in Nat
        BY <3>1, GroupNumbers
      <4> QED BY <1>2, <3>2, <4>1 DEF EvictedBefore
    <3>4. LastTime(fs, i) \in Nat /\ LastTime(fs, j) \in Nat
      BY <3>1, <3>2, <3>3, GroupNumbers
    <3>5. now - LastTime(fs, j) >= Lifetime
      BY <3>2, <3>3, <3>4, LimitAssumption
    <3> QED BY <2>2, <3>2, <3>3, <3>5 DEF MustGo, Expired
  <2> QED BY <2>1, <2>2
<1> HIDE DEF C, M
<1>3. M \in SUBSET C /\ M \subseteq M /\ \A i \in M, j \in C : EvictedBefore(fs, j, i) => j \in M
  BY <1>1, <1>2
<1> QED BY <1>3 DEF Prefixes, C, M

LEMMA AgeDoneKeeps ==
    ASSUME LoopInv, AgeDone
    PROVE  LoopInv'
<1> USE DEF LoopInv, LoopType
<1>1. /\ stage = "age" /\ unseen = {} /\ stage' = "quota" /\ result = "pending"
      /\ UNCHANGED <<fs, now, req, unseen, remaining, remove, keptBytes, keptFiles, result>>
  BY DEF AgeDone, inputs, Progress
<1>2. MustGo(fs, now, req) \in Prefixes(fs, now, req)
  BY MustGoFirst
<1>3. MustGo(fs, now, req) \subseteq Candidates(fs, req)
  BY DEF MustGo, Candidates
<1>4. Dropped = MustGo(fs, now, req)
  BY <1>1, <1>3 DEF Dropped, Progress
<1>5. \A E \in Prefixes(fs, now, req) : E \subseteq Dropped => E = Dropped
  BY <1>4 DEF Prefixes
<1>6. Dropped' = Dropped /\ Gone' = Gone
  BY <1>1 DEF Dropped, Gone
<1>7. Progress'
  BY <1>1, <1>2, <1>4, <1>5, <1>6 DEF Progress, Planning, Admitted
<1>8. Totals' /\ WholeGroupsInOrder'
  BY <1>1 DEF Totals, WholeGroupsInOrder, Gone
<1> QED BY <1>1, <1>7, <1>8

LEMMA RoomIsFit ==
    ASSUME LoopInv, Planning
    PROVE  RoomNow <=> Fits(fs, KeptAfter(fs, Dropped), req)
<1>1. Present(fs) \ Gone = KeptAfter(fs, Dropped)
  BY KeptIsTheRest DEF LoopInv, Progress
<1> QED BY <1>1 DEF LoopInv, Totals, RoomNow, Fits

(* The second pass goes one group further down the order of eviction, and  *)
(* only because what was removed did not make room.                        *)
LEMMA QuotaStepKeeps ==
    ASSUME LoopInv, QuotaStep
    PROVE  LoopInv'
<1> USE DEF LoopInv, LoopType
<1> DEFINE C == Candidates(fs, req)
           P == Prefixes(fs, now, req)
           n == NextGroup(remaining)
           D == Dropped
<1>1. /\ stage = "quota" /\ remaining # {} /\ ~RoomNow /\ result = "pending"
      /\ UNCHANGED <<fs, now, req, stage, unseen, result>>
      /\ RemoveGroup(n) /\ remaining' = remaining \ {n}
  BY DEF QuotaStep, inputs, Progress
<1>2. Planning /\ Admitted
  BY <1>1 DEF Planning, Admitted
<1>3. /\ unseen = {} /\ D \in P /\ Gone = Temporaries(fs) \cup Members(fs, D)
      /\ \A E \in P : E \subseteq D /\ E # D => ~Fits(fs, KeptAfter(fs, E), req)
  BY <1>1, <1>2 DEF Progress
<1>4. C \subseteq Id /\ C \subseteq Groups(fs)
  BY GroupsAreIds
<1>5. n \in remaining /\ \A j \in remaining \ {n} : EvictedBefore(fs, n, j)
  BY <1>1, <1>4, NextIsFirst
<1>6. n \in C /\ n \in Id /\ n \in Groups(fs) /\ n \notin D
  BY <1>4, <1>5 DEF Dropped
<1>7. D = C \ remaining
  BY <1>3 DEF Dropped
<1>8. Dropped' = D \cup {n}
  <2>1. Dropped' = C \ (unseen' \cup remaining')
    BY <1>1 DEF Dropped
  <2> HIDE DEF C, D, n
  <2> QED BY <1>1, <1>3, <1>6, <1>7, <2>1
<1>9. D \cup {n} \in P
  <2>1. ASSUME NEW j \in C, EvictedBefore(fs, j, n) PROVE j \in D
    <3>1. ~EvictedBefore(fs, n, j) /\ j # n
      BY <1>4, <1>6, <2>1, EvictionOrder
    <3> QED BY <1>5, <1>7, <3>1
  <2>2. /\ D \in SUBSET C /\ MustGo(fs, now, req) \subseteq D
        /\ \A i \in D, j \in C : EvictedBefore(fs, j, i) => j \in D
    BY <1>3 DEF Prefixes
  <2> HIDE DEF C, D, n
  <2>3. /\ D \cup {n} \in SUBSET C /\ MustGo(fs, now, req) \subseteq D \cup {n}
        /\ \A i \in D \cup {n}, j \in C : EvictedBefore(fs, j, i) => j \in D \cup {n}
    BY <1>6, <2>1, <2>2
  <2> QED BY <2>3 DEF Prefixes, C
<1>10. ASSUME NEW E \in P, E \subseteq D \cup {n}, E # D \cup {n}
       PROVE  ~Fits(fs, KeptAfter(fs, E), req)
  <2>1. ~Fits(fs, KeptAfter(fs, D), req)
    BY <1>1, <1>2, RoomIsFit
  <2>2. D \subseteq E \/ E \subseteq D
    BY <1>3, PrefixesNest
  <2> HIDE DEF D, n, P
  <2> QED BY <1>3, <1>10, <2>1, <2>2
<1>11. /\ remove' \in Seq(Name) /\ Gone' = Gone \cup Members(fs, {n})
       /\ Totals' /\ WholeGroupsInOrder'
  <2> HIDE DEF n
  <2> QED BY <1>1, <1>2, <1>6, GroupGoes DEF D
<1>12. Gone' = Temporaries(fs) \cup Members(fs, D \cup {n})
  <2> HIDE DEF n, D
  <2>1. Members(fs, D \cup {n}) = Members(fs, D) \cup Members(fs, {n})
    BY <1>6, MembersApart
  <2> QED BY <1>3, <1>11, <2>1
<1>13. Progress'
  <2>1. P' = P
    BY <1>1
  <2>2. Planning' /\ Admitted'
    BY <1>1 DEF Planning, Admitted
  <2>3. PlanRefusal(fs, now, req) \in {"Capacity", "none"}
    BY <1>2 DEF Progress
  <2> HIDE DEF n, D
  <2> QED BY <1>1, <1>2, <1>3, <1>8, <1>9, <1>10, <1>12, <2>2, <2>3 DEF Progress
<1>14. LoopType'
  BY <1>1, <1>11
<1> QED BY <1>11, <1>13, <1>14

LEMMA ConcludeKeeps ==
    ASSUME LoopInv, Conclude
    PROVE  LoopInv'
<1> USE DEF LoopInv, LoopType
<1>1. /\ stage = "quota" /\ stage' = "done" /\ result = "pending"
      /\ remaining = {} \/ RoomNow
      /\ result' = IF RoomNow THEN "granted" ELSE "Capacity"
      /\ UNCHANGED <<fs, now, req, unseen, remaining, remove, keptBytes, keptFiles>>
  BY DEF Conclude, inputs, Progress
<1>2. Planning /\ Admitted /\ Planning' /\ Admitted'
  BY <1>1 DEF Planning, Admitted
<1>3. Dropped' = Dropped /\ Gone' = Gone /\ (RoomNow <=> RoomNow')
  BY <1>1 DEF Dropped, Gone, RoomNow
<1>4. Progress'
  BY <1>1, <1>2, <1>3 DEF Progress
<1>5. Totals' /\ WholeGroupsInOrder'
  BY <1>1 DEF Totals, WholeGroupsInOrder, Gone
<1> QED BY <1>1, <1>4, <1>5

LEMMA LoopStep == LoopInv /\ [Next]_vars => LoopInv'
<1> SUFFICES ASSUME LoopInv, [Next]_vars PROVE LoopInv'
  OBVIOUS
<1>1. CASE UNCHANGED vars
  BY <1>1 DEF vars, LoopInv, LoopType, Progress, Totals, WholeGroupsInOrder, Gone,
     Dropped, Admitted, Planning, RoomNow
<1> QED BY <1>1, AdmitKeeps, DropTemporariesKeeps, AgeStepKeeps, AgeDoneKeeps,
           QuotaStepKeeps, ConcludeKeeps DEF Next

-----------------------------------------------------------------------------
(* What it comes to                                                        *)

LEMMA PlanComputed == LoopInv => LoopComputesThePlan
<1> SUFFICES ASSUME LoopInv PROVE LoopComputesThePlan
  OBVIOUS
<1> USE DEF LoopInv, LoopType
<1> DEFINE P == Prefixes(fs, now, req)
           S == Sufficient(fs, now, req)
           D == Dropped
           Refusal == PlanRefusal(fs, now, req)
<1>1. TotalsDescribeTheRest
  BY DEF TotalsDescribeTheRest, Totals, Progress, RoomNow, Fits, Gone
<1>2. CASE stage = "done" /\ result = "granted"
  <2>1. Planning /\ Admitted
    BY <1>2 DEF Planning, Admitted
  <2>2. D \in P /\ Fits(fs, KeptAfter(fs, D), req)
    BY <1>2, <2>1, RoomIsFit DEF Progress
  <2>3. D \in S
    BY <2>2 DEF Sufficient
  <2>4. ASSUME NEW E \in S PROVE D \subseteq E
    <3>1. E \in P /\ Fits(fs, KeptAfter(fs, E), req)
      BY DEF Sufficient
    <3>2. D \subseteq E \/ E \subseteq D
      BY <2>2, <3>1, PrefixesNest
    <3>3. E \subseteq D /\ E # D => ~Fits(fs, KeptAfter(fs, E), req)
      BY <1>2, <2>1, <3>1 DEF Progress
    <3> HIDE DEF D
    <3> QED BY <3>1, <3>2, <3>3
  <2>5. D \subseteq Candidates(fs, req)
    BY DEF Dropped
  <2>6. Evicted(fs, now, req) = D
    <3> HIDE DEF D, S
    <3>1. Evicted(fs, now, req) = {i \in Candidates(fs, req) : \A E \in S : i \in E}
      BY DEF Evicted, S
    <3> QED BY <2>3, <2>4, <2>5, <3>1
  <2>7. Gone = Removals(fs, now, req)
    BY <2>1, <2>6 DEF Progress, Removals
  <2>8. Refusal = "none"
    <3>1. Refusal \in {"Capacity", "none"}
      BY <2>1 DEF Progress
    <3>2. S # {}
      BY <2>3
    <3> QED BY <3>1, <3>2 DEF PlanRefusal
  <2> QED BY <1>1, <1>2, <2>7, <2>8 DEF LoopComputesThePlan, Gone
<1>3. CASE stage = "done" /\ result = "Capacity"
  <2>1. Planning /\ Admitted
    BY <1>3 DEF Planning, Admitted
  <2>2. D = Candidates(fs, req) /\ D \in P /\ ~Fits(fs, KeptAfter(fs, D), req)
    BY <1>3, <2>1, RoomIsFit DEF Progress, Dropped
  <2>3. ASSUME NEW E \in P PROVE ~Fits(fs, KeptAfter(fs, E), req)
    <3>1. E \subseteq D
      BY <2>2 DEF Prefixes
    <3>2. E \subseteq D /\ E # D => ~Fits(fs, KeptAfter(fs, E), req)
      BY <1>3, <2>1 DEF Progress
    <3> HIDE DEF D
    <3> QED BY <2>2, <3>1, <3>2
  <2>4. S = {}
    BY <2>3 DEF Sufficient
  <2>5. Refusal = "Capacity"
    <3>1. Refusal \in {"Capacity", "none"}
      BY <2>1 DEF Progress
    <3> QED BY <2>4, <3>1 DEF PlanRefusal
  <2> QED BY <1>1, <1>3, <2>5 DEF LoopComputesThePlan
<1>4. CASE stage = "done" /\ result \notin {"granted", "Capacity"}
  <2>1. ~Admitted
    BY <1>4 DEF Admitted
  <2> QED BY <1>1, <1>4, <2>1 DEF LoopComputesThePlan, Progress
<1>5. CASE stage # "done"
  BY <1>1, <1>5 DEF LoopComputesThePlan
<1> QED BY <1>2, <1>3, <1>4, <1>5

(* The planning loop of RecordSet::plan computes the plan, whatever the    *)
(* partition, the clock, the request and the limits: what it removes is    *)
(* exactly the shortest eviction in key order that makes room, in whole    *)
(* groups; its running totals describe what is left at every step; and it  *)
(* refuses exactly when the specification does, with the same error.       *)
THEOREM LoopIsThePlan == Spec => []LoopComputesThePlan
<1> QED BY LoopInit, LoopStep, PlanComputed, PTL DEF Spec

=============================================================================
