--------------------------- MODULE ContentProofs ---------------------------
(***************************************************************************)
(* Proofs about Content, for any number of handlers, rows, names and       *)
(* files: no row outlives its parent, a cascade is what the joins of       *)
(* search and counts say, a page shows what stayed, an import skips what   *)
(* it has read.                                                            *)
(***************************************************************************)
EXTENDS Content, SequenceTheorems, FiniteSetTheorems, TLAPS

\* The tables, without what the handlers hold.
RowsOK ==
    /\ nid \in Nat
    /\ rows \in [Id -> Row \cup {Nil}]
    /\ \A i \in Id : rows[i] # Nil => i <= nid

TreeInv == RowsOK /\ NoOrphans

\* How deep a kind of row is: a row is deeper than its parent.
Rank(k) == CASE k = "project" -> 1
             [] k = "environment" -> 2
             [] k = "folder" -> 3
             [] k = "secret" -> 4
             [] OTHER -> 5

\* Nil is neither an id nor a row, and a row has its four columns.
LEMMA NilIsNothing ==
    /\ Nil \notin Id /\ Nil \notin Row
    /\ \A x \in Row : x.kind \in Kind /\ x.parent \in Id \cup {Nil}
BY ContentAssumption DEF Id, Row

\* A row that is not a project has a parent that is a row, of smaller rank.
LEMMA ParentAbove ==
    ASSUME TreeInv, NEW j \in Existing, rows[j].parent # Nil
    PROVE  /\ rows[j].parent \in Existing
           /\ Rank(rows[j].kind) > Rank(rows[rows[j].parent].kind)
           /\ Rank(rows[rows[j].parent].kind) \in 1 .. 4
<1>1. j \in Id /\ rows[j] # Nil /\ rows[j] \in Row
    BY DEF Existing, TreeInv, RowsOK
<1>2. rows[j].kind \in Kind /\ rows[j].parent \in Id
    BY <1>1, NilIsNothing
<1>3. ParentOK(rows[j].kind, rows[j].parent)
    BY DEF TreeInv, NoOrphans
<1>4. PICK k2 \in Parents(rows[j].kind) : Is(rows[j].parent, k2)
    BY <1>3 DEF ParentOK
<1>5. rows[j].parent \in Existing /\ rows[rows[j].parent].kind = k2
    BY <1>2, <1>4 DEF Is, Existing
<1>6. Rank(rows[j].kind) > Rank(k2) /\ Rank(k2) \in 1 .. 4
    BY <1>2, <1>4 DEF Parents, Rank, Kind
<1> QED BY <1>5, <1>6

\* One level of a cascade: what it adds to S is deeper than what was new in S.
LEMMA Deeper ==
    ASSUME TreeInv, NEW S, S \subseteq Existing, NEW T, WithKids(T) \subseteq S,
           NEW n \in Nat, NEW m \in Nat, m = n + 1,
           \A j \in S : j \in T \/ Rank(rows[j].kind) >= n
    PROVE  /\ WithKids(S) \subseteq Existing
           /\ \A j \in WithKids(S) : j \in S \/ Rank(rows[j].kind) >= m
<1>1. WithKids(S) \subseteq Existing
    BY DEF WithKids
<1>2. ASSUME NEW j \in WithKids(S), j \notin S
      PROVE  Rank(rows[j].kind) >= m
  <2>1. j \in Existing /\ rows[j].parent \in S
    BY <1>2 DEF WithKids
  <2>2. rows[j].parent # Nil
    BY <2>1, NilIsNothing DEF Existing
  <2>3. Rank(rows[rows[j].parent].kind) >= n
    BY <1>2, <2>1 DEF WithKids
  <2> QED BY <2>1, <2>2, <2>3, ParentAbove DEF Rank
<1> QED BY <1>1, <1>2

\* A cascade takes along every child of what it takes: after four levels only rows
\* of the deepest kind are new, and those have no children.
LEMMA CascadeClosed ==
    ASSUME TreeInv, NEW i \in Existing, NEW j \in Existing, rows[j].parent \in Cascade(i)
    PROVE  j \in Cascade(i)
<1> DEFINE C0 == {i}
           C1 == WithKids(C0)
           C2 == WithKids(C1)
           C3 == WithKids(C2)
           C4 == WithKids(C3)
<1>1. Cascade(i) = C4
    BY DEF Cascade
<1>2. C0 \subseteq Existing /\ WithKids({}) \subseteq C0 /\ \A x \in C0 : x \in {} \/ Rank(rows[x].kind) >= 1
    BY DEF Rank, WithKids
<1>3. WithKids(C0) = C1 /\ WithKids(C1) = C2 /\ WithKids(C2) = C3 /\ WithKids(C3) = C4
    OBVIOUS
<1> HIDE DEF C0, C1, C2, C3, C4
<1>4. C1 \subseteq Existing /\ \A x \in C1 : x \in C0 \/ Rank(rows[x].kind) >= 2
    BY <1>2, <1>3, Deeper
<1>5. C2 \subseteq Existing /\ \A x \in C2 : x \in C1 \/ Rank(rows[x].kind) >= 3
    BY <1>3, <1>4, Deeper
<1>6. C3 \subseteq Existing /\ \A x \in C3 : x \in C2 \/ Rank(rows[x].kind) >= 4
    BY <1>3, <1>5, Deeper
<1>7. C4 \subseteq Existing /\ \A x \in C4 : x \in C3 \/ Rank(rows[x].kind) >= 5
    BY <1>3, <1>6, Deeper
<1>8. rows[j].parent # Nil
    BY <1>1, <1>7, NilIsNothing DEF Existing
<1>9. ~(Rank(rows[rows[j].parent].kind) >= 5)
    BY <1>8, ParentAbove
<1>10. rows[j].parent \in C3
    BY <1>1, <1>7, <1>9
<1> QED BY <1>1, <1>3, <1>10 DEF WithKids

---------------------------------------------------------------------------
\* What a row's cascade reaches, seen from below: the row itself, or what has the
\* row among its ancestors.

\* A set that has the parents of its rows has every row whose cascade meets it.
LEMMA MeetsBelow ==
    ASSUME NEW A, \A j \in A \cap Existing : rows[j].parent \in A \cup {Nil},
           NEW S, Nil \notin S, WithKids(S) \cap A # {}
    PROVE  S \cap A # {}
BY DEF WithKids

LEMMA CascadeUp ==
    ASSUME NEW A, \A j \in A \cap Existing : rows[j].parent \in A \cup {Nil},
           NEW i \in Existing, Cascade(i) \cap A # {}
    PROVE  i \in A
<1> DEFINE C0 == {i}
           C1 == WithKids(C0)
           C2 == WithKids(C1)
           C3 == WithKids(C2)
<1>1. Cascade(i) = WithKids(C3)
    BY DEF Cascade
<1>2. Nil \notin Existing
    BY NilIsNothing DEF Existing
<1>3. Nil \notin C0 /\ Nil \notin C1 /\ Nil \notin C2 /\ Nil \notin C3
    BY <1>2 DEF WithKids
<1>4. WithKids(C0) = C1 /\ WithKids(C1) = C2 /\ WithKids(C2) = C3
    OBVIOUS
<1> HIDE DEF C1, C2, C3
<1>5. C3 \cap A # {}
    BY <1>1, <1>3, MeetsBelow
<1>6. C2 \cap A # {}
    BY <1>3, <1>4, <1>5, MeetsBelow
<1>7. C1 \cap A # {}
    BY <1>3, <1>4, <1>6, MeetsBelow
<1>8. C0 \cap A # {}
    BY <1>3, <1>4, <1>7, MeetsBelow
<1> QED BY <1>8

\* A cascade begins with its row.
LEMMA CascadeSelf == \A i : i \in Cascade(i)
BY DEF Cascade, WithKids

\* The parent of a row, by the row's kind.
LEMMA ParentByKind ==
    ASSUME TreeInv, NEW j \in Existing
    PROVE  /\ rows[j].kind \in Kind
           /\ Is(j, "project") => rows[j].parent = Nil
           /\ Is(j, "environment") => Is(rows[j].parent, "project") /\ rows[j].parent \in Existing
           /\ Is(j, "folder") => Is(rows[j].parent, "environment") /\ rows[j].parent \in Existing
           /\ Is(j, "secret") => /\ Is(rows[j].parent, "folder") \/ Is(rows[j].parent, "environment")
                                 /\ rows[j].parent \in Existing
           /\ Is(j, "attachment") => Is(rows[j].parent, "secret") /\ rows[j].parent \in Existing
<1>1. j \in Id /\ rows[j] \in Row /\ rows[j] # Nil
    BY DEF Existing, TreeInv, RowsOK
<1>2. rows[j].kind \in Kind /\ rows[j].parent \in Id \cup {Nil}
    BY <1>1, NilIsNothing
<1>3. ParentOK(rows[j].kind, rows[j].parent)
    BY DEF TreeInv, NoOrphans
<1>4. \A k2 : Is(rows[j].parent, k2) => rows[j].parent \in Existing
    BY <1>2 DEF Is, Existing
<1> QED BY <1>2, <1>3, <1>4 DEF ParentOK, Parents, Is

\* The environment of a secret and its project are there.
LEMMA EnvOfSecret ==
    ASSUME TreeInv, NEW s \in All("secret")
    PROVE  /\ s \in Existing /\ rows[s].parent \in Existing
           /\ Is(EnvOf(s), "environment") /\ EnvOf(s) \in Existing
           /\ Is(rows[EnvOf(s)].parent, "project") /\ rows[EnvOf(s)].parent \in Existing
           /\ rows[rows[EnvOf(s)].parent].parent = Nil
           /\ Is(rows[s].parent, "folder") => rows[rows[s].parent].parent = EnvOf(s)
           /\ ~Is(rows[s].parent, "folder") => rows[s].parent = EnvOf(s)
<1>1. s \in Existing /\ Is(s, "secret")
    BY DEF All, Is, Existing
<1>2. rows[s].parent \in Existing /\ (Is(rows[s].parent, "folder") \/ Is(rows[s].parent, "environment"))
    BY <1>1, ParentByKind
<1>3. Is(EnvOf(s), "environment") /\ EnvOf(s) \in Existing
    BY <1>2, ParentByKind DEF EnvOf
<1>4. Is(rows[EnvOf(s)].parent, "project") /\ rows[EnvOf(s)].parent \in Existing
    BY <1>3, ParentByKind
<1>5. rows[rows[EnvOf(s)].parent].parent = Nil
    BY <1>4, ParentByKind
<1> QED BY <1>1, <1>2, <1>3, <1>4, <1>5 DEF EnvOf

\* A row takes a secret along exactly if it is on the secret's path.
LEMMA PathIsCascade ==
    ASSUME TreeInv, NEW s \in All("secret")
    PROVE  /\ Path(s) \subseteq Existing
           /\ \A i \in Existing : s \in Cascade(i) <=> i \in Path(s)
<1>1. Path(s) \subseteq Existing
    BY EnvOfSecret DEF Path
<1>2. \A j \in Path(s) : rows[j].parent \in Path(s) \cup {Nil}
    BY EnvOfSecret DEF Path
<1>3. ASSUME NEW i \in Existing, s \in Cascade(i) PROVE i \in Path(s)
  <2>1. s \in Path(s)
    BY DEF Path
  <2> QED BY <1>2, <1>3, <2>1, CascadeUp
<1>4. ASSUME NEW i \in Path(s) PROVE s \in Cascade(i)
  <2>1. /\ i \in Existing /\ i \in Cascade(i)
        /\ \A j \in Existing : rows[j].parent \in Cascade(i) => j \in Cascade(i)
    BY <1>1, CascadeSelf, CascadeClosed
  <2>2. i = s \/ i = rows[s].parent \/ i = EnvOf(s) \/ i = rows[EnvOf(s)].parent
    BY DEF Path
  <2> QED BY <2>1, <2>2, EnvOfSecret
<1> QED BY <1>1, <1>3, <1>4

\* The same for a folder and an environment.
LEMMA FolderInCascade ==
    ASSUME TreeInv, NEW f \in All("folder"), NEW i \in Existing
    PROVE  f \in Cascade(i) <=> i \in {f, rows[f].parent, rows[rows[f].parent].parent}
<1> DEFINE e == rows[f].parent
           p == rows[e].parent
<1>1. f \in Existing /\ Is(f, "folder")
    BY DEF All, Is, Existing
<1>2. Is(e, "environment") /\ e \in Existing
    BY <1>1, ParentByKind
<1>3. Is(p, "project") /\ p \in Existing
    BY <1>2, ParentByKind
<1>4. rows[p].parent = Nil
    BY <1>3, ParentByKind
<1>5. rows[f].parent = e /\ rows[e].parent = p
    OBVIOUS
<1> HIDE DEF e, p
<1>6. \A j \in {f, e, p} : rows[j].parent \in {f, e, p} \cup {Nil}
    BY <1>4, <1>5
<1>7. f \in Cascade(i) => i \in {f, e, p}
    BY <1>6, CascadeUp
<1>8. i \in Cascade(i) /\ \A j \in Existing : rows[j].parent \in Cascade(i) => j \in Cascade(i)
    BY CascadeSelf, CascadeClosed
<1>9. i \in {f, e, p} => f \in Cascade(i)
    BY <1>1, <1>2, <1>3, <1>5, <1>8
<1> QED BY <1>5, <1>7, <1>9

LEMMA EnvironmentInCascade ==
    ASSUME TreeInv, NEW e \in All("environment"), NEW i \in Existing
    PROVE  e \in Cascade(i) <=> i \in {e, rows[e].parent}
<1> DEFINE p == rows[e].parent
<1>1. e \in Existing /\ Is(e, "environment")
    BY DEF All, Is, Existing
<1>2. Is(p, "project") /\ p \in Existing
    BY <1>1, ParentByKind
<1>3. rows[p].parent = Nil
    BY <1>2, ParentByKind
<1>4. rows[e].parent = p
    OBVIOUS
<1> HIDE DEF p
<1>5. \A j \in {e, p} : rows[j].parent \in {e, p} \cup {Nil}
    BY <1>3, <1>4
<1>6. e \in Cascade(i) => i \in {e, p}
    BY <1>5, CascadeUp
<1>7. i \in Cascade(i) /\ \A j \in Existing : rows[j].parent \in Cascade(i) => j \in Cascade(i)
    BY CascadeSelf, CascadeClosed
<1> QED BY <1>1, <1>2, <1>4, <1>6, <1>7

\* Search finds exactly the secrets that a row of that name would take along.
LEMMA SearchByCascade == TreeInv => SearchFinds
<1> SUFFICES ASSUME TreeInv, NEW n \in Name \ {Empty}
             PROVE  \/ Search(n) = {s \in All("secret") : \E i \in Existing : rows[i].name = n /\ s \in Cascade(i)}
                    \/ Search(n) = Nil /\ \E i \in Existing : ~rows[i].good
    BY DEF SearchFinds
<1>1. AllSecretsWithPath = All("secret")
    BY EnvOfSecret DEF AllSecretsWithPath
<1>2. CASE \E s \in AllSecretsWithPath : \E i \in Path(s) : ~rows[i].good
  <2>1. Search(n) = Nil
    BY <1>2 DEF Search
  <2>2. \E i \in Existing : ~rows[i].good
    BY <1>1, <1>2, PathIsCascade
  <2> QED BY <2>1, <2>2
<1>3. CASE ~\E s \in AllSecretsWithPath : \E i \in Path(s) : ~rows[i].good
  <2>1. Search(n) = {s \in All("secret") : \E i \in Path(s) : rows[i].name = n}
    BY <1>1, <1>3 DEF Search
  <2>2. \A s \in All("secret") : (\E i \in Path(s) : rows[i].name = n)
                                  <=> (\E i \in Existing : rows[i].name = n /\ s \in Cascade(i))
    BY PathIsCascade
  <2> QED BY <2>1, <2>2
<1> QED BY <1>2, <1>3

\* The counts count the rows of a cascade: the sets are the same.
LEMMA CountsByCascade == TreeInv => CountsMatchCascade
<1> SUFFICES ASSUME TreeInv PROVE CountsMatchCascade
    OBVIOUS
<1>0. \A k \in Kind : All(k) \subseteq Existing
    BY DEF All, Existing, Is
<1>1. ASSUME NEW p \in All("project")
      PROVE  /\ In("environment", p) = Cascade(p) \cap All("environment")
             /\ {s \in All("secret") : EnvOf(s) \in In("environment", p)} = Cascade(p) \cap All("secret")
  <2>1. p \in Existing /\ Is(p, "project")
    BY <1>0 DEF All, Kind
  <2>2. \A e \in All("environment") : e \in Cascade(p) <=> rows[e].parent = p
    BY <2>1, EnvironmentInCascade DEF All, Is
  <2>3. ASSUME NEW s \in All("secret")
        PROVE  s \in Cascade(p) <=> EnvOf(s) \in In("environment", p)
    <3>1. s \in Cascade(p) <=> p \in Path(s)
      BY <2>1, PathIsCascade
    <3>2. p # s /\ p # rows[s].parent /\ p # EnvOf(s)
      <4>1. Is(s, "secret") /\ (Is(rows[s].parent, "folder") \/ Is(rows[s].parent, "environment"))
        BY <1>0, ParentByKind DEF All, Kind
      <4> QED BY <2>1, <4>1, EnvOfSecret DEF Is
    <3>3. EnvOf(s) \in All("environment")
      BY EnvOfSecret DEF All, Existing
    <3> QED BY <3>1, <3>2, <3>3 DEF Path, In
  <2> QED BY <2>2, <2>3 DEF In
<1>2. ASSUME NEW e \in All("environment")
      PROVE  /\ In("folder", e) = Cascade(e) \cap All("folder")
             /\ {s \in All("secret") : EnvOf(s) = e} = Cascade(e) \cap All("secret")
  <2>1. e \in Existing /\ Is(e, "environment")
    BY <1>0 DEF All, Kind
  <2>2. ASSUME NEW f \in All("folder") PROVE f \in Cascade(e) <=> rows[f].parent = e
    <3>1. f \in Existing /\ Is(f, "folder") /\ rows[f].parent \in Existing /\ Is(rows[f].parent, "environment")
      BY <1>0, ParentByKind DEF All, Kind
    <3>2. Is(rows[rows[f].parent].parent, "project")
      BY <3>1, ParentByKind
    <3>3. e # f /\ e # rows[rows[f].parent].parent
      BY <2>1, <3>1, <3>2 DEF Is
    <3> QED BY <2>1, <3>3, FolderInCascade
  <2>3. ASSUME NEW s \in All("secret") PROVE s \in Cascade(e) <=> EnvOf(s) = e
    <3>1. s \in Cascade(e) <=> e \in Path(s)
      BY <2>1, PathIsCascade
    <3>2. e # s /\ e # rows[EnvOf(s)].parent
      BY <2>1, EnvOfSecret DEF All, Is
    <3>3. e = rows[s].parent => EnvOf(s) = e
      BY <2>1, EnvOfSecret DEF Is
    <3> QED BY <3>1, <3>2, <3>3 DEF Path
  <2> QED BY <2>2, <2>3 DEF In
<1>3. ASSUME NEW f \in All("folder") PROVE In("secret", f) = Cascade(f) \cap All("secret")
  <2>1. f \in Existing /\ Is(f, "folder")
    BY <1>0 DEF All, Kind
  <2>2. ASSUME NEW s \in All("secret") PROVE s \in Cascade(f) <=> rows[s].parent = f
    <3>1. s \in Cascade(f) <=> f \in Path(s)
      BY <2>1, PathIsCascade
    <3>2. f # s /\ f # EnvOf(s) /\ f # rows[EnvOf(s)].parent
      BY <2>1, EnvOfSecret DEF All, Is
    <3> QED BY <3>1, <3>2 DEF Path
  <2> QED BY <2>2 DEF In
<1> QED BY <1>1, <1>2, <1>3, Zenon DEF CountsMatchCascade, ProjectCounts, EnvCounts, FolderCounts

---------------------------------------------------------------------------
\* The statements.

LEMMA TreeInsert ==
    ASSUME TreeInv, NEW k \in Kind, NEW p \in Id \cup {Nil}, NEW n \in Name, NEW g \in BOOLEAN,
           Insert(k, p, n, g)
    PROVE  TreeInv'
<1> DEFINE x == [kind |-> k, parent |-> p, name |-> n, good |-> g]
<1>1. nid + 1 \in Id /\ nid' = nid + 1 /\ nid' \in Nat /\ rows[nid + 1] = Nil
    BY ContentAssumption DEF Insert, TreeInv, RowsOK, Id
<1>2. x \in Row /\ x # Nil
    BY ContentAssumption DEF Row
<1>3. /\ rows'[nid + 1] = x
      /\ \A j \in Id : j # nid + 1 => rows'[j] = rows[j]
      /\ rows' \in [Id -> Row \cup {Nil}]
    BY <1>1, <1>2 DEF Insert, TreeInv, RowsOK
<1>4. RowsOK'
    BY <1>1, <1>3 DEF TreeInv, RowsOK, Id
<1>5. NoOrphans'
    BY <1>1, <1>2, <1>3, NilIsNothing DEF Insert, TreeInv, NoOrphans, Existing, ParentOK, Is
<1> QED BY <1>4, <1>5 DEF TreeInv

\* A row keeps its kind and its place when it is renamed.
LEMMA TreeUpdate ==
    ASSUME TreeInv, NEW k \in Kind, NEW i \in Id, NEW n \in Name, Update(k, i, n)
    PROVE  TreeInv'
<1>1. PICK g \in BOOLEAN : rows' = [rows EXCEPT ![i].name = n, ![i].good = g]
    BY DEF Update, Sealings
<1>2. rows[i] \in Row /\ nid' = nid
    BY DEF Update, Is, TreeInv, RowsOK
<1>3. /\ rows' \in [Id -> Row \cup {Nil}]
      /\ \A j \in Id : j # i => rows'[j] = rows[j]
      /\ rows'[i] \in Row /\ rows'[i].kind = rows[i].kind /\ rows'[i].parent = rows[i].parent
    BY <1>1, <1>2 DEF TreeInv, RowsOK, Row
<1>4. \A j \in Id : (rows'[j] = Nil <=> rows[j] = Nil)
    BY <1>2, <1>3, NilIsNothing
<1>5. RowsOK'
    BY <1>2, <1>3, <1>4 DEF TreeInv, RowsOK
<1>6. \A j \in Id : rows[j] # Nil => rows'[j].kind = rows[j].kind /\ rows'[j].parent = rows[j].parent
    BY <1>3
<1>7. \A j \in Id, k2 \in Kind : Is(j, k2) => Is(j, k2)'
    BY <1>4, <1>6 DEF Is
<1>8. NoOrphans'
  <2> SUFFICES ASSUME NEW j \in Id, rows'[j] # Nil
               PROVE  ParentOK(rows[j].kind, rows[j].parent)'
    BY DEF NoOrphans, Existing
  <2>1. j \in Existing /\ rows[j] \in Row
    BY <1>4 DEF Existing, TreeInv, RowsOK
  <2>2. ParentOK(rows[j].kind, rows[j].parent)
    BY <2>1 DEF TreeInv, NoOrphans
  <2>3. rows'[j].kind = rows[j].kind /\ rows'[j].parent = rows[j].parent /\ rows[j].parent \in Id \cup {Nil}
    BY <1>6, <2>1, NilIsNothing DEF Existing
  <2> QED BY <1>7, <2>2, <2>3 DEF ParentOK, Parents, Kind, Is
<1> QED BY <1>5, <1>8 DEF TreeInv

\* A deleted row takes its descendants along, so that what is left has its parent.
LEMMA TreeDelete ==
    ASSUME TreeInv, NEW k \in Kind, NEW i \in Id, DeleteRow(k, i)
    PROVE  TreeInv'
<1>1. i \in Existing /\ nid' = nid /\ \A j \in Id : rows'[j] = IF j \in Cascade(i) THEN Nil ELSE rows[j]
    BY DEF DeleteRow, Is, Existing
<1>2. RowsOK'
    BY <1>1 DEF DeleteRow, TreeInv, RowsOK
<1>3. NoOrphans'
  <2> SUFFICES ASSUME NEW j \in Id, rows'[j] # Nil
               PROVE  ParentOK(rows[j].kind, rows[j].parent)'
    BY DEF NoOrphans, Existing
  <2>1. j \in Existing /\ j \notin Cascade(i) /\ rows'[j] = rows[j] /\ rows[j] \in Row
    BY <1>1 DEF Existing, TreeInv, RowsOK
  <2>2. rows[j].parent \notin Cascade(i) /\ rows[j].parent \in Id \cup {Nil}
    BY <1>1, <2>1, CascadeClosed, NilIsNothing
  <2>3. ParentOK(rows[j].kind, rows[j].parent)
    BY <2>1 DEF TreeInv, NoOrphans
  <2> QED BY <1>1, <2>1, <2>2, <2>3 DEF ParentOK, Is
<1> QED BY <1>2, <1>3 DEF TreeInv

---------------------------------------------------------------------------

\* What a handler that will delete or insert later has in its local variables.
HandlerOK(l) ==
    /\ DOMAIN l = {"pc", "of", "todo", "seen"}
    /\ l.pc \in {"unlink", "import"} => l.of \in Id
    /\ l.pc = "import" => l.todo \in Seq(Name) /\ l.todo # <<>>

HandlersOK == DOMAIN req = Req /\ \A r \in Req : HandlerOK(req[r])

\* A file of more than one name has a name after the first.
LEMMA TailOfLong ==
    ASSUME NEW s \in Seq(Name), s # <<>>, Len(s) # 1
    PROVE  Tail(s) \in Seq(Name) /\ Tail(s) # <<>>
<1>1. Len(s) \in Nat \ {0} /\ Len(<<>>) = 0
    BY EmptySeq
<1>2. Tail(s) \in Seq(Name) /\ Len(Tail(s)) = Len(s) - 1
    BY HeadTailProperties
<1>3. Len(Tail(s)) # 0
    BY <1>1, <1>2
<1> QED BY <1>1, <1>2, <1>3, Zenon

\* The handler r goes on with l, the others stay as they are.
LEMMA HandlersStep ==
    ASSUME HandlersOK, NEW r \in Req, NEW l, HandlerOK(l), req' = [req EXCEPT ![r] = l]
    PROVE  HandlersOK'
BY DEF HandlersOK

\* A page asks only.
LEMMA PagesOK ==
    /\ HandlerOK(Idle) /\ HandlerOK(Home)
    /\ \A s : HandlerOK(attachList(s))
    /\ \A qs : HandlerOK(Page(qs))
<1>1. HandlerOK(Idle)
    BY DEF HandlerOK, Idle
<1>2. ASSUME NEW qs PROVE HandlerOK(Page(qs))
  <2>1. DOMAIN Page(qs) = {"pc", "of", "todo", "seen"} /\ Page(qs).pc = "page"
    BY DEF Page, Idle
  <2> QED BY <2>1 DEF HandlerOK
<1> QED BY <1>1, <1>2 DEF Home, attachList

LEMMA HandlersNext == HandlersOK /\ [Next]_vars => HandlersOK'
<1> SUFFICES ASSUME HandlersOK, [Next]_vars PROVE HandlersOK'
    OBVIOUS
<1>1. ASSUME UNCHANGED req PROVE HandlersOK'
    BY <1>1 DEF HandlersOK
<1>2. ASSUME NEW r \in Req, End(r) PROVE HandlersOK'
    BY <1>2, HandlersStep, PagesOK DEF End, Begin
<1>3. CASE UNCHANGED vars
    BY <1>1, <1>3 DEF vars
<1>4. ASSUME NEW r \in Req, home(r) \/ Shown(r) PROVE HandlersOK'
    BY <1>2, <1>4, HandlersStep, PagesOK DEF home, Begin, Shown
<1>5. ASSUME NEW r \in Req, NEW i \in Id, viewProject(r, i) \/ secretDetail(r, i) PROVE HandlersOK'
    BY <1>5, HandlersStep, PagesOK DEF viewProject, secretDetail, Begin
<1>6. ASSUME NEW r \in Req, NEW n \in Name,
             \/ createProject(r, n)
             \/ \E i \in Id : uploadAttachment(r, i, n) \/ renameProject(r, i, n) \/ updateSecret(r, i, n)
      PROVE  HandlersOK'
    BY <1>6, HandlersStep, PagesOK DEF createProject, uploadAttachment, renameProject, updateSecret, Begin
<1>7. ASSUME NEW r \in Req, NEW i \in Id, NEW k \in Kind,
             Delete(r, k, i) \/ \E n \in Name : CreateUnder(r, k, i, n) \/ RenameNode(r, k, i, n)
      PROVE  HandlersOK'
    BY <1>1, <1>7 DEF CreateUnder, RenameNode, Delete
<1>8. ASSUME NEW r \in Req, Ask(r) PROVE HandlersOK'
  <2>1. CASE End(r)
    BY <1>2, <2>1
  <2>2. ASSUME NEW t, req' = [req EXCEPT ![r].todo = t] PROVE HandlersOK'
    BY <1>8, <2>2 DEF Ask, HandlersOK, HandlerOK
  <2> QED BY <1>8, <2>1, <2>2 DEF Ask
<1>9. ASSUME NEW r \in Req, NEW i \in Id, deleteAttachment(r, i) PROVE HandlersOK'
  <2>1. HandlerOK([pc |-> "unlink", of |-> i, todo |-> <<>>, seen |-> {rows[i].parent}])
    BY DEF HandlerOK
  <2> QED BY <1>9, <2>1, HandlersStep DEF deleteAttachment
<1>10. ASSUME NEW r \in Req, Unlink(r) PROVE HandlersOK'
    BY <1>2, <1>10, HandlersStep, PagesOK DEF Unlink, Begin
<1>11. ASSUME NEW r \in Req, NEW i \in Id, NEW file \in Files, importEnv(r, i, file) PROVE HandlersOK'
  <2>1. file \in Seq(Name) /\ file # <<>>
    BY <1>11, ContentAssumption DEF importEnv
  <2>2. \A x : HandlerOK([pc |-> "import", of |-> i, todo |-> file, seen |-> x])
    BY <2>1 DEF HandlerOK
  <2>3. \E x : req' = [req EXCEPT ![r] = [pc |-> "import", of |-> i, todo |-> file, seen |-> x]]
    BY <1>11 DEF importEnv, Begin
  <2> QED BY <2>2, <2>3, HandlersStep
<1>12. ASSUME NEW r \in Req, ImportName(r) PROVE HandlersOK'
  <2>1. ASSUME NEW x, NEW y, Imported(r, x, y) PROVE HandlersOK'
    <3>1. CASE Len(req[r].todo) = 1
      BY <1>2, <2>1, <3>1 DEF Imported
    <3>2. CASE Len(req[r].todo) # 1
      <4>1. req[r].todo \in Seq(Name) /\ req[r].todo # <<>> /\ req[r].of \in Id
        BY <1>12 DEF ImportName, HandlersOK, HandlerOK
      <4>2. Tail(req[r].todo) \in Seq(Name) /\ Tail(req[r].todo) # <<>>
        BY <3>2, <4>1, TailOfLong
      <4>3. req' = [req EXCEPT ![r].todo = Tail(req[r].todo), ![r].seen = x]
        BY <2>1, <3>2 DEF Imported
      <4> QED BY <1>12, <4>1, <4>2, <4>3 DEF ImportName, HandlersOK, HandlerOK
    <3> QED BY <3>1, <3>2
  <2> QED BY <1>12, <2>1 DEF ImportName
<1> QED BY <1>3, <1>4, <1>5, <1>6, <1>7, <1>8, <1>9, <1>10, <1>11, <1>12 DEF Next

\* A handler's step makes one statement, or none.
LEMMA TreeNext == TreeInv /\ HandlersOK /\ [Next]_vars => TreeInv'
<1> SUFFICES ASSUME TreeInv, HandlersOK, [Next]_vars PROVE TreeInv'
    OBVIOUS
<1>1. ASSUME UNCHANGED <<rows, nid>> PROVE TreeInv'
    BY <1>1 DEF TreeInv, RowsOK, NoOrphans, Existing, ParentOK, Is
<1>2. CASE UNCHANGED vars
    BY <1>1, <1>2 DEF vars
<1>3. ASSUME NEW r \in Req, home(r) \/ Ask(r) \/ Shown(r) PROVE TreeInv'
    BY <1>1, <1>3 DEF home, Ask, Shown
<1>4. ASSUME NEW r \in Req, NEW i \in Id,
             \/ viewProject(r, i) \/ secretDetail(r, i) \/ deleteAttachment(r, i)
             \/ \E file \in Files : importEnv(r, i, file)
      PROVE  TreeInv'
    BY <1>1, <1>4 DEF viewProject, secretDetail, deleteAttachment, importEnv
<1>5. ASSUME NEW r \in Req, NEW n \in Name, createProject(r, n) PROVE TreeInv'
  <2>1. CASE n = Empty
    BY <1>1, <1>5, <2>1 DEF createProject
  <2>2. CASE n # Empty
    BY <1>5, <2>2, TreeInsert DEF createProject, Sealings, Kind
  <2> QED BY <2>1, <2>2
<1>6. ASSUME NEW r \in Req, NEW i \in Id, NEW n \in Name, uploadAttachment(r, i, n) PROVE TreeInv'
  <2>1. CASE n = Empty
    BY <1>1, <1>6, <2>1 DEF uploadAttachment
  <2>2. CASE n # Empty
    BY <1>6, <2>2, TreeInsert DEF uploadAttachment, Sealings, Kind
  <2> QED BY <2>1, <2>2
<1>7. ASSUME NEW r \in Req, NEW i \in Id, NEW n \in Name, NEW k \in Kind, CreateUnder(r, k, i, n)
      PROVE  TreeInv'
    BY <1>7, TreeInsert DEF CreateUnder, Sealings
<1>8. ASSUME NEW r \in Req, NEW i \in Id, NEW n \in Name,
             \/ renameProject(r, i, n) \/ updateSecret(r, i, n)
             \/ \E k \in Kind : RenameNode(r, k, i, n)
      PROVE  TreeInv'
    BY <1>8, TreeUpdate DEF renameProject, updateSecret, RenameNode, Kind
<1>9. ASSUME NEW r \in Req, NEW i \in Id, NEW k \in Kind, Delete(r, k, i) PROVE TreeInv'
    BY <1>9, TreeDelete DEF Delete
<1>10. ASSUME NEW r \in Req, Unlink(r) PROVE TreeInv'
  <2>1. req[r].of \in Id
    BY <1>10 DEF Unlink, HandlersOK, HandlerOK
  <2> QED BY <1>1, <1>10, <2>1, TreeDelete DEF Unlink, Kind
<1>11. ASSUME NEW r \in Req, ImportName(r) PROVE TreeInv'
  <2>1. req[r].of \in Id /\ Head(req[r].todo) \in Name
    BY <1>11 DEF ImportName, HandlersOK, HandlerOK
  <2> QED BY <1>1, <1>11, <2>1, TreeInsert DEF ImportName, Sealings, Kind
<1> QED BY <1>2, <1>3, <1>4, <1>5, <1>6, <1>7, <1>8, <1>9, <1>10, <1>11 DEF Next

---------------------------------------------------------------------------
\* Pages and imports: what a handler has read and what it has yet to ask.

\* The row x is in the answer of the query q, or in that of a query that q leads to.
Asked(q, x) ==
    \/ x \in Rows(q)
    \/ /\ q.list = "environments"
       /\ \/ Is(x, "folder") /\ rows[x].parent \in Rows(q)
          \/ Is(x, "secret") /\ EnvOf(x) \in Rows(q)
    \/ q.list = "folders" /\ Is(x, "secret") /\ EnvOf(x) = q.of

\* What a page has not shown lies below a query that it has yet to make; what an
\* import has read or created is a secret whose name it knows.
KeptOK(r) ==
    /\ req[r].pc = "page" =>
          /\ req[r].todo \in Seq(Query)
          /\ \A x \in kept[r] : /\ x \in Existing
                                /\ \E m \in 1 .. Len(req[r].todo) : Asked(req[r].todo[m], x)
    /\ req[r].pc = "unlink" => req[r].seen \subseteq Id \cup {Nil}
    /\ req[r].pc = "import" => \A x \in kept[r] : Is(x, "secret") /\ x \in Id
                                                  /\ rows[x].name \in req[r].seen

KeptInv == DOMAIN kept = Req /\ \A r \in Req : KeptOK(r)

\* No row changes its kind or its place.
SameShape == \A j \in Existing : rows'[j] # Nil =>
                rows'[j].kind = rows[j].kind /\ rows'[j].parent = rows[j].parent

\* The rows above a folder or a secret are there, now and after the step.
RowsAbove ==
    /\ \A j \in Existing : Is(j, "folder") => rows[j].parent \in Existing
    /\ \A s \in All("secret") : rows[s].parent \in Existing /\ EnvOf(s) \in Existing

LEMMA TreeRowsAbove == TreeInv => RowsAbove
BY ParentByKind, EnvOfSecret DEF RowsAbove

\* A row that stays is asked for by the same queries as before.
LEMMA AskedStays ==
    ASSUME TreeInv, TreeInv', SameShape, NEW x \in Existing, x \in Existing',
           NEW q \in Query, Asked(q, x)
    PROVE  Asked(q, x)'
<1> USE DEF SameShape
<1>0. RowsAbove /\ RowsAbove'
    BY TreeRowsAbove, PTL
<1>1. /\ x \in Id /\ rows[x] # Nil /\ rows'[x] # Nil
      /\ rows'[x].kind = rows[x].kind /\ rows'[x].parent = rows[x].parent
    BY DEF Existing
<1>2. \A k : Is(x, k) => Is(x, k)'
    BY <1>1 DEF Is
<1>3. x \in Rows(q) => (x \in Rows(q))'
    BY <1>1, <1>2 DEF Rows, All, In
<1>4. \A y \in Existing : \A k : y \in Existing' => (Is(y, k) <=> Is(y, k)') /\ rows'[y].parent = rows[y].parent
    BY DEF Is, Existing
<1>5. ASSUME Is(x, "folder"), q.list = "environments", rows[x].parent \in Rows(q)
      PROVE  Asked(q, x)'
  <2>1. Is(x, "folder")' /\ rows'[x].parent \in Existing'
    BY <1>0, <1>2, <1>5 DEF RowsAbove
  <2>2. rows[x].parent \in Existing /\ rows[x].parent \in Existing'
    BY <1>1, <1>5, <2>1, ParentByKind
  <2> PICK e : e = rows[x].parent
    OBVIOUS
  <2>3. (e \in Rows(q))'
    BY <1>4, <1>5, <2>2 DEF Rows, All, In
  <2> QED BY <1>1, <1>5, <2>1, <2>3 DEF Asked
<1>6. ASSUME Is(x, "secret")
      PROVE  EnvOf(x)' = EnvOf(x) /\ EnvOf(x) \in Existing /\ EnvOf(x) \in Existing'
  <2>1. x \in All("secret") /\ (x \in All("secret"))'
    BY <1>1, <1>2, <1>6 DEF All
  <2>2. /\ rows[x].parent \in Existing /\ (rows[x].parent \in Existing)'
        /\ EnvOf(x) \in Existing /\ (EnvOf(x) \in Existing)'
    BY <1>0, <2>1 DEF RowsAbove
  <2> PICK y : y = rows[x].parent
    OBVIOUS
  <2>3. y \in Existing /\ y \in Existing' /\ rows'[x].parent = y
    BY <1>1, <2>2
  <2>4. (Is(y, "folder") <=> Is(y, "folder")') /\ rows'[y].parent = rows[y].parent
    BY <1>4, <2>3
  <2>5. EnvOf(x)' = EnvOf(x)
    BY <2>3, <2>4 DEF EnvOf
  <2> QED BY <2>2, <2>5
<1>7. ASSUME Is(x, "secret"), q.list = "environments", EnvOf(x) \in Rows(q)
      PROVE  Asked(q, x)'
  <2> PICK e : e = EnvOf(x)
    OBVIOUS
  <2>1. e \in Existing /\ e \in Existing' /\ EnvOf(x)' = e
    BY <1>6, <1>7
  <2>2. (e \in Rows(q))'
    BY <1>4, <1>7, <2>1 DEF Rows, All, In
  <2>3. Is(x, "secret")'
    BY <1>2, <1>7
  <2> QED BY <1>7, <2>1, <2>2, <2>3 DEF Asked
<1>8. ASSUME q.list = "folders", Is(x, "secret"), EnvOf(x) = q.of PROVE Asked(q, x)'
    BY <1>2, <1>6, <1>8 DEF Asked
<1>9. (x \in Rows(q))' => Asked(q, x)'
    BY DEF Asked
<1> QED BY <1>3, <1>5, <1>7, <1>8, <1>9 DEF Asked

\* A handler that another one's statement does not disturb: the rows it counts on
\* are there, and for an import still have their names.
LEMMA KeptStays ==
    ASSUME TreeInv, TreeInv', SameShape, NEW r \in Req, KeptOK(r), req'[r] = req[r],
           kept'[r] \subseteq kept[r], \A x \in kept[r] : x \in kept'[r] /\ x \in Existing => x \in Existing',
           req[r].pc = "import" => \A x \in kept'[r] : x \in Existing' => rows'[x].name = rows[x].name
    PROVE  KeptOK(r)'
<1>1. ASSUME req[r].pc = "page"
      PROVE  /\ req[r].todo \in Seq(Query)
             /\ \A x \in kept'[r] : /\ x \in Existing'
                                    /\ \E m \in 1 .. Len(req[r].todo) : Asked(req[r].todo[m], x)'
  <2>1. req[r].todo \in Seq(Query)
    BY <1>1 DEF KeptOK
  <2>2. ASSUME NEW x \in kept'[r]
        PROVE  x \in Existing' /\ \E m \in 1 .. Len(req[r].todo) : Asked(req[r].todo[m], x)'
    <3>1. x \in Existing /\ x \in Existing'
      BY <1>1, <2>2 DEF KeptOK
    <3>2. PICK m \in 1 .. Len(req[r].todo) : Asked(req[r].todo[m], x)
      BY <1>1, <2>2 DEF KeptOK
    <3> PICK q \in Query : q = req[r].todo[m]
      BY <2>1
    <3>3. Asked(q, x)
      BY <3>2
    <3>4. Asked(q, x)'
      BY <3>1, <3>3, AskedStays
    <3>5. req'[r].todo[m] = q
      OBVIOUS
    <3>6. Asked(req[r].todo[m], x)'
      BY <3>4, <3>5
    <3> QED BY <3>1, <3>6
  <2> QED BY <2>1, <2>2
<1>2. ASSUME req[r].pc = "import", NEW x \in kept'[r]
      PROVE  Is(x, "secret")' /\ x \in Id /\ rows'[x].name \in req[r].seen
  <2>1. Is(x, "secret") /\ x \in Id /\ rows[x].name \in req[r].seen
    BY <1>2 DEF KeptOK
  <2>2. x \in Existing /\ x \in Existing'
    BY <1>2, <2>1 DEF Is, Existing
  <2> QED BY <1>2, <2>1, <2>2 DEF SameShape, Is, Existing
<1> QED BY <1>1, <1>2 DEF KeptOK

\* What the three statements leave alone.
LEMMA InsertKeeps ==
    ASSUME TreeInv, NEW k \in Kind, NEW p \in Id \cup {Nil}, NEW n \in Name, NEW g \in BOOLEAN,
           Insert(k, p, n, g)
    PROVE  /\ SameShape /\ TreeInv' /\ \A j \in Existing : j \in Existing' /\ rows'[j] = rows[j]
           /\ nid' = nid + 1 /\ nid' \in Id /\ rows'[nid'] = [kind |-> k, parent |-> p, name |-> n, good |-> g]
           /\ rows'[nid'] # Nil
<1>1. nid + 1 \in Id /\ nid' = nid + 1 /\ rows[nid + 1] = Nil
    BY ContentAssumption DEF Insert, TreeInv, RowsOK, Id
<1>2. [kind |-> k, parent |-> p, name |-> n, good |-> g] # Nil
    BY ContentAssumption DEF Row
<1> QED BY <1>1, <1>2, TreeInsert DEF Insert, TreeInv, RowsOK, SameShape, Existing

LEMMA UpdateKeeps ==
    ASSUME TreeInv, NEW k \in Kind, NEW i \in Id, NEW n \in Name, Update(k, i, n)
    PROVE  /\ SameShape /\ TreeInv' /\ nid' = nid /\ Is(i, k) /\ i \in Existing
           /\ \A j \in Existing : j \in Existing' /\ (j # i => rows'[j] = rows[j])
<1>1. PICK g \in BOOLEAN : rows' = [rows EXCEPT ![i].name = n, ![i].good = g]
    BY DEF Update, Sealings
<1>2. rows[i] \in Row /\ Is(i, k) /\ i \in Existing /\ nid' = nid
    BY DEF Update, Is, TreeInv, RowsOK, Existing
<1>3. /\ \A j \in Id : j # i => rows'[j] = rows[j]
      /\ rows'[i] \in Row /\ rows'[i].kind = rows[i].kind /\ rows'[i].parent = rows[i].parent
    BY <1>1, <1>2 DEF TreeInv, RowsOK, Row
<1>4. rows'[i] # Nil
    BY <1>3, NilIsNothing
<1> QED BY <1>2, <1>3, <1>4, TreeUpdate DEF SameShape, Existing

LEMMA DeleteKeeps ==
    ASSUME TreeInv, NEW k \in Kind, NEW i \in Id, DeleteRow(k, i)
    PROVE  /\ SameShape /\ TreeInv' /\ nid' = nid /\ i \in Existing
           /\ \A j \in Existing : j \notin Cascade(i) => j \in Existing' /\ rows'[j] = rows[j]
<1>1. i \in Existing /\ nid' = nid /\ \A j \in Id : rows'[j] = IF j \in Cascade(i) THEN Nil ELSE rows[j]
    BY DEF DeleteRow, Is, Existing
<1> QED BY <1>1, TreeDelete DEF SameShape, Existing

\* A set of ids as a sequence: all of them, and nothing else.
LEMMA IdsInSequence ==
    ASSUME NEW S, S \subseteq Id
    PROVE  /\ Cardinality(S) \in Nat
           /\ \A j \in 1 .. Cardinality(S) : SetToSeq(S)[j] \in S
           /\ \A i \in S : \E j \in 1 .. Cardinality(S) : SetToSeq(S)[j] = i
<1>0. IsFiniteSet(Id)
    BY FS_Interval, ContentAssumption DEF Id
<1>1. IsFiniteSet(S)
    BY <1>0, FS_Subset
<1>2. Cardinality(S) \in Nat /\ ExistsBijection(1 .. Cardinality(S), S)
    BY <1>1, FS_CardinalityType
<1> DEFINE D == 1 .. Cardinality(S)
<1>3. PICK f \in [D -> S] : IsInjective(f)
    BY <1>2 DEF ExistsBijection, Bijection, Injection
<1>4. SetToSeq(S) \in [D -> S] /\ IsInjective(SetToSeq(S))
    BY <1>3 DEF SetToSeq
<1>5. SetToSeq(S) \in Injection(D, S)
    BY <1>4 DEF Injection
<1>6. Cardinality(D) = Cardinality(S)
    BY <1>2, FS_Interval
<1>7. SetToSeq(S) \in Surjection(D, S)
    BY <1>1, <1>5, <1>6, FS_Injection
<1> QED BY <1>2, <1>4, <1>7 DEF Surjection

\* The answer of a query is a set of ids.
LEMMA RowsAreIds == ASSUME NEW q PROVE Rows(q) \subseteq Id
BY DEF Rows, All, In

\* One query of the kind l about each row in S.
Each(l, S) == [j \in 1 .. Cardinality(S) |-> Do(l, SetToSeq(S)[j])]

LEMMA EachAsks ==
    ASSUME NEW S, S \subseteq Id, NEW l \in Listing
    PROVE  /\ Each(l, S) \in Seq(Query) /\ Len(Each(l, S)) = Cardinality(S)
           /\ \A i \in S : \E m \in 1 .. Len(Each(l, S)) : Each(l, S)[m] = Do(l, i)
<1>1. Cardinality(S) \in Nat
    BY IdsInSequence
<1>2. \A j \in 1 .. Cardinality(S) : Do(l, SetToSeq(S)[j]) \in Query
    BY IdsInSequence DEF Do, Query
<1>3. Each(l, S) \in Seq(Query) /\ Len(Each(l, S)) = Cardinality(S)
    BY <1>1, <1>2 DEF Each
<1>4. ASSUME NEW i \in S PROVE \E m \in 1 .. Len(Each(l, S)) : Each(l, S)[m] = Do(l, i)
  <2>1. PICK j \in 1 .. Cardinality(S) : SetToSeq(S)[j] = i
    BY IdsInSequence
  <2> QED BY <1>3, <2>1 DEF Each
<1> QED BY <1>3, <1>4

\* The rows below an answer, which are not in it, are asked for by the follow-up.
LEMMA FollowUpAsks ==
    ASSUME TreeInv, NEW q \in Query, NEW S, S = Rows(q)
    PROVE  /\ FollowUp(q, S) \in Seq(Query)
           /\ \A x \in Existing : Asked(q, x) /\ x \notin S =>
                 \E m \in 1 .. Len(FollowUp(q, S)) : Asked(FollowUp(q, S)[m], x)
<1> USE DEF Listing
<1>0. S \subseteq Id
    BY RowsAreIds
<1>1. CASE q.list = "environments"
  <2>1. FollowUp(q, S) = Each("folders", S)
    BY <1>1 DEF FollowUp, Each
  <2>2. ASSUME NEW x \in Existing, Asked(q, x), x \notin S
        PROVE  \E e \in S : Asked(Do("folders", e), x)
    <3>1. \/ Is(x, "folder") /\ rows[x].parent \in S
          \/ Is(x, "secret") /\ EnvOf(x) \in S
      BY <1>1, <2>2 DEF Asked
    <3>2. CASE Is(x, "folder") /\ rows[x].parent \in S
      <4> PICK e \in S : e = rows[x].parent
        BY <3>2
      <4>1. x \in Rows(Do("folders", e))
        BY <3>2, <2>2 DEF Rows, Do, In, All, Existing
      <4> QED BY <4>1 DEF Asked
    <3>3. CASE Is(x, "secret") /\ EnvOf(x) \in S
      BY <3>3 DEF Asked, Do
    <3> QED BY <3>1, <3>2, <3>3
  <2> DEFINE es == Each("folders", S)
  <2>3. es \in Seq(Query) /\ \A i \in S : \E m \in 1 .. Len(es) : es[m] = Do("folders", i)
    BY <1>0, EachAsks
  <2> HIDE DEF es
  <2>4. \A x \in Existing : Asked(q, x) /\ x \notin S => \E m \in 1 .. Len(es) : Asked(es[m], x)
    BY <2>2, <2>3
  <2> QED BY <2>1, <2>3, <2>4 DEF es
<1>2. CASE q.list = "folders"
  <2> DEFINE own == <<Do("loose", q.of)>>
  <2>1. FollowUp(q, S) = Each("secrets", S) \o own
    BY <1>2 DEF FollowUp, Each
  <2>2. Do("loose", q.of) \in Query
    BY DEF Do, Query
  <2>3. own \in Seq(Query) /\ Len(own) = 1 /\ own[1] = Do("loose", q.of)
    BY <2>2
  <2>4. /\ Each("secrets", S) \in Seq(Query)
        /\ \A i \in S : \E m \in 1 .. Len(Each("secrets", S)) : Each("secrets", S)[m] = Do("secrets", i)
    BY <1>0, EachAsks
  <2> DEFINE fs == Each("secrets", S)
             n == Len(fs)
  <2>5. /\ n \in Nat /\ fs \o own \in Seq(Query) /\ Len(fs \o own) = n + 1
        /\ \A m \in 1 .. n : (fs \o own)[m] = fs[m]
        /\ (fs \o own)[n + 1] = Do("loose", q.of)
    BY <2>3, <2>4, ConcatProperties
  <2> HIDE DEF own, fs, n
  <2>6. ASSUME NEW x \in Existing, Asked(q, x), x \notin S
        PROVE  \/ \E f \in S : Asked(Do("secrets", f), x)
               \/ Asked(Do("loose", q.of), x)
    <3>1. Is(x, "secret") /\ EnvOf(x) = q.of /\ x \in Id
      BY <1>2, <2>6 DEF Asked, Existing
    <3>2. CASE Is(rows[x].parent, "folder")
      <4>1. rows[rows[x].parent].parent = q.of
        BY <3>1, <3>2 DEF EnvOf
      <4>2. rows[x].parent \in S
        <5>1. rows[x].parent \in Id
          BY <3>2, <2>6, NilIsNothing DEF Is, Existing, TreeInv, RowsOK
        <5> QED BY <1>2, <3>2, <4>1, <5>1 DEF Rows, In, All
      <4> PICK f \in S : f = rows[x].parent
        BY <4>2
      <4>3. x \in Rows(Do("secrets", f))
        BY <3>1 DEF Rows, Do, In, All
      <4> QED BY <4>3 DEF Asked
    <3>3. CASE ~Is(rows[x].parent, "folder")
      <4>1. x \in Rows(Do("loose", q.of))
        BY <3>1, <3>3 DEF Rows, Do, In, All, EnvOf
      <4> QED BY <4>1 DEF Asked
    <3> QED BY <3>2, <3>3
  <2>7. ASSUME NEW x \in Existing, Asked(q, x), x \notin S
        PROVE  \E m \in 1 .. n + 1 : Asked((fs \o own)[m], x)
    <3>1. CASE Asked(Do("loose", q.of), x)
      BY <2>5, <3>1
    <3>2. ASSUME NEW f \in S, Asked(Do("secrets", f), x) PROVE \E m \in 1 .. n + 1 : Asked((fs \o own)[m], x)
      <4>1. PICK m \in 1 .. n : fs[m] = Do("secrets", f)
        BY <2>4 DEF fs, n
      <4> QED BY <2>5, <3>2, <4>1
    <3> QED BY <2>6, <2>7, <3>1, <3>2
  <2>8. FollowUp(q, S) = fs \o own
    BY <2>1 DEF fs, own
  <2> QED BY <2>5, <2>7, <2>8
<1>3. CASE q.list \notin {"environments", "folders"}
  <2>1. FollowUp(q, S) = <<>>
    BY <1>3 DEF FollowUp
  <2>2. <<>> \in Seq(Query)
    OBVIOUS
  <2> QED BY <1>3, <2>1, <2>2 DEF Asked
<1> QED BY <1>1, <1>2, <1>3

---------------------------------------------------------------------------
\* The steps, for the handler that makes them and for the others.

\* The step of r does not disturb the handler q.
Undisturbed(q) ==
    /\ req'[q] = req[q] /\ kept'[q] \subseteq kept[q]
    /\ \A x \in kept'[q] : x \in Existing => x \in Existing'
    /\ req[q].pc = "import" => \A x \in kept'[q] : x \in Existing' => rows'[x].name = rows[x].name

LEMMA KeptStep ==
    ASSUME TreeInv, TreeInv', SameShape, KeptInv, NEW r \in Req, DOMAIN kept' = Req,
           KeptOK(r)', \A q \in Req \ {r} : Undisturbed(q)
    PROVE  KeptInv'
<1>1. ASSUME NEW q \in Req, q # r PROVE KeptOK(q)'
    BY <1>1, KeptStays DEF KeptInv, Undisturbed
<1> QED BY <1>1 DEF KeptInv

\* A step that leaves the tables alone.
LEMMA TablesStay ==
    ASSUME TreeInv, UNCHANGED <<rows, nid>>
    PROVE  SameShape /\ TreeInv' /\ Existing' = Existing
BY DEF TreeInv, RowsOK, NoOrphans, Existing, ParentOK, Is, SameShape

\* Only r goes on, in local variables and history.
LEMMA OnlyOne ==
    ASSUME HandlersOK, KeptInv, NEW r \in Req, NEW l, NEW K,
           req' = [req EXCEPT ![r] = l], kept' = [kept EXCEPT ![r] = K]
    PROVE  /\ DOMAIN kept' = Req /\ req'[r] = l /\ kept'[r] = K
           /\ \A q \in Req \ {r} : req'[q] = req[q] /\ kept'[q] = kept[q]
BY DEF HandlersOK, KeptInv

LEMMA OnlyOneUndisturbed ==
    ASSUME TreeInv, UNCHANGED <<rows, nid>>, HandlersOK, KeptInv, NEW r \in Req, NEW l, NEW K,
           req' = [req EXCEPT ![r] = l], kept' = [kept EXCEPT ![r] = K], KeptOK(r)'
    PROVE  KeptInv'
<1>1. SameShape /\ TreeInv' /\ Existing' = Existing
    BY TablesStay
<1>2. DOMAIN kept' = Req /\ \A q \in Req \ {r} : req'[q] = req[q] /\ kept'[q] = kept[q]
    BY OnlyOne
<1>3. \A q \in Req \ {r} : Undisturbed(q)
    BY <1>1, <1>2 DEF Undisturbed
<1> QED BY <1>1, <1>2, <1>3, KeptStep

\* A handler that has ended, and a page of one query.
LEMMA OwnIdle == ASSUME NEW r \in Req, req'[r] = Idle PROVE KeptOK(r)'
BY DEF KeptOK, Idle

LEMMA OwnPage ==
    ASSUME NEW r \in Req, NEW q \in Query, req'[r] = Page(<<q>>),
           \A x \in kept'[r] : x \in Existing' /\ Asked(q, x)'
    PROVE  KeptOK(r)'
<1>1. req'[r].pc = "page" /\ req'[r].todo = <<q>>
    BY DEF Page, Idle
<1>2. <<q>> \in Seq(Query) /\ Len(<<q>>) = 1 /\ <<q>>[1] = q
    OBVIOUS
<1>3. ASSUME NEW x \in kept'[r]
      PROVE  (\E m \in 1 .. Len(req[r].todo) : Asked(req[r].todo[m], x))'
  <2>1. 1 \in 1 .. Len(req'[r].todo) /\ req'[r].todo[1] = q
    BY <1>1, <1>2
  <2>2. Asked(req[r].todo[1], x)'
    BY <2>1
  <2> QED BY <2>1, <2>2
<1> QED BY <1>1, <1>2, <1>3 DEF KeptOK

LEMMA OwnHome ==
    ASSUME NEW r \in Req, req'[r] = Home, kept'[r] \subseteq All("project")'
    PROVE  KeptOK(r)'
<1> DEFINE q == Do("projects", Nil)
<1>1. q \in Query /\ q.list = "projects"
    BY DEF Do, Query, Listing
<1>2. \A x \in kept'[r] : x \in Existing' /\ (x \in Rows(q))'
    BY <1>1 DEF Rows, All, Is, Existing
<1>3. req'[r] = Page(<<q>>)
    BY DEF Home
<1>4. \A x \in kept'[r] : x \in Existing' /\ Asked(q, x)'
    BY <1>2 DEF Asked
<1> QED BY <1>1, <1>3, <1>4, OwnPage

LEMMA OwnFiles ==
    ASSUME NEW r \in Req, NEW s \in Id \cup {Nil}, req'[r] = attachList(s),
           kept'[r] \subseteq In("attachment", s)'
    PROVE  KeptOK(r)'
<1> DEFINE q == Do("attachments", s)
<1>1. q \in Query /\ q.list = "attachments" /\ q.of = s
    BY DEF Do, Query, Listing
<1>2. \A x \in kept'[r] : x \in Existing' /\ (x \in Rows(q))'
    BY <1>1 DEF Rows, In, All, Is, Existing
<1>3. req'[r] = Page(<<q>>)
    BY DEF attachList
<1>4. \A x \in kept'[r] : x \in Existing' /\ Asked(q, x)'
    BY <1>2 DEF Asked
<1> QED BY <1>1, <1>3, <1>4, OwnPage

\* The tree of a project lies below the query for its environments, but for itself.
LEMMA ProjectScope ==
    ASSUME TreeInv, NEW p \in Id, Is(p, "project"), NEW x \in Scope(p)
    PROVE  x \in Existing /\ (Asked(Do("project", p), x) \/ Asked(Do("environments", p), x))
<1>1. x \in Cascade(p) /\ ~Is(x, "attachment") /\ p \in Existing /\ p # Nil
    BY DEF Scope, Is, Existing
<1>2. x \in Existing
    BY <1>1 DEF Cascade, WithKids
<1>3. \E k \in Kind : Is(x, k)
    BY <1>2, NilIsNothing DEF Existing, Is, TreeInv, RowsOK
<1>4. /\ Rows(Do("project", p)) = {p} \cap All("project")
      /\ Rows(Do("environments", p)) = In("environment", p)
      /\ Do("environments", p).list = "environments"
    BY DEF Rows, Do
<1>5. CASE Is(x, "project")
  <2>1. \A j \in {x} \cap Existing : rows[j].parent \in {x} \cup {Nil}
    BY <1>5, ParentByKind
  <2>2. p \in {x}
    BY <1>1, <2>1, CascadeUp
  <2> QED BY <1>2, <1>4, <1>5, <2>2 DEF Asked, All
<1>6. CASE Is(x, "environment")
  <2>1. x \in All("environment")
    BY <1>2, <1>6 DEF All, Existing
  <2>2. rows[x].parent = p
    BY <1>1, <1>6, <2>1, EnvironmentInCascade DEF Is
  <2> QED BY <1>2, <1>4, <2>1, <2>2 DEF Asked, In
<1>7. CASE Is(x, "folder")
  <2>1. x \in All("folder") /\ Is(rows[x].parent, "environment") /\ rows[x].parent \in Existing
    BY <1>2, <1>7, ParentByKind DEF All, Existing
  <2>2. p \in {x, rows[x].parent, rows[rows[x].parent].parent}
    BY <1>1, <2>1, FolderInCascade
  <2>3. rows[rows[x].parent].parent = p
    BY <1>7, <2>1, <2>2 DEF Is
  <2>4. rows[x].parent \in In("environment", p)
    BY <2>1, <2>3 DEF In, All, Existing
  <2> QED BY <1>2, <1>4, <1>7, <2>4 DEF Asked
<1>8. CASE Is(x, "secret")
  <2>1. x \in All("secret")
    BY <1>2, <1>8 DEF All, Existing
  <2>2. p \in Path(x)
    BY <1>1, <2>1, PathIsCascade
  <2>3. Is(rows[x].parent, "folder") \/ Is(rows[x].parent, "environment")
    BY <1>2, <1>8, ParentByKind
  <2>4. rows[EnvOf(x)].parent = p
    BY <1>8, <2>1, <2>2, <2>3, EnvOfSecret DEF Path, Is
  <2>5. EnvOf(x) \in In("environment", p)
    BY <2>1, <2>4, EnvOfSecret DEF In, All, Existing
  <2> QED BY <1>2, <1>4, <1>8, <2>5 DEF Asked
<1> QED BY <1>1, <1>3, <1>5, <1>6, <1>7, <1>8 DEF Kind

\* The files of a secret.
LEMMA SecretScope ==
    ASSUME NEW s \in Id, Is(s, "secret") PROVE Scope(s) = In("attachment", s)
BY NilIsNothing DEF Scope

\* Steps that only read: a page or an import begins, a handler ends.
LEMMA KeptRead ==
    ASSUME TreeInv, HandlersOK, KeptInv, NEW r \in Req,
           \/ home(r) \/ Shown(r)
           \/ \E i \in Id : \/ viewProject(r, i) \/ secretDetail(r, i) \/ deleteAttachment(r, i)
                            \/ \E file \in Files : importEnv(r, i, file)
    PROVE  KeptInv'
<1>1. CASE home(r)
  <2>1. /\ req' = [req EXCEPT ![r] = Home] /\ kept' = [kept EXCEPT ![r] = All("project")]
        /\ UNCHANGED <<rows, nid>>
    BY <1>1 DEF home, Begin
  <2>2. req'[r] = Home /\ kept'[r] = All("project") /\ All("project")' = All("project")
    BY <2>1, OnlyOne DEF All, Is
  <2> QED BY <2>1, <2>2, OwnHome, OnlyOneUndisturbed
<1>2. CASE Shown(r)
  <2>1. req' = [req EXCEPT ![r] = Idle] /\ kept' = [kept EXCEPT ![r] = {}] /\ UNCHANGED <<rows, nid>>
    BY <1>2 DEF Shown, End, Begin
  <2> QED BY <2>1, OnlyOne, OwnIdle, OnlyOneUndisturbed
<1>3. ASSUME NEW p \in Id, viewProject(r, p) PROVE KeptInv'
  <2> DEFINE a == Do("project", p)
             b == Do("environments", p)
  <2>1. /\ req' = [req EXCEPT ![r] = Page(<<a, b>>)] /\ kept' = [kept EXCEPT ![r] = Scope(p)]
        /\ UNCHANGED <<rows, nid>> /\ Is(p, "project")
    BY <1>3 DEF viewProject, Begin
  <2>2. req'[r] = Page(<<a, b>>) /\ kept'[r] = Scope(p)
    BY <2>1, OnlyOne
  <2>3. \A x \in Scope(p) : x \in Existing /\ (Asked(a, x) \/ Asked(b, x))
    BY <2>1, ProjectScope
  <2>4. \A x \in Scope(p) : /\ x \in Existing'
                            /\ (Asked(a, x) => Asked(a, x)') /\ (Asked(b, x) => Asked(b, x)')
    BY <2>1, <2>3 DEF Existing, Asked, Rows, All, In, Is, EnvOf
  <2>5. a \in Query /\ b \in Query
    BY DEF Do, Query, Listing, Kind
  <2> HIDE DEF a, b
  <2>6. req'[r].pc = "page" /\ req'[r].todo = <<a, b>>
    BY <2>2 DEF Page, Idle
  <2>7. req'[r].todo \in Seq(Query) /\ Len(req'[r].todo) = 2 /\ req'[r].todo[1] = a /\ req'[r].todo[2] = b
    BY <2>5, <2>6
  <2>8. ASSUME NEW x \in kept'[r]
        PROVE  x \in Existing' /\ (\E m \in 1 .. Len(req[r].todo) : Asked(req[r].todo[m], x))'
    <3>1. x \in Existing' /\ (Asked(a, x)' \/ Asked(b, x)')
      BY <2>2, <2>3, <2>4, <2>8
    <3>2. Asked(req[r].todo[1], x)' \/ Asked(req[r].todo[2], x)'
      BY <2>7, <3>1
    <3>3. 1 \in 1 .. Len(req'[r].todo) /\ 2 \in 1 .. Len(req'[r].todo)
      BY <2>7
    <3> QED BY <3>1, <3>2, <3>3
  <2>9. KeptOK(r)'
    BY <2>6, <2>7, <2>8 DEF KeptOK
  <2> QED BY <2>1, <2>9, OnlyOneUndisturbed
<1>4. ASSUME NEW s \in Id, secretDetail(r, s) PROVE KeptInv'
  <2> DEFINE a == Do("secret", s)
             b == Do("attachments", s)
  <2>1. /\ req' = [req EXCEPT ![r] = Page(<<a, b>>)] /\ kept' = [kept EXCEPT ![r] = Scope(s)]
        /\ UNCHANGED <<rows, nid>> /\ Is(s, "secret")
    BY <1>4 DEF secretDetail, Begin
  <2>2. req'[r] = Page(<<a, b>>) /\ kept'[r] = In("attachment", s)
    BY <2>1, OnlyOne, SecretScope
  <2>3. \A x \in In("attachment", s) : x \in Existing' /\ (x \in Rows(b))'
    BY <2>1 DEF Existing, Rows, Do, All, In, Is
  <2>4. \A x \in In("attachment", s) : x \in Existing' /\ Asked(b, x)'
    BY <2>3 DEF Asked
  <2>5. a \in Query /\ b \in Query
    BY DEF Do, Query, Listing, Kind
  <2> HIDE DEF a, b
  <2>6. req'[r].pc = "page" /\ req'[r].todo = <<a, b>>
    BY <2>2 DEF Page, Idle
  <2>7. req'[r].todo \in Seq(Query) /\ Len(req'[r].todo) = 2 /\ req'[r].todo[2] = b
    BY <2>5, <2>6
  <2>8. ASSUME NEW x \in kept'[r]
        PROVE  x \in Existing' /\ (\E m \in 1 .. Len(req[r].todo) : Asked(req[r].todo[m], x))'
    <3>1. x \in Existing' /\ Asked(b, x)'
      BY <2>2, <2>4, <2>8
    <3>2. Asked(req[r].todo[2], x)'
      BY <2>7, <3>1
    <3>3. 2 \in 1 .. Len(req'[r].todo)
      BY <2>7
    <3> QED BY <3>1, <3>2, <3>3
  <2>9. KeptOK(r)'
    BY <2>6, <2>7, <2>8 DEF KeptOK
  <2> QED BY <2>1, <2>9, OnlyOneUndisturbed
<1>5. ASSUME NEW i \in Id, deleteAttachment(r, i) PROVE KeptInv'
  <2>1. /\ req' = [req EXCEPT ![r] = [pc |-> "unlink", of |-> i, todo |-> <<>>, seen |-> {rows[i].parent}]]
        /\ UNCHANGED <<rows, nid, kept>> /\ Is(i, "attachment")
    BY <1>5 DEF deleteAttachment
  <2>2. rows[i].parent \in Id \cup {Nil}
    BY <2>1, NilIsNothing DEF Is, TreeInv, RowsOK
  <2>3. req'[r].pc = "unlink" /\ req'[r].seen = {rows[i].parent}
    BY <2>1 DEF HandlersOK
  <2>4. KeptOK(r)'
    BY <2>2, <2>3 DEF KeptOK
  <2>5. \A q \in Req \ {r} : req'[q] = req[q] /\ kept'[q] = kept[q]
    BY <2>1 DEF HandlersOK
  <2>6. SameShape /\ TreeInv' /\ Existing' = Existing
    BY <2>1, TablesStay
  <2>7. \A q \in Req \ {r} : Undisturbed(q)
    BY <2>1, <2>5, <2>6 DEF Undisturbed
  <2> QED BY <2>1, <2>4, <2>6, <2>7, KeptStep DEF KeptInv
<1>6. ASSUME NEW t \in Id, NEW file \in Files, importEnv(r, t, file) PROVE KeptInv'
  <2> DEFINE S == In("secret", t)
             read == IF \A i \in S : rows[i].good THEN S ELSE {}
             l == [pc |-> "import", of |-> t, todo |-> file, seen |-> {rows[i].name : i \in read}]
  <2>1. req' = [req EXCEPT ![r] = l] /\ kept' = [kept EXCEPT ![r] = read] /\ UNCHANGED <<rows, nid>>
    BY <1>6 DEF importEnv, Begin
  <2>2. \A x \in read : Is(x, "secret") /\ x \in Id
    BY DEF In, All
  <2>3. l.pc = "import" /\ \A x \in read : rows[x].name \in l.seen
    OBVIOUS
  <2> HIDE DEF read, l
  <2>4. req'[r] = l /\ kept'[r] = read
    BY <2>1, OnlyOne
  <2>5. KeptOK(r)'
    BY <2>1, <2>2, <2>3, <2>4 DEF KeptOK, Is
  <2> QED BY <2>1, <2>5, OnlyOneUndisturbed
<1> QED BY <1>1, <1>2, <1>3, <1>4, <1>5, <1>6

\* One query of a page: its rows are shown, what is below them is asked for next.
LEMMA KeptAsk ==
    ASSUME TreeInv, HandlersOK, KeptInv, NEW r \in Req, Ask(r)
    PROVE  KeptInv'
<1> DEFINE todo == req[r].todo
           q == Head(todo)
           S == Rows(q)
           next == FollowUp(q, S) \o Tail(todo)
<1>1. UNCHANGED <<rows, nid>> /\ req[r].pc = "page" /\ todo # <<>>
    BY DEF Ask
<1>2. CASE End(r)
  <2>1. req' = [req EXCEPT ![r] = Idle] /\ kept' = [kept EXCEPT ![r] = {}]
    BY <1>2 DEF End, Begin
  <2> QED BY <1>1, <2>1, OnlyOne, OwnIdle, OnlyOneUndisturbed
<1>3. CASE req' = [req EXCEPT ![r].todo = next] /\ kept' = [kept EXCEPT ![r] = @ \ S]
  <2>0. todo \in Seq(Query) /\ \A x \in kept[r] : x \in Existing /\ \E m \in 1 .. Len(todo) : Asked(todo[m], x)
    BY <1>1 DEF KeptInv, KeptOK
  <2>1. /\ q \in Query /\ todo[1] = q /\ Tail(todo) \in Seq(Query) /\ Len(Tail(todo)) = Len(todo) - 1
        /\ \A m \in 1 .. Len(Tail(todo)) : Tail(todo)[m] = todo[m + 1]
    BY <1>1, <2>0, HeadTailProperties
  <2> DEFINE f == FollowUp(q, S)
  <2> HIDE DEF q
  <2>2. /\ f \in Seq(Query)
        /\ \A x \in Existing : Asked(q, x) /\ x \notin S => \E m \in 1 .. Len(f) : Asked(f[m], x)
    BY <2>1, FollowUpAsks
  <2> DEFINE t == Tail(todo)
  <2>3. next = f \o t
    OBVIOUS
  <2>4. /\ next \in Seq(Query) /\ Len(next) = Len(f) + Len(t) /\ Len(f) \in Nat /\ Len(t) \in Nat
        /\ \A m \in 1 .. Len(f) : next[m] = f[m]
        /\ \A m \in 1 .. Len(t) : next[Len(f) + m] = t[m]
    <3> HIDE DEF f, t, next
    <3>1. f \in Seq(Query) /\ t \in Seq(Query) /\ Len(f) \in Nat /\ Len(t) \in Nat
      BY <2>1, <2>2 DEF t
    <3> QED BY <2>3, <3>1, ConcatProperties
  <2> HIDE DEF f, S, next
  <2>5. ASSUME NEW x \in kept[r], x \notin S
        PROVE  \E m \in 1 .. Len(next) : Asked(next[m], x)
    <3>1. PICK m \in 1 .. Len(todo) : Asked(todo[m], x)
      BY <2>0, <2>5
    <3>2. CASE m = 1
      <4>1. PICK n \in 1 .. Len(f) : Asked(f[n], x)
        BY <2>0, <2>1, <2>2, <2>5, <3>1, <3>2
      <4>2. n \in 1 .. Len(next) /\ next[n] = f[n]
        BY <2>4
      <4> QED BY <4>1, <4>2
    <3>3. CASE m # 1
      <4>1. m - 1 \in 1 .. Len(t) /\ t[m - 1] = todo[m]
        BY <2>0, <2>1, <3>3
      <4>2. Len(f) + (m - 1) \in 1 .. Len(next) /\ next[Len(f) + (m - 1)] = todo[m]
        <5> HIDE DEF t
        <5> QED BY <2>4, <4>1
      <4> QED BY <3>1, <4>2
    <3> QED BY <3>2, <3>3
  <2> DEFINE l == [req[r] EXCEPT !.todo = next]
  <2>6. DOMAIN req[r] = {"pc", "of", "todo", "seen"} /\ DOMAIN req = Req
    BY DEF HandlersOK, HandlerOK
  <2>7. l.pc = "page" /\ l.todo = next
    BY <1>1, <2>6
  <2>8. req' = [req EXCEPT ![r] = l] /\ kept' = [kept EXCEPT ![r] = kept[r] \ S]
    BY <1>3, <2>6 DEF KeptInv
  <2> HIDE DEF l
  <2>9. req'[r] = l /\ kept'[r] = kept[r] \ S
    BY <2>8, OnlyOne
  <2>10. ASSUME NEW x \in kept'[r]
         PROVE  x \in Existing' /\ (\E m \in 1 .. Len(req[r].todo) : Asked(req[r].todo[m], x))'
    <3>1. x \in kept[r] /\ x \notin S /\ x \in Existing
      BY <2>0, <2>9, <2>10
    <3>2. PICK m \in 1 .. Len(next) : Asked(next[m], x)
      BY <2>5, <3>1
    <3> PICK y \in Query : y = next[m]
      BY <2>4
    <3>3. Asked(y, x)
      BY <3>2
    <3>4. Asked(y, x)' /\ x \in Existing'
      BY <1>1, <3>1, <3>3 DEF Asked, Rows, All, In, Is, EnvOf, Existing
    <3>5. m \in 1 .. Len(req'[r].todo) /\ req'[r].todo[m] = y
      BY <2>7, <2>9
    <3>6. Asked(req[r].todo[m], x)'
      BY <3>4, <3>5
    <3> QED BY <3>4, <3>5, <3>6
  <2>11. KeptOK(r)'
    BY <2>4, <2>7, <2>9, <2>10 DEF KeptOK
  <2> QED BY <1>1, <2>8, <2>11, OnlyOneUndisturbed
<1> QED BY <1>2, <1>3 DEF Ask

\* One INSERT by r: nobody's rows go or change.
LEMMA InsertUndisturbed ==
    ASSUME TreeInv, \A j \in Existing : j \in Existing' /\ rows'[j] = rows[j],
           NEW q \in Req, KeptOK(q), req'[q] = req[q], kept'[q] = kept[q]
    PROVE  Undisturbed(q)
BY DEF Undisturbed, KeptOK, Existing, Is

\* createProject, uploadAttachment: the page that follows knows the new row.
LEMMA KeptCreate ==
    ASSUME TreeInv, HandlersOK, KeptInv, NEW r \in Req, NEW n \in Name,
           createProject(r, n) \/ \E s \in Id : uploadAttachment(r, s, n)
    PROVE  KeptInv'
<1>0. \A q \in Req : KeptOK(q)
    BY DEF KeptInv
<1>1. CASE createProject(r, n)
  <2>1. req' = [req EXCEPT ![r] = Home] /\ kept' = [kept EXCEPT ![r] = All("project")']
    BY <1>1 DEF createProject, Begin
  <2>2. /\ DOMAIN kept' = Req /\ req'[r] = Home /\ kept'[r] = All("project")'
        /\ \A q \in Req \ {r} : req'[q] = req[q] /\ kept'[q] = kept[q]
    BY <2>1 DEF HandlersOK, KeptInv
  <2>3. KeptOK(r)'
    BY <2>2, OwnHome
  <2>4. SameShape /\ TreeInv' /\ \A j \in Existing : j \in Existing' /\ rows'[j] = rows[j]
    <3>1. CASE n = Empty
      <4>1. UNCHANGED <<rows, nid>>
        BY <1>1, <3>1 DEF createProject
      <4> QED BY <4>1, TablesStay
    <3>2. CASE n # Empty
      <4>1. PICK g \in BOOLEAN : Insert("project", Nil, n, g)
        BY <1>1, <3>2 DEF createProject, Sealings
      <4> QED BY <4>1, InsertKeeps DEF Kind
    <3> QED BY <3>1, <3>2
  <2>5. \A q \in Req \ {r} : Undisturbed(q)
    BY <1>0, <2>2, <2>4, InsertUndisturbed
  <2> QED BY <2>2, <2>3, <2>4, <2>5, KeptStep
<1>2. ASSUME NEW s \in Id, uploadAttachment(r, s, n) PROVE KeptInv'
  <2>1. req' = [req EXCEPT ![r] = attachList(s)] /\ kept' = [kept EXCEPT ![r] = Scope(s)']
    BY <1>2 DEF uploadAttachment, Begin
  <2>2. /\ DOMAIN kept' = Req /\ req'[r] = attachList(s) /\ kept'[r] = Scope(s)'
        /\ \A q \in Req \ {r} : req'[q] = req[q] /\ kept'[q] = kept[q]
    BY <2>1 DEF HandlersOK, KeptInv
  <2>3. /\ SameShape /\ TreeInv' /\ \A j \in Existing : j \in Existing' /\ rows'[j] = rows[j]
        /\ Is(s, "secret")
    <3>1. CASE n = Empty
      <4>1. UNCHANGED <<rows, nid>> /\ Is(s, "secret")
        BY <1>2, <3>1 DEF uploadAttachment
      <4> QED BY <4>1, TablesStay
    <3>2. CASE n # Empty
      <4>1. PICK g \in BOOLEAN : Insert("attachment", s, n, g)
        BY <1>2, <3>2 DEF uploadAttachment, Sealings
      <4>2. Is(s, "secret")
        BY <4>1 DEF Insert, ParentOK, Parents
      <4> QED BY <4>1, <4>2, InsertKeeps DEF Kind
    <3> QED BY <3>1, <3>2
  <2>4. Is(s, "secret")'
    BY <2>3 DEF Is, Existing
  <2>5. Scope(s)' = In("attachment", s)'
    BY <2>4, NilIsNothing DEF Scope
  <2>6. KeptOK(r)'
    BY <2>2, <2>5, OwnFiles
  <2>7. \A q \in Req \ {r} : Undisturbed(q)
    BY <1>0, <2>2, <2>3, InsertUndisturbed
  <2> QED BY <2>2, <2>3, <2>6, <2>7, KeptStep
<1> QED BY <1>1, <1>2

\* A handler that another one's UPDATE of the row i does not disturb: for an import,
\* i is none of the secrets it counts on.
LEMMA UpdateUndisturbed ==
    ASSUME NEW k \in Kind, NEW i \in Id, Is(i, k),
           \A j \in Existing : j \in Existing' /\ (j # i => rows'[j] = rows[j]),
           NEW q \in Req, KeptOK(q), req'[q] = req[q], kept'[q] \subseteq kept[q],
           req[q].pc = "import" => k # "secret" \/ i \notin kept'[q]
    PROVE  Undisturbed(q)
<1>1. ASSUME req[q].pc = "import", NEW x \in kept'[q] PROVE rows'[x].name = rows[x].name
  <2>1. Is(x, "secret") /\ x \in Existing
    BY <1>1 DEF KeptOK, Is, Existing
  <2>2. x # i
    BY <1>1, <2>1 DEF Is
  <2> QED BY <2>1, <2>2
<1> QED BY <1>1 DEF Undisturbed

LEMMA KeptRename ==
    ASSUME TreeInv, HandlersOK, KeptInv, NEW r \in Req, NEW i \in Id, NEW n \in Name,
           renameProject(r, i, n) \/ updateSecret(r, i, n)
    PROVE  KeptInv'
<1>0. \A q \in Req : KeptOK(q)
    BY DEF KeptInv
<1>1. CASE renameProject(r, i, n)
  <2>1. /\ req' = [req EXCEPT ![r] = Home] /\ kept' = [kept EXCEPT ![r] = All("project")]
        /\ Update("project", i, n)
    BY <1>1 DEF renameProject, Begin
  <2>2. /\ DOMAIN kept' = Req /\ req'[r] = Home /\ kept'[r] = All("project")
        /\ \A q \in Req \ {r} : req'[q] = req[q] /\ kept'[q] = kept[q]
    BY <2>1, OnlyOne
  <2>3. /\ SameShape /\ TreeInv' /\ Is(i, "project") /\ i \in Existing
        /\ \A j \in Existing : j \in Existing' /\ (j # i => rows'[j] = rows[j])
    BY <2>1, UpdateKeeps DEF Kind
  <2>4. All("project") \subseteq All("project")'
    BY <2>3 DEF All, Is, Existing, SameShape
  <2>5. KeptOK(r)'
    BY <2>2, <2>4, OwnHome
  <2>6. \A q \in Req \ {r} : Undisturbed(q)
    BY <1>0, <2>2, <2>3, UpdateUndisturbed DEF Kind
  <2> QED BY <2>2, <2>3, <2>5, <2>6, KeptStep
<1>2. CASE updateSecret(r, i, n)
  <2>1. /\ req' = [req EXCEPT ![r] = attachList(i)] /\ kept' = [Renamed(i) EXCEPT ![r] = Scope(i)]
        /\ Update("secret", i, n)
    BY <1>2 DEF updateSecret, Begin
  <2>2. /\ DOMAIN kept' = Req /\ req'[r] = attachList(i) /\ kept'[r] = Scope(i)
        /\ \A q \in Req \ {r} : /\ req'[q] = req[q] /\ kept'[q] \subseteq kept[q]
                                /\ req[q].pc = "import" => i \notin kept'[q]
    BY <2>1 DEF HandlersOK, KeptInv, Renamed
  <2>3. /\ SameShape /\ TreeInv' /\ Is(i, "secret") /\ i \in Existing
        /\ \A j \in Existing : j \in Existing' /\ (j # i => rows'[j] = rows[j])
    BY <2>1, UpdateKeeps DEF Kind
  <2>4. Scope(i) \subseteq In("attachment", i)'
    <3>1. Scope(i) = In("attachment", i)
      BY <2>3, SecretScope
    <3> QED BY <2>3, <3>1 DEF In, All, Is, Existing, SameShape
  <2>5. KeptOK(r)'
    BY <2>2, <2>4, OwnFiles
  <2>6. \A q \in Req \ {r} : Undisturbed(q)
    BY <1>0, <2>2, <2>3, UpdateUndisturbed DEF Kind
  <2> QED BY <2>2, <2>3, <2>5, <2>6, KeptStep
<1> QED BY <1>1, <1>2

\* Statements of handlers that are over with them.
LEMMA KeptOnce ==
    ASSUME TreeInv, HandlersOK, KeptInv, NEW r \in Req, NEW i \in Id, NEW k \in Kind,
           Delete(r, k, i) \/ \E n \in Name : CreateUnder(r, k, i, n) \/ RenameNode(r, k, i, n)
    PROVE  KeptInv'
<1>0. \A q \in Req : KeptOK(q)
    BY DEF KeptInv
<1>1. ASSUME TreeInv', SameShape, DOMAIN kept' = Req, \A q \in Req : Undisturbed(q) PROVE KeptInv'
    BY <1>0, <1>1, KeptStays DEF KeptInv, Undisturbed
<1>2. CASE Delete(r, k, i)
  <2>1. DeleteRow(k, i) /\ kept' = Forget(Cascade(i)) /\ UNCHANGED req
    BY <1>2 DEF Delete
  <2>2. /\ SameShape /\ TreeInv'
        /\ \A j \in Existing : j \notin Cascade(i) => j \in Existing' /\ rows'[j] = rows[j]
    BY <2>1, DeleteKeeps
  <2>3. DOMAIN kept' = Req /\ \A q \in Req : kept'[q] = kept[q] \ Cascade(i)
    BY <2>1 DEF Forget
  <2>4. ASSUME NEW q \in Req PROVE Undisturbed(q)
    <3>1. \A x \in kept'[q] : x \in Existing => x \in Existing' /\ rows'[x] = rows[x]
      BY <2>2, <2>3
    <3>2. req[q].pc = "import" => \A x \in kept'[q] : x \in Existing
      BY <1>0, <2>3 DEF KeptOK, Is, Existing
    <3> QED BY <2>1, <2>3, <3>1, <3>2 DEF Undisturbed
  <2> QED BY <1>1, <2>2, <2>3, <2>4
<1>3. ASSUME NEW n \in Name, CreateUnder(r, k, i, n) PROVE KeptInv'
  <2>1. PICK g \in BOOLEAN : Insert(k, i, n, g) /\ UNCHANGED <<req, kept>>
    BY <1>3 DEF CreateUnder, Sealings
  <2>2. SameShape /\ TreeInv' /\ \A j \in Existing : j \in Existing' /\ rows'[j] = rows[j]
    BY <2>1, InsertKeeps
  <2>3. \A q \in Req : Undisturbed(q)
    BY <1>0, <2>1, <2>2, InsertUndisturbed
  <2> QED BY <1>1, <2>1, <2>2, <2>3 DEF KeptInv
<1>4. ASSUME NEW n \in Name, RenameNode(r, k, i, n) PROVE KeptInv'
  <2>1. Update(k, i, n) /\ UNCHANGED <<req, kept>> /\ k # "secret"
    BY <1>4 DEF RenameNode
  <2>2. /\ SameShape /\ TreeInv' /\ Is(i, k)
        /\ \A j \in Existing : j \in Existing' /\ (j # i => rows'[j] = rows[j])
    BY <2>1, UpdateKeeps
  <2>3. \A q \in Req : Undisturbed(q)
    BY <1>0, <2>1, <2>2, UpdateUndisturbed
  <2> QED BY <1>1, <2>1, <2>2, <2>3 DEF KeptInv
<1> QED BY <1>2, <1>3, <1>4

\* An attachment has nothing below it.
LEMMA AttachmentAlone ==
    ASSUME TreeInv, NEW i \in Id, Is(i, "attachment") PROVE Cascade(i) = {i}
<1>1. WithKids({i}) = {i}
  <2>1. \A j \in Existing : rows[j].parent # i
    BY NilIsNothing, ParentByKind DEF Is, Kind, Existing
  <2> QED BY <2>1 DEF WithKids
<1> QED BY <1>1 DEF Cascade

\* The second half of deleteAttachment.
LEMMA KeptUnlink ==
    ASSUME TreeInv, HandlersOK, KeptInv, NEW r \in Req, Unlink(r)
    PROVE  KeptInv'
<1>0. /\ \A q \in Req : KeptOK(q)
      /\ req[r].pc = "unlink" /\ req[r].of \in Id /\ req[r].seen \subseteq Id \cup {Nil}
    BY DEF KeptInv, KeptOK, Unlink, HandlersOK, HandlerOK
<1>1. PICK s \in req[r].seen :
          IF Is(req[r].of, "attachment")
          THEN /\ DeleteRow("attachment", req[r].of)
               /\ Begin(r, attachList(s))
               /\ kept' = [Forget({req[r].of}) EXCEPT ![r] = In("attachment", s) \ {req[r].of}]
          ELSE End(r) /\ UNCHANGED <<rows, nid>>
    BY DEF Unlink
<1> PICK i \in Id : i = req[r].of
    BY <1>0
<1>2. CASE Is(i, "attachment")
  <2>1. /\ DeleteRow("attachment", i) /\ req' = [req EXCEPT ![r] = attachList(s)]
        /\ kept' = [Forget({i}) EXCEPT ![r] = In("attachment", s) \ {i}]
    BY <1>1, <1>2 DEF Begin
  <2>2. /\ DOMAIN kept' = Req /\ req'[r] = attachList(s) /\ kept'[r] = In("attachment", s) \ {i}
        /\ \A q \in Req \ {r} : req'[q] = req[q] /\ kept'[q] = kept[q] \ {i}
    BY <2>1 DEF HandlersOK, KeptInv, Forget
  <2>3. /\ SameShape /\ TreeInv'
        /\ \A j \in Existing : j # i => j \in Existing' /\ rows'[j] = rows[j]
    BY <1>2, <2>1, DeleteKeeps, AttachmentAlone DEF Kind
  <2>4. In("attachment", s) \ {i} \subseteq In("attachment", s)'
    BY <2>3 DEF In, All, Is, Existing
  <2>5. KeptOK(r)'
    BY <1>0, <2>2, <2>4, OwnFiles
  <2>6. ASSUME NEW q \in Req \ {r} PROVE Undisturbed(q)
    <3>1. \A x \in kept'[q] : x \in Existing => x \in Existing' /\ rows'[x] = rows[x]
      BY <2>2, <2>3
    <3>2. req[q].pc = "import" => \A x \in kept'[q] : x \in Existing
      BY <1>0, <2>2 DEF KeptOK, Is, Existing
    <3> QED BY <2>2, <3>1, <3>2 DEF Undisturbed
  <2> QED BY <2>2, <2>3, <2>5, <2>6, KeptStep
<1>3. CASE ~Is(i, "attachment")
  <2>1. req' = [req EXCEPT ![r] = Idle] /\ kept' = [kept EXCEPT ![r] = {}] /\ UNCHANGED <<rows, nid>>
    BY <1>1, <1>3 DEF End, Begin
  <2> QED BY <2>1, OnlyOne, OwnIdle, OnlyOneUndisturbed
<1> QED BY <1>2, <1>3

\* One name of an import: the name is known from now on, whether a secret is
\* created for it or not.
LEMMA KeptImport ==
    ASSUME TreeInv, HandlersOK, KeptInv, NEW r \in Req, ImportName(r)
    PROVE  KeptInv'
<1> DEFINE n == Head(req[r].todo)
           seen == IF n = Empty THEN req[r].seen ELSE req[r].seen \cup {n}
<1>0. /\ \A q \in Req : KeptOK(q)
      /\ req[r].pc = "import" /\ req[r].of \in Id /\ n \in Name
      /\ DOMAIN req[r] = {"pc", "of", "todo", "seen"} /\ DOMAIN req = Req /\ DOMAIN kept = Req
    BY DEF KeptInv, ImportName, HandlersOK, HandlerOK
<1>1. ASSUME NEW new, Imported(r, seen, new),
             TreeInv', SameShape, \A j \in Existing : j \in Existing' /\ rows'[j] = rows[j],
             \A x \in new : x \in Id /\ Is(x, "secret")' /\ rows'[x].name \in seen
      PROVE  KeptInv'
  <2> HIDE DEF n, seen
  <2>1. /\ DOMAIN kept' = Req
        /\ \A q \in Req \ {r} : req'[q] = req[q] /\ kept'[q] = kept[q]
    BY <1>0, <1>1 DEF Imported, End, Begin
  <2>2. \A q \in Req \ {r} : Undisturbed(q)
    BY <1>0, <1>1, <2>1, InsertUndisturbed
  <2>3. KeptOK(r)'
    <3>1. CASE Len(req[r].todo) = 1
      <4>1. req'[r] = Idle
        BY <1>0, <1>1, <3>1 DEF Imported, End, Begin
      <4> QED BY <4>1, OwnIdle
    <3>2. CASE Len(req[r].todo) # 1
      <4>1. /\ req' = [req EXCEPT ![r].todo = Tail(req[r].todo), ![r].seen = seen]
            /\ kept'[r] = kept[r] \cup new
        BY <1>0, <1>1, <3>2 DEF Imported
      <4>2. req'[r].pc = "import" /\ req'[r].seen = seen
        BY <1>0, <4>1
      <4>3. ASSUME NEW x \in kept[r]
            PROVE  x \in Id /\ Is(x, "secret")' /\ rows'[x].name \in seen
        <5>1. x \in Id /\ Is(x, "secret") /\ rows[x].name \in req[r].seen /\ x \in Existing
          BY <1>0, <4>3 DEF KeptOK, Is, Existing
        <5>2. rows'[x] = rows[x] /\ Is(x, "secret")'
          BY <1>1, <5>1 DEF Is
        <5> QED BY <5>1, <5>2 DEF seen
      <4> QED BY <1>1, <4>1, <4>2, <4>3 DEF KeptOK
    <3> QED BY <3>1, <3>2
  <2> QED BY <1>1, <2>1, <2>2, <2>3, KeptStep
<1>2. CASE n # Empty /\ n \notin req[r].seen /\ ParentOK("secret", req[r].of)
  <2>1. PICK g \in BOOLEAN : Insert("secret", req[r].of, n, g)
    BY <1>2 DEF ImportName, Sealings
  <2>2. Imported(r, seen, {nid'})
    BY <1>2 DEF ImportName
  <2>3. /\ SameShape /\ TreeInv' /\ \A j \in Existing : j \in Existing' /\ rows'[j] = rows[j]
        /\ nid' \in Id /\ rows'[nid'] # Nil
        /\ rows'[nid'] = [kind |-> "secret", parent |-> req[r].of, name |-> n, good |-> g]
    BY <1>0, <2>1, InsertKeeps DEF Kind
  <2> PICK y \in Id : y = nid'
    BY <2>3
  <2>4. rows'[y].kind = "secret" /\ rows'[y].name = n /\ rows'[y] # Nil /\ y # Nil
    BY <2>3, NilIsNothing
  <2>5. Is(y, "secret")' /\ rows'[y].name \in seen
    BY <1>2, <2>4 DEF Is
  <2>6. Imported(r, seen, {y})
    BY <2>2
  <2> QED BY <1>1, <2>3, <2>5, <2>6
<1>3. CASE ~(n # Empty /\ n \notin req[r].seen /\ ParentOK("secret", req[r].of))
  <2>1. Imported(r, seen, {}) /\ UNCHANGED <<rows, nid>>
    BY <1>3 DEF ImportName
  <2>2. SameShape /\ TreeInv' /\ \A j \in Existing : j \in Existing' /\ rows'[j] = rows[j]
    BY <2>1, TablesStay
  <2> QED BY <1>1, <2>1, <2>2
<1> QED BY <1>2, <1>3

LEMMA KeptNext == TreeInv /\ HandlersOK /\ KeptInv /\ [Next]_vars => KeptInv'
<1> SUFFICES ASSUME TreeInv, HandlersOK, KeptInv, [Next]_vars PROVE KeptInv'
    OBVIOUS
<1>1. CASE UNCHANGED vars
  <2>1. SameShape /\ TreeInv' /\ Existing' = Existing
    BY <1>1, TablesStay DEF vars
  <2>2. \A q \in Req : Undisturbed(q)
    BY <1>1, <2>1 DEF vars, Undisturbed
  <2> QED BY <1>1, <2>1, <2>2, KeptStays DEF vars, KeptInv, Undisturbed
<1>2. CASE Next
    BY <1>2, KeptRead, KeptAsk, KeptCreate, KeptRename, KeptOnce, KeptUnlink, KeptImport DEF Next
<1> QED BY <1>1, <1>2

---------------------------------------------------------------------------

LEMMA TreeInit == Init => TreeInv /\ HandlersOK
BY ContentAssumption, PagesOK DEF Init, TreeInv, RowsOK, NoOrphans, Existing, HandlersOK

\* Whatever is created, moved through an import, renamed and deleted by handlers that
\* overlap, no row is left behind: the parent of a row is there and of the right kind.
THEOREM NothingOrphaned == Spec => []NoOrphans
<1>1. TreeInv => NoOrphans
    BY DEF TreeInv
<1> QED BY <1>1, TreeInit, TreeNext, HandlersNext, PTL DEF Spec

\* Search finds what it should, in every state the handlers reach: the secrets that are
\* named so or that a row named so holds, and no others, or it meets an unreadable row.
THEOREM SearchExact == Spec => []SearchFinds
BY TreeInit, TreeNext, HandlersNext, SearchByCascade, PTL DEF Spec

\* The numbers on the cards are the numbers of rows that a delete would take along.
THEOREM CountsExact == Spec => []CountsMatchCascade
BY TreeInit, TreeNext, HandlersNext, CountsByCascade, PTL DEF Spec

LEMMA KeptInit == Init => KeptInv
BY DEF Init, KeptInv, KeptOK, Idle

\* A page shows every row it is about that was there all the time, whatever the other
\* handlers create, rename and delete between its queries.
THEOREM PagesComplete == Spec => []PageComplete
<1>1. KeptInv => PageComplete
  <2> SUFFICES ASSUME KeptInv, NEW r \in Req, req[r].pc = "page", req[r].todo = <<>>, NEW x \in kept[r]
               PROVE  FALSE
    BY DEF PageComplete
  <2>1. \E m \in 1 .. Len(req[r].todo) : Asked(req[r].todo[m], x)
    BY DEF KeptInv, KeptOK
  <2> QED BY <2>1, EmptySeq
<1> QED BY <1>1, TreeInit, KeptInit, TreeNext, HandlersNext, KeptNext, PTL DEF Spec

\* An import creates no secret under a name that it has read or created in its target
\* and that is still there, whatever runs beside it.
THEOREM ImportsSkipRead == Spec => ImportSkipsRead
<1> DEFINE Skips(r) == req[r].pc = "import" /\ req'[r] # req[r] /\ nid' # nid =>
                          \A i \in kept[r] : rows[i].name # rows'[nid'].name
<1>1. TreeInv /\ HandlersOK /\ KeptInv /\ [Next]_vars => [\A r \in Req : Skips(r)]_vars
  <2> SUFFICES ASSUME TreeInv, HandlersOK, KeptInv, Next, NEW r \in Req,
                      req[r].pc = "import", req'[r] # req[r], nid' # nid, NEW i \in kept[r]
               PROVE  rows[i].name # rows'[nid'].name
    BY DEF vars
  <2>0. req[r] # Idle /\ DOMAIN req = Req
    BY DEF Idle, HandlersOK
  <2>1. \A q \in Req : \A l : req' = [req EXCEPT ![q] = l] => q = r
    BY <2>0
  <2>2. ASSUME NEW q \in Req, Imported(q, req[q].seen, {}) \/ \E x, y : Imported(q, x, y) PROVE q = r
    BY <2>0, <2>2 DEF Imported, End, Begin
  <2>3. ASSUME NEW q \in Req, ImportName(q) PROVE rows[i].name # rows'[nid'].name
    <3> DEFINE n == Head(req[r].todo)
    <3>1. q = r
      BY <2>2, <2>3 DEF ImportName
    <3>2. PICK g \in BOOLEAN : Insert("secret", req[r].of, n, g) /\ n \notin req[r].seen
      BY <2>3, <3>1 DEF ImportName, Sealings
    <3>3. req[r].of \in Id /\ n \in Name
      BY DEF HandlersOK, HandlerOK
    <3>4. rows'[nid'] = [kind |-> "secret", parent |-> req[r].of, name |-> n, good |-> g]
      BY <3>2, <3>3, InsertKeeps DEF Kind
    <3>5. rows'[nid'].name = n
      BY <3>4
    <3> QED BY <3>2, <3>5 DEF KeptInv, KeptOK
  <2>4. ASSUME NEW q \in Req, req[q] = Idle, NEW l, req' = [req EXCEPT ![q] = l] \/ UNCHANGED req
        PROVE  FALSE
    BY <2>0, <2>1, <2>4
  <2>5. ASSUME NEW q \in Req, home(q) \/ Shown(q) \/ Ask(q) PROVE FALSE
    BY <2>5 DEF home, Shown, Ask
  <2>6. ASSUME NEW q \in Req, NEW j \in Id,
               \/ viewProject(q, j) \/ secretDetail(q, j) \/ deleteAttachment(q, j)
               \/ \E k \in Kind : Delete(q, k, j)
               \/ \E file \in Files : importEnv(q, j, file)
        PROVE  FALSE
    BY <2>6 DEF viewProject, secretDetail, deleteAttachment, Delete, importEnv, DeleteRow
  <2>7. ASSUME NEW q \in Req, NEW n \in Name,
               \/ createProject(q, n)
               \/ \E j \in Id : \/ uploadAttachment(q, j, n) \/ renameProject(q, j, n) \/ updateSecret(q, j, n)
                                \/ \E k \in Kind : CreateUnder(q, k, j, n) \/ RenameNode(q, k, j, n)
        PROVE  FALSE
    BY <2>4, <2>7 DEF createProject, uploadAttachment, renameProject, updateSecret, CreateUnder,
                      RenameNode, Update, Begin
  <2>8. ASSUME NEW q \in Req, Unlink(q) PROVE FALSE
    BY <2>8 DEF Unlink, DeleteRow
  <2> QED BY <2>3, <2>5, <2>6, <2>7, <2>8 DEF Next
<1> QED BY <1>1, TreeInit, KeptInit, TreeNext, HandlersNext, KeptNext, PTL DEF Spec, ImportSkipsRead

=============================================================================
