------------------------------ MODULE Content ------------------------------
(***************************************************************************)
(* The content of the vault: projects, their environments, folders,        *)
(* secrets in a folder or directly in an environment, attachments.         *)
(*                                                                         *)
(* A statement is one step, cascade included.  A handler is a sequence of  *)
(* statements and other handlers run between them: a page is put together  *)
(* from many queries, an import is one INSERT after the other.  A row is   *)
(* readable or not: a row sealed under a lost key (see KeyCustody) opens   *)
(* for nobody, and one such row fails the listing it is in.                *)
(***************************************************************************)
EXTENDS Integers, Sequences, SequencesExt, FiniteSets

CONSTANTS
    Req,   \* handlers in flight together
    Name,  \* names of rows
    Empty, \* the empty name, one of Name
    Files, \* the names in the .env files that are imported
    MaxBad, \* bound: unreadable rows at a time
    MaxId,  \* bound: rows created
    Nil

Id == 1 .. MaxId
Kind == {"project", "environment", "folder", "secret", "attachment"}
Listing == {"projects", "environments", "folders", "secrets", "loose", "attachments"}
Row == [kind: Kind, parent: Id \cup {Nil}, name: Name, good: BOOLEAN]

ASSUME ContentAssumption ==
    /\ Empty \in Name /\ Files \subseteq Seq(Name)
    /\ MaxBad \in Nat /\ MaxId \in Nat
    /\ Nil \notin Int /\ Nil \notin Row

VARIABLES
    rows, \* rows[i]: the row with id i, or Nil
    nid,  \* ids drawn so far; an id is never drawn twice
    req,  \* req[r]: what the handler r has to do and what it has read
    kept  \* history: kept[r], rows there since r began: those a page has yet to show,
          \* those an import has read or created

vars == <<rows, nid, req, kept>>

Query == [list: Listing \cup Kind, of: Id \cup {Nil}]
Idle == [pc |-> "idle", of |-> Nil, todo |-> <<>>, seen |-> {}]

TypeOK ==
    /\ nid \in 0 .. MaxId
    /\ rows \in [Id -> Row \cup {Nil}] /\ \A i \in Id : rows[i] # Nil => i <= nid
    /\ \A r \in Req :
          \/ req[r] = Idle
          \/ /\ req[r].pc \in {"page", "unlink"} /\ req[r].of \in Id \cup {Nil}
             /\ req[r].todo \in Seq(Query) /\ req[r].seen \subseteq Id
          \/ /\ req[r].pc = "import" /\ req[r].of \in Id
             /\ req[r].todo \in Seq(Name) /\ req[r].seen \subseteq Name
    /\ kept \in [Req -> SUBSET Id]

Init ==
    /\ rows = [i \in Id |-> Nil] /\ nid = 0
    /\ req = [r \in Req |-> Idle] /\ kept = [r \in Req |-> {}]

---------------------------------------------------------------------------
\* The tables.

Is(i, k) == i # Nil /\ rows[i] # Nil /\ rows[i].kind = k
All(k) == {i \in Id : Is(i, k)}
In(k, p) == {i \in All(k) : rows[i].parent = p}
Existing == {i \in Id : rows[i] # Nil}

\* The foreign keys, and the check that a secret is in a folder or in an
\* environment, not in both and not in none.
Parents(k) == CASE k = "environment" -> {"project"}
                [] k = "folder" -> {"environment"}
                [] k = "secret" -> {"folder", "environment"}
                [] k = "attachment" -> {"secret"}
                [] OTHER -> {}
ParentOK(k, p) == IF k = "project" THEN p = Nil ELSE \E k2 \in Parents(k) : Is(p, k2)

\* ON DELETE CASCADE: four levels below a project at most.
WithKids(S) == S \cup {i \in Existing : rows[i].parent \in S}
Cascade(i) == WithKids(WithKids(WithKids(WithKids({i}))))

\* COALESCE(f.environment_id, s.environment_id), f left-joined to the secret s.
EnvOf(s) == IF Is(rows[s].parent, "folder") THEN rows[rows[s].parent].parent ELSE rows[s].parent

\* AllSecretsWithPath: the secrets that the joins to environment and project keep.
AllWithFolder ==
    {s \in All("secret") : /\ Is(rows[s].parent, "folder") /\ Is(EnvOf(s), "environment")
                           /\ Is(rows[EnvOf(s)].parent, "project")}
AllSecretsWithPath ==
    {s \in All("secret") : Is(EnvOf(s), "environment") /\ Is(rows[EnvOf(s)].parent, "project")}
Path(s) == {s, rows[s].parent, EnvOf(s), rows[EnvOf(s)].parent}

\* Search: Nil if one row on one path is unreadable, wherever the hits are.
Search(n) ==
    IF n = Empty THEN {}
    ELSE IF \E s \in AllSecretsWithPath : \E i \in Path(s) : ~rows[i].good THEN Nil
    ELSE {s \in AllSecretsWithPath : \E i \in Path(s) : rows[i].name = n}

\* ProjectCounts, EnvCounts and FolderCounts.
CountsInFolders(p) ==
    [envs |-> Cardinality(In("environment", p)),
     secrets |-> Cardinality({s \in All("secret") :
                    \E f \in All("folder") : rows[s].parent = f /\ rows[EnvOf(s)].parent = p})]
ProjectCounts(p) ==
    [envs |-> Cardinality(In("environment", p)),
     secrets |-> Cardinality({s \in All("secret") : EnvOf(s) \in In("environment", p)})]
EnvCounts(e) ==
    [folders |-> Cardinality(In("folder", e)),
     secrets |-> Cardinality({s \in All("secret") : EnvOf(s) = e})]
FolderCounts(f) == Cardinality(In("secret", f))

---------------------------------------------------------------------------
\* Statements.  A write seals the row under the handler's key, good or not.

Sealings == IF Cardinality({i \in Existing : ~rows[i].good}) < MaxBad THEN BOOLEAN ELSE {TRUE}

Insert(k, p, n, g) ==
    /\ ParentOK(k, p) /\ nid < MaxId /\ nid' = nid + 1
    /\ rows' = [rows EXCEPT ![nid + 1] = [kind |-> k, parent |-> p, name |-> n, good |-> g]]

Update(k, i, n) ==
    /\ Is(i, k) /\ UNCHANGED nid
    /\ \E g \in Sealings : rows' = [rows EXCEPT ![i].name = n, ![i].good = g]

\* The row and, by cascade, what is below it; gone from the history too.
DeleteAlone(k, i) ==
    /\ Is(i, k) /\ UNCHANGED nid
    /\ rows' = [rows EXCEPT ![i] = Nil]
DeleteRow(k, i) ==
    /\ Is(i, k) /\ UNCHANGED nid
    /\ rows' = [j \in Id |-> IF j \in Cascade(i) THEN Nil ELSE rows[j]]
Forget(S) == [q \in Req |-> kept[q] \ S]

\* An import in flight does not know of names given after it began.
Renamed(i) == [q \in Req |-> IF req[q].pc = "import" THEN kept[q] \ {i} ELSE kept[q]]

---------------------------------------------------------------------------
\* Pages: queries to make.  The page about row i is the tree of a project or the
\* files of a secret; about Nil, the home page.

Scope(i) == IF i = Nil THEN All("project")
            ELSE IF Is(i, "secret") THEN In("attachment", i)
            ELSE {j \in Cascade(i) : ~Is(j, "attachment")}

Do(l, i) == [list |-> l, of |-> i]
Page(qs) == [Idle EXCEPT !.pc = "page", !.todo = qs]
Home == Page(<<Do("projects", Nil)>>)
attachList(s) == Page(<<Do("attachments", s)>>)

Begin(r, page) == req' = [req EXCEPT ![r] = page]
End(r) == /\ Begin(r, Idle)
          /\ kept' = [kept EXCEPT ![r] = {}]

home(r) == /\ req[r] = Idle /\ Begin(r, Home)
           /\ kept' = [kept EXCEPT ![r] = All("project")]
           /\ UNCHANGED <<rows, nid>>
viewProject(r, p) ==
    /\ req[r] = Idle /\ Is(p, "project")
    /\ Begin(r, Page(<<Do("project", p), Do("environments", p)>>))
    /\ kept' = [kept EXCEPT ![r] = Scope(p)]
    /\ UNCHANGED <<rows, nid>>
secretDetail(r, s) ==
    /\ req[r] = Idle /\ Is(s, "secret")
    /\ Begin(r, Page(<<Do("secret", s), Do("attachments", s)>>))
    /\ kept' = [kept EXCEPT ![r] = Scope(s)]
    /\ UNCHANGED <<rows, nid>>

\* The rows of a query.
Rows(q) == CASE q.list = "projects" -> All("project")
             [] q.list = "environments" -> In("environment", q.of)
             [] q.list = "folders" -> In("folder", q.of)
             [] q.list \in {"secrets", "loose"} -> In("secret", q.of)
             [] q.list = "attachments" -> In("attachment", q.of)
             [] OTHER -> {q.of} \cap All(q.list)

\* What is asked about the rows in S: the folders of each environment, then the
\* secrets of each folder and the environment's own.  (The counts of each project
\* show no row and fail no page.)
FollowUpFolders(q, S) ==
    LET each(l) == [j \in 1 .. Cardinality(S) |-> Do(l, SetToSeq(S)[j])]
    IN  CASE q.list = "environments" -> each("folders")
          [] q.list = "folders" ->
               each("secrets") \o (IF S = {} THEN <<Do("loose", q.of)>> ELSE <<>>)
          [] OTHER -> <<>>
FollowUp(q, S) ==
    LET each(l) == [j \in 1 .. Cardinality(S) |-> Do(l, SetToSeq(S)[j])]
    IN  CASE q.list = "environments" -> each("folders")
          [] q.list = "folders" -> each("secrets") \o <<Do("loose", q.of)>>
          [] OTHER -> <<>>

\* One query.  No such row, or one that does not open, and the answer is an error;
\* after updateSecret the panel is shown without its files instead.
Ask(r) ==
    /\ req[r].pc = "page" /\ req[r].todo # <<>>
    /\ LET q == Head(req[r].todo)
           S == Rows(q)
       IN  IF (\A i \in S : rows[i].good) /\ (q.list \in Kind => S # {})
           THEN /\ req' = [req EXCEPT ![r].todo = FollowUp(q, S) \o Tail(@)]
                /\ kept' = [kept EXCEPT ![r] = @ \ S]
           ELSE End(r)
    /\ UNCHANGED <<rows, nid>>

Shown(r) ==
    /\ req[r].pc = "page" /\ req[r].todo = <<>>
    /\ End(r)
    /\ UNCHANGED <<rows, nid>>

---------------------------------------------------------------------------
\* Handlers that write.

\* createEnvironment, createFolder, createSecret: an empty name creates nothing.
CreateUnder(r, k, p, n) ==
    /\ req[r] = Idle /\ k \in {"environment", "folder", "secret"} /\ n # Empty
    /\ \E g \in Sealings : Insert(k, p, n, g)
    /\ UNCHANGED <<req, kept>>

\* createProject: the home page follows, with or without a new project.
createProject(r, n) ==
    /\ req[r] = Idle
    /\ IF n = Empty THEN UNCHANGED <<rows, nid>>
       ELSE \E g \in Sealings : Insert("project", Nil, n, g)
    /\ Begin(r, Home)
    /\ kept' = [kept EXCEPT ![r] = All("project")']

\* uploadAttachment: a file that is missing, empty or too large is not stored.  A
\* stored file's name is never empty.
uploadAttachment(r, s, n) ==
    /\ req[r] = Idle
    /\ IF n = Empty THEN Is(s, "secret") /\ UNCHANGED <<rows, nid>>
       ELSE \E g \in Sealings : Insert("attachment", s, n, g)
    /\ Begin(r, attachList(s))
    /\ kept' = [kept EXCEPT ![r] = Scope(s)']

\* renameEnvironment and renameFolder: the empty name is accepted.
RenameNode(r, k, i, n) ==
    /\ req[r] = Idle /\ k \in {"environment", "folder"}
    /\ Update(k, i, n)
    /\ UNCHANGED <<req, kept>>

renameProject(r, p, n) ==
    /\ req[r] = Idle /\ Update("project", p, n)
    /\ Begin(r, Home)
    /\ kept' = [kept EXCEPT ![r] = All("project")]

updateSecret(r, s, n) ==
    /\ req[r] = Idle /\ Update("secret", s, n)
    /\ Begin(r, attachList(s))
    /\ kept' = [Renamed(s) EXCEPT ![r] = Scope(s)]

\* deleteProject, deleteEnvironment, deleteFolder, deleteSecret.
Delete(r, k, i) ==
    /\ req[r] = Idle /\ k # "attachment"
    /\ DeleteRow(k, i) /\ kept' = Forget(Cascade(i))
    /\ UNCHANGED req

\* deleteAttachment: the secret it belongs to, the DELETE, the list of the others.
deleteAttachment(r, i) ==
    /\ req[r] = Idle /\ Is(i, "attachment")
    /\ req' = [req EXCEPT ![r] = [pc |-> "unlink", of |-> i, todo |-> <<>>,
                                  seen |-> {rows[i].parent}]]
    /\ UNCHANGED <<rows, nid, kept>>

Unlink(r) ==
    /\ req[r].pc = "unlink"
    /\ \E s \in req[r].seen :
          IF Is(req[r].of, "attachment")
          THEN /\ DeleteRow("attachment", req[r].of)
               /\ Begin(r, attachList(s))
               /\ kept' = [Forget({req[r].of}) EXCEPT ![r] = In("attachment", s) \ {req[r].of}]
          ELSE End(r) /\ UNCHANGED <<rows, nid>>

---------------------------------------------------------------------------
\* importEnv into the environment or folder t: the names there, then one INSERT
\* for each name of the file.  A listing that fails counts as empty.

importEnv(r, t, file) ==
    /\ req[r] = Idle /\ file # <<>>
    /\ LET S == In("secret", t)
           read == IF \A i \in S : rows[i].good THEN S ELSE {}
       IN  /\ Begin(r, [pc |-> "import", of |-> t, todo |-> file,
                        seen |-> {rows[i].name : i \in read}])
           /\ kept' = [kept EXCEPT ![r] = read]
    /\ UNCHANGED <<rows, nid>>

\* The handler r goes on after the INSERT of the secrets in new, if it succeeded.
Imported(r, seen, new) ==
    IF Len(req[r].todo) = 1 THEN End(r)
    ELSE /\ req' = [req EXCEPT ![r].todo = Tail(@), ![r].seen = seen]
         /\ kept' = [kept EXCEPT ![r] = @ \cup new]

ImportUnmarked(r) ==
    /\ req[r].pc = "import"
    /\ LET n == Head(req[r].todo)
       IN  IF n # Empty /\ n \notin req[r].seen /\ ParentOK("secret", req[r].of)
           THEN /\ \E g \in Sealings : Insert("secret", req[r].of, n, g)
                /\ Imported(r, req[r].seen, {nid'})
           ELSE Imported(r, req[r].seen, {}) /\ UNCHANGED <<rows, nid>>
ImportName(r) ==
    /\ req[r].pc = "import"
    /\ LET n == Head(req[r].todo)
           seen == IF n = Empty THEN req[r].seen ELSE req[r].seen \cup {n}
       IN  IF n # Empty /\ n \notin req[r].seen /\ ParentOK("secret", req[r].of)
           THEN /\ \E g \in Sealings : Insert("secret", req[r].of, n, g)
                /\ Imported(r, seen, {nid'})
           ELSE Imported(r, seen, {}) /\ UNCHANGED <<rows, nid>>

---------------------------------------------------------------------------

Next ==
    \E r \in Req :
        \/ home(r) \/ Ask(r) \/ Shown(r) \/ Unlink(r) \/ ImportName(r)
        \/ \E i \in Id : \/ viewProject(r, i) \/ secretDetail(r, i) \/ deleteAttachment(r, i)
                         \/ \E k \in Kind : Delete(r, k, i)
                         \/ \E file \in Files : importEnv(r, i, file)
        \/ \E n \in Name : \/ createProject(r, n)
                           \/ \E i \in Id : \/ uploadAttachment(r, i, n)
                                            \/ renameProject(r, i, n) \/ updateSecret(r, i, n)
                                            \/ \E k \in Kind : CreateUnder(r, k, i, n)
                                                               \/ RenameNode(r, k, i, n)

Spec == Init /\ [][Next]_vars

---------------------------------------------------------------------------

\* No row is left behind: a row's parent exists and is of the right kind,
\* whatever is deleted while handlers create rows.
NoOrphans == \A i \in Existing : ParentOK(rows[i].kind, rows[i].parent)

\* Search, which resolves a secret's path by joins through its folder or directly
\* to its environment, finds exactly the secrets that are named so or that a row
\* named so would take along if it were deleted; or some row is unreadable.
SearchFinds ==
    \A n \in Name \ {Empty} :
        \/ Search(n) = {s \in All("secret") : \E i \in Existing : rows[i].name = n /\ s \in Cascade(i)}
        \/ Search(n) = Nil /\ \E i \in Existing : ~rows[i].good

\* "cascade counts": the numbers on a project's card and those for environments
\* and folders, computed by joins, are what deleting the row would remove.
CountsMatchCascade ==
    LET below(i, k) == Cardinality(Cascade(i) \cap All(k))
    IN  /\ \A p \in All("project") :
              ProjectCounts(p) = [envs |-> below(p, "environment"), secrets |-> below(p, "secret")]
        /\ \A e \in All("environment") :
              EnvCounts(e) = [folders |-> below(e, "folder"), secrets |-> below(e, "secret")]
        /\ \A f \in All("folder") : FolderCounts(f) = below(f, "secret")

\* A page, put together from many queries while other handlers create, rename and
\* delete, shows every row it is about that was there all the time: the projects,
\* the tree of a project down to its secrets, the files of a secret.
PageComplete ==
    \A r \in Req : req[r].pc = "page" /\ req[r].todo = <<>> => kept[r] = {}

\* An import, whatever runs beside it, creates no secret under a name that it has
\* read in its target or has itself created there, and that is still there.
ImportSkipsRead ==
    [][\A r \in Req : req[r].pc = "import" /\ req'[r] # req[r] /\ nid' # nid =>
          \A i \in kept[r] : rows[i].name # rows'[nid'].name]_vars

\* The stronger claim, which fails when handlers overlap and when the listing of
\* the target fails: no secret under a name that its target has already.
ImportSkipsExisting ==
    [][\A r \in Req : req[r].pc = "import" /\ req'[r] # req[r] /\ nid' # nid =>
          \A i \in In("secret", req[r].of) : rows[i].name # rows'[nid'].name]_vars

=============================================================================
