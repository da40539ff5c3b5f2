-------------------------- MODULE SettingsProofs --------------------------
(***************************************************************************)
(* For any environments, forms, handlers and crashes: the schema at every  *)
(* start, the floors of what is in force, and that what is in force is     *)
(* what is stored when saves come one at a time.                           *)
(***************************************************************************)
EXTENDS Settings, SequenceTheorems, TLAPS

\* The version counts the migrations that are in the database, also between two
\* of them, and only the newest version gets past Open.
SchemaInv ==
    /\ DOMAIN disk = {"ver", "tables", "kv"}
    /\ disk.ver \in 0 .. Latest + 1 /\ disk.tables = 1 .. disk.ver
    /\ pc \in {"open", "merge", "up"} => disk.ver <= Latest
    /\ pc \in {"merge", "up"} => disk.ver = Latest

\* What is stored is beside the schema.
LEMMA SchemaKept ==
    ASSUME SchemaInv, DOMAIN disk' = {"ver", "tables", "kv"},
           disk'.ver = disk.ver, disk'.tables = disk.tables,
           pc' = pc \/ pc' = "down" \/ (pc = "merge" /\ pc' = "up")
             \/ (pc' = "open" /\ disk.ver <= Latest) \/ (pc' = "merge" /\ disk.ver = Latest)
    PROVE  SchemaInv'
BY DEF SchemaInv, Latest

\* One migration adds its tables and its number together.
LEMMA SchemaMigrate == ASSUME SchemaInv, Migrate PROVE SchemaInv'
<1>1. disk.ver \in 0 .. 3 /\ disk.tables = 1 .. disk.ver
    BY DEF Migrate, SchemaInv, Latest
<1>2. /\ disk'.ver = disk.ver + 1 /\ disk'.tables = disk.tables \cup {disk.ver + 1}
      /\ DOMAIN disk' = {"ver", "tables", "kv"} /\ pc' = "open"
    BY DEF Migrate, SchemaInv
<1>3. disk'.tables = 1 .. disk'.ver
    BY <1>1, <1>2
<1> QED BY <1>1, <1>2, <1>3 DEF SchemaInv, Latest

\* Another step: what is outside the schema, the steps of a start, a crash.
LEMMA SchemaStep == ASSUME SchemaInv, [Next]_vars PROVE SchemaInv'
<1>1. CASE Start
    BY <1>1, SchemaKept DEF Start, SchemaInv
<1>2. CASE Opened
    BY <1>2, SchemaKept DEF Opened, SchemaInv
<1>3. CASE Merge
    BY <1>3, SchemaKept DEF Merge, SchemaInv
<1>4. CASE Crash
    BY <1>4, SchemaKept DEF Crash, SchemaInv
<1>5. ASSUME NEW e \in Envs, Configure(e) PROVE SchemaInv'
    BY <1>5, SchemaKept DEF Configure, SchemaInv
<1>6. ASSUME NEW k \in DOMAIN Blank, Edit(k) PROVE SchemaInv'
  <2>1. DOMAIN disk' = DOMAIN disk /\ disk'.ver = disk.ver /\ disk'.tables = disk.tables
    BY <1>6 DEF Edit, SchemaInv
  <2> QED BY <1>6, <2>1, SchemaKept DEF Edit, SchemaInv
<1>7. ASSUME NEW v \in 1 .. Latest, Restored(v) PROVE SchemaInv'
  <2>1. DOMAIN disk' = {"ver", "tables", "kv"} /\ disk'.ver = v /\ disk'.tables = 1 .. v
    BY <1>7 DEF Restored, Database
  <2> QED BY <1>7, <2>1 DEF Restored, SchemaInv, Latest
<1>8. ASSUME NEW r \in Req,
             \/ \E f \in BackupForms : SaveBackup(r, f)
             \/ \E f \in SessionForms : SaveSession(r, f)
             \/ SetSchedule(r) \/ SetTimeouts(r)
      PROVE  SchemaInv'
  <2>1. /\ DOMAIN disk' = DOMAIN disk /\ disk'.ver = disk.ver /\ disk'.tables = disk.tables
        /\ pc' = pc
    BY <1>8 DEF SaveBackup, SaveSession, SetSchedule, SetTimeouts, SchemaInv
  <2> QED BY <2>1, SchemaKept DEF SchemaInv
<1>9. CASE UNCHANGED vars
    BY <1>9, SchemaKept DEF vars, SchemaInv
<1> QED BY <1>1, <1>2, <1>3, <1>4, <1>5, <1>6, <1>7, <1>8, <1>9, SchemaMigrate DEF Next

\* However often a start is interrupted, on a database of whatever release, requests
\* are served on the newest schema only, with all of its tables.
THEOREM SchemaAlwaysComplete == Spec => []SchemaComplete
<1>1. Init => SchemaInv
  <2>1. SUFFICES ASSUME Init PROVE SchemaInv
    OBVIOUS
  <2>2. PICK v \in 0 .. Latest + 1 : disk \in Database(v)
    BY <2>1 DEF Init
  <2>3. DOMAIN disk = {"ver", "tables", "kv"} /\ disk.ver = v /\ disk.tables = 1 .. v
    BY <2>2 DEF Database
  <2>4. pc = "down"
    BY <2>1 DEF Init
  <2> QED BY <2>3, <2>4 DEF SchemaInv
<1>2. SchemaInv => SchemaComplete
    BY DEF SchemaInv, SchemaComplete
<1> QED BY <1>1, <1>2, SchemaStep, PTL DEF Spec

---------------------------------------------------------------------------
\* The text of a duration is read back as the duration it was written from.

\* The sum over a text of one, two or three numbers: the recursion of ParseDuration has
\* a solution, and that solution is what the additions give.
Sums(t) == CHOOSE sum : sum = [k \in 0 .. Len(t) |->
                IF k = 0 THEN 0 ELSE sum[k - 1] + t[k][1] * Seconds(t[k][2])]

LEMMA SumOf ==
    ASSUME NEW t \in Seq(Nat \X {"h", "m", "s"}), Len(t) \in 1 .. 3
    PROVE  LET v(k) == t[k][1] * Seconds(t[k][2])
           IN  Sums(t)[Len(t)] = v(1) + (IF Len(t) > 1 THEN v(2) ELSE 0) + (IF Len(t) > 2 THEN v(3) ELSE 0)
<1> DEFINE v(k) == t[k][1] * Seconds(t[k][2])
           g == [k \in 0 .. Len(t) |-> IF k = 0 THEN 0 ELSE IF k = 1 THEN v(1)
                                       ELSE IF k = 2 THEN v(1) + v(2) ELSE v(1) + v(2) + v(3)]
           IsSum(f) == f = [k \in 0 .. Len(t) |-> IF k = 0 THEN 0 ELSE f[k - 1] + v(k)]
<1>1. \A k \in 1 .. Len(t) : v(k) \in Nat
  <2> TAKE k \in 1 .. Len(t)
  <2>1. t[k] \in Nat \X {"h", "m", "s"}
    OBVIOUS
  <2>2. t[k][1] \in Nat
    BY <2>1
  <2>3. Seconds(t[k][2]) \in Nat
    BY DEF Seconds
  <2> QED BY <2>2, <2>3
<1> HIDE DEF v
<1>2. Len(t) \in Nat /\ \A k \in 1 .. Len(t) : k = 1 \/ k = 2 \/ k = 3
  <2>1. \A n \in 1 .. 3 : n \in Nat /\ \A k \in 1 .. n : k = 1 \/ k = 2 \/ k = 3
    OBVIOUS
  <2> QED BY <2>1
<1>3. IsSum(g)
  <2>1. \A k \in 1 .. Len(t) : g[k] = g[k - 1] + v(k)
    <3> TAKE k \in 1 .. Len(t)
    <3>1. k = 1 \/ k = 2 \/ k = 3
      BY <1>2
    <3>2. CASE k = 1
      BY <1>1, <3>2
    <3>3. CASE k = 2
      BY <1>1, <3>3
    <3>4. CASE k = 3
      BY <1>1, <3>4
    <3> QED BY <3>1, <3>2, <3>3, <3>4
  <2>2. g = [k \in 0 .. Len(t) |-> g[k]]
    OBVIOUS
  <2>3. g[0] = 0
    BY <1>2
  <2> HIDE DEF g
  <2>4. \A k \in 0 .. Len(t) : g[k] = IF k = 0 THEN 0 ELSE g[k - 1] + v(k)
    BY <1>2, <2>1, <2>3
  <2> QED BY <2>2, <2>4
<1>4. Sums(t) = CHOOSE f : IsSum(f)
    BY DEF Sums, v
<1> HIDE DEF g
<1>5. IsSum(CHOOSE f : IsSum(f))
    BY <1>3
<1> DEFINE s == Sums(t)
<1>6. IsSum(s)
    BY <1>4, <1>5
<1> HIDE DEF s
<1>7. s[0] = 0 /\ \A k \in 1 .. Len(t) : s[k] = s[k - 1] + v(k)
  <2>1. \A k \in 0 .. Len(t) : s[k] = IF k = 0 THEN 0 ELSE s[k - 1] + v(k)
    BY <1>6
  <2> QED BY <1>2, <2>1
<1> HIDE DEF IsSum
<1>8. s[Len(t)] = v(1) + (IF Len(t) > 1 THEN v(2) ELSE 0) + (IF Len(t) > 2 THEN v(3) ELSE 0)
  <2>1. CASE Len(t) = 1
    BY <1>1, <1>7, <2>1
  <2>2. CASE Len(t) = 2
    <3>1. s[1] = s[0] + v(1) /\ s[2] = s[1] + v(2)
      BY <1>7, <2>2
    <3> QED BY <1>1, <1>7, <2>2, <3>1
  <2>3. CASE Len(t) = 3
    <3>1. s[1] = s[0] + v(1) /\ s[2] = s[1] + v(2) /\ s[3] = s[2] + v(3)
      BY <1>7, <2>3
    <3> QED BY <1>1, <1>7, <2>3, <3>1
  <2> QED BY <2>1, <2>2, <2>3
<1> QED BY <1>8 DEF s, v

LEMMA ParsedSum ==
    ASSUME NEW t, t # Bad
    PROVE  ParseDuration(t) = Sums(t)[Len(t)]
BY DEF ParseDuration, Sums

\* Hours, minutes and seconds make the duration.
LEMMA Parts ==
    ASSUME NEW d \in Nat
    PROVE  /\ d \div 3600 \in Nat /\ (d \div 60) % 60 \in 0 .. 59 /\ d % 60 \in 0 .. 59
           /\ d = (d \div 3600) * 3600 + ((d \div 60) % 60) * 60 + (d % 60)
           /\ d < 3600 => d \div 3600 = 0
           /\ d < 60 => (d \div 60) % 60 = 0
OBVIOUS

Unit == {"h", "m", "s"}

LEMMA Parsed1 ==
    ASSUME NEW a \in Nat, NEW u \in Unit, <<<<a, u>>>> # Bad
    PROVE  ParseDuration(<<<<a, u>>>>) = a * Seconds(u)
<1> DEFINE t == <<<<a, u>>>>
<1>1. t \in Seq(Nat \X {"h", "m", "s"}) /\ Len(t) = 1 /\ t[1][1] = a /\ t[1][2] = u
    BY DEF Unit
<1>2. ParseDuration(t) = Sums(t)[Len(t)]
    BY ParsedSum
<1> HIDE DEF t
<1>3. Sums(t)[Len(t)] = a * Seconds(u) + 0 + 0
    BY <1>1, SumOf
<1>4. Seconds(u) \in Nat
    BY DEF Seconds
<1> QED BY <1>2, <1>3, <1>4 DEF t

LEMMA Parsed2 ==
    ASSUME NEW a \in Nat, NEW u \in Unit, NEW b \in Nat, NEW v \in Unit,
           <<<<a, u>>, <<b, v>>>> # Bad
    PROVE  ParseDuration(<<<<a, u>>, <<b, v>>>>) = a * Seconds(u) + b * Seconds(v)
<1> DEFINE t == <<<<a, u>>, <<b, v>>>>
<1>1. /\ t \in Seq(Nat \X {"h", "m", "s"}) /\ Len(t) = 2
      /\ t[1][1] = a /\ t[1][2] = u /\ t[2][1] = b /\ t[2][2] = v
    BY DEF Unit
<1>2. ParseDuration(t) = Sums(t)[Len(t)]
    BY ParsedSum
<1> HIDE DEF t
<1>3. Sums(t)[Len(t)] = a * Seconds(u) + b * Seconds(v) + 0
    BY <1>1, SumOf
<1>4. Seconds(u) \in Nat /\ Seconds(v) \in Nat
    BY DEF Seconds
<1> QED BY <1>2, <1>3, <1>4 DEF t

LEMMA Parsed3 ==
    ASSUME NEW a \in Nat, NEW u \in Unit, NEW b \in Nat, NEW v \in Unit,
           NEW c \in Nat, NEW w \in Unit, <<<<a, u>>, <<b, v>>, <<c, w>>>> # Bad
    PROVE  ParseDuration(<<<<a, u>>, <<b, v>>, <<c, w>>>>)
             = a * Seconds(u) + b * Seconds(v) + c * Seconds(w)
<1> DEFINE t == <<<<a, u>>, <<b, v>>, <<c, w>>>>
<1>1. /\ t \in Seq(Nat \X {"h", "m", "s"}) /\ Len(t) = 3
      /\ t[1][1] = a /\ t[1][2] = u /\ t[2][1] = b /\ t[2][2] = v /\ t[3][1] = c /\ t[3][2] = w
    BY DEF Unit
<1>2. ParseDuration(t) = Sums(t)[Len(t)]
    BY ParsedSum
<1> HIDE DEF t
<1>3. Len(t) \in 1 .. 3 /\ Len(t) > 1 /\ Len(t) > 2
    BY <1>1
<1>4. Sums(t)[Len(t)] = t[1][1] * Seconds(t[1][2]) + t[2][1] * Seconds(t[2][2])
                          + t[3][1] * Seconds(t[3][2])
    BY ONLY <1>1, <1>3, SumOf, Zenon
<1> QED BY <1>1, <1>2, <1>4 DEF t

\* A number of a text, with its unit.
Field == Nat \X Unit

\* Trim removes the last number of a text that has one more.
LEMMA TrimLast ==
    ASSUME NEW s \in Seq(Field), NEW t \in Seq(Field), NEW unit, Len(t) = Len(s) - 1, Len(s) > 1,
           \A i \in 1 .. Len(t) : t[i] = s[i], s[Len(s)] = <<0, unit>>
    PROVE  Trim(s, unit) = t
<1> DEFINE n == Len(s) - 1
           u == SubSeq(s, 1, n)
<1>1. n \in Int /\ 1 \in Int /\ n = Len(t) /\ Len(t) >= 1 /\ \A i \in 1 .. n : s[i] \in Field
    OBVIOUS
<1>2. /\ u \in Seq(Field) /\ Len(u) = IF 1 <= n THEN n - 1 + 1 ELSE 0
      /\ \A i \in 1 .. n - 1 + 1 : u[i] = s[1 + i - 1]
    BY <1>1, SubSeqProperties
<1>3. Trim(s, unit) = u
    BY DEF Trim
<1> HIDE DEF u, n
<1>4. Len(u) = Len(t)
    BY <1>1, <1>2
<1>5. \A i \in 1 .. Len(u) : u[i] = t[i]
    BY <1>1, <1>2, <1>4
<1> QED BY <1>2, <1>3, <1>4, <1>5, SeqEqual

\* What Trim does with a text of one, two and three numbers.
LEMMA Trim1 == \A a \in Field : \A unit : Trim(<<a>>, unit) = <<a>>
<1> SUFFICES ASSUME NEW a \in Field, NEW unit PROVE Trim(<<a>>, unit) = <<a>>
    OBVIOUS
<1> QED BY DEF Trim

LEMMA Trim2 ==
    \A a, b \in Field : \A unit :
        /\ b = <<0, unit>> => Trim(<<a, b>>, unit) = <<a>>
        /\ b # <<0, unit>> => Trim(<<a, b>>, unit) = <<a, b>>
<1> TAKE a, b \in Field
<1> TAKE unit
<1> DEFINE s == <<a, b>>
           t == <<a>>
<1>1. /\ s \in Seq(Field) /\ t \in Seq(Field) /\ Len(s) = 2 /\ Len(t) = 1
      /\ s[1] = a /\ s[2] = b /\ t[1] = a
    OBVIOUS
<1> HIDE DEF s, t
<1>2. /\ Len(s) > 1 /\ Len(t) = Len(s) - 1 /\ s[Len(s)] = b
      /\ \A i \in 1 .. Len(t) : t[i] = s[i]
    BY <1>1
<1>3. b = <<0, unit>> => Trim(s, unit) = t
    BY <1>1, <1>2, TrimLast
<1>4. b # <<0, unit>> => Trim(s, unit) = s
    BY <1>1 DEF Trim
<1> QED BY <1>3, <1>4 DEF s, t

LEMMA Trim3 ==
    \A a, b, c \in Field : \A unit :
        /\ c = <<0, unit>> => Trim(<<a, b, c>>, unit) = <<a, b>>
        /\ c # <<0, unit>> => Trim(<<a, b, c>>, unit) = <<a, b, c>>
<1> TAKE a, b, c \in Field
<1> TAKE unit
<1> DEFINE s == <<a, b, c>>
           t == <<a, b>>
<1>1. /\ s \in Seq(Field) /\ t \in Seq(Field) /\ Len(s) = 3 /\ Len(t) = 2
      /\ s[1] = a /\ s[2] = b /\ s[3] = c /\ t[1] = a /\ t[2] = b
    OBVIOUS
<1> HIDE DEF s, t
<1>2. /\ Len(s) > 1 /\ Len(t) = Len(s) - 1 /\ s[Len(s)] = c
      /\ \A i \in 1 .. Len(t) : t[i] = s[i]
    BY <1>1
<1>3. c = <<0, unit>> => Trim(s, unit) = t
    BY <1>1, <1>2, TrimLast
<1>4. c # <<0, unit>> => Trim(s, unit) = s
    BY <1>1 DEF Trim
<1> QED BY <1>3, <1>4 DEF s, t

\* Zero parts are dropped from the end of the text, and never the only one.
LEMMA TextReadBack ==
    ASSUME NEW d \in Nat \ {0}, shortDur(d) # Bad
    PROVE  ParseDuration(shortDur(d)) = d
<1> DEFINE h == d \div 3600
           m == (d \div 60) % 60
           s == d % 60
           t == shortDur(d)
<1>1. /\ h \in Nat /\ m \in 0 .. 59 /\ s \in 0 .. 59 /\ d = h * 3600 + m * 60 + s
      /\ d < 3600 => h = 0
      /\ d < 60 => m = 0
    BY Parts
<1>2. String(d) = IF d >= 3600 THEN <<<<h, "h">>, <<m, "m">>, <<s, "s">>>>
                  ELSE IF d >= 60 THEN <<<<m, "m">>, <<s, "s">>>> ELSE <<<<s, "s">>>>
    BY DEF String
<1>3. t = Trim(Trim(String(d), "s"), "m") /\ t # Bad
    BY DEF shortDur
<1>4. Seconds("h") = 3600 /\ Seconds("m") = 60 /\ Seconds("s") = 1
    BY DEF Seconds
<1>5. {"h", "m", "s"} \subseteq Unit /\ m \in Nat /\ s \in Nat
    BY <1>1 DEF Unit
<1> DEFINE H == <<h, "h">>
           M == <<m, "m">>
           S == <<s, "s">>
<1>6. H \in Field /\ M \in Field /\ S \in Field
    BY <1>1, <1>5 DEF Field
<1>7. /\ S = <<0, "s">> <=> s = 0
      /\ M = <<0, "m">> <=> m = 0
      /\ S # <<0, "m">> /\ H # <<0, "m">> /\ M # <<0, "s">>
    BY <1>1
<1>8. String(d) = IF d >= 3600 THEN <<H, M, S>> ELSE IF d >= 60 THEN <<M, S>> ELSE <<S>>
    BY <1>2
<1> HIDE DEF h, m, s, t, H, M, S
\* Trim on the texts that may occur.
<1>9. /\ Trim(<<S>>, "s") = <<S>> /\ Trim(<<S>>, "m") = <<S>>
      /\ Trim(<<M>>, "m") = <<M>> /\ Trim(<<H>>, "m") = <<H>>
    BY <1>6, Trim1
<1>10. /\ s = 0 => Trim(<<M, S>>, "s") = <<M>>
       /\ s # 0 => Trim(<<M, S>>, "s") = <<M, S>>
       /\ Trim(<<M, S>>, "m") = <<M, S>>
       /\ m = 0 => Trim(<<H, M>>, "m") = <<H>>
       /\ m # 0 => Trim(<<H, M>>, "m") = <<H, M>>
    BY <1>6, <1>7, Trim2
<1>11. /\ s = 0 => Trim(<<H, M, S>>, "s") = <<H, M>>
       /\ s # 0 => Trim(<<H, M, S>>, "s") = <<H, M, S>>
       /\ Trim(<<H, M, S>>, "m") = <<H, M, S>>
    BY <1>6, <1>7, Trim3
<1>12. CASE d < 60
  <2>1. String(d) = <<S>>
    BY <1>8, <1>12
  <2>2. t = <<S>>
    BY <1>3, <1>9, <2>1
  <2>3. ParseDuration(t) = s * Seconds("s")
    BY <1>3, <1>5, <2>2, Parsed1 DEF S
  <2> QED BY <1>1, <1>4, <1>12, <2>3 DEF t
<1>13. CASE d >= 60 /\ d < 3600
  <2>1. String(d) = <<M, S>>
    BY <1>8, <1>13
  <2>2. CASE s = 0
    <3>1. t = <<M>>
      BY <1>3, <1>9, <1>10, <1>11, <2>1, <2>2
    <3>2. ParseDuration(t) = m * Seconds("m")
      BY <1>3, <1>5, <3>1, Parsed1 DEF M
    <3> QED BY <1>1, <1>4, <1>13, <2>2, <3>2 DEF t
  <2>3. CASE s # 0
    <3>1. t = <<M, S>>
      BY <1>3, <1>9, <1>10, <1>11, <2>1, <2>3
    <3>2. ParseDuration(t) = m * Seconds("m") + s * Seconds("s")
      BY <1>3, <1>5, <3>1, Parsed2 DEF M, S
    <3> QED BY <1>1, <1>4, <1>13, <3>2 DEF t
  <2> QED BY <2>2, <2>3
<1>14. CASE d >= 3600
  <2>1. String(d) = <<H, M, S>>
    BY <1>8, <1>14
  <2>2. CASE s # 0
    <3>1. t = <<H, M, S>>
      BY <1>3, <1>9, <1>10, <1>11, <2>1, <2>2
    <3>2. ParseDuration(t) = h * Seconds("h") + m * Seconds("m") + s * Seconds("s")
      <4>1. "h" \in Unit /\ "m" \in Unit /\ "s" \in Unit
        BY <1>5
      <4>2. <<<<h, "h">>, <<m, "m">>, <<s, "s">>>> # Bad
        BY <1>3, <3>1 DEF H, M, S
      <4>3. ParseDuration(<<<<h, "h">>, <<m, "m">>, <<s, "s">>>>)
              = h * Seconds("h") + m * Seconds("m") + s * Seconds("s")
        BY <1>1, <1>5, <4>1, <4>2, Parsed3
      <4> QED BY <3>1, <4>3 DEF H, M, S
    <3> QED BY <1>1, <1>4, <3>2 DEF t
  <2>3. CASE s = 0 /\ m # 0
    <3>1. t = <<H, M>>
      BY <1>3, <1>9, <1>10, <1>11, <2>1, <2>3
    <3>2. ParseDuration(t) = h * Seconds("h") + m * Seconds("m")
      BY <1>1, <1>3, <1>5, <3>1, Parsed2 DEF H, M
    <3> QED BY <1>1, <1>4, <2>3, <3>2 DEF t
  <2>4. CASE s = 0 /\ m = 0
    <3>1. t = <<H>>
      BY <1>3, <1>9, <1>10, <1>11, <2>1, <2>4
    <3>2. ParseDuration(t) = h * Seconds("h")
      BY <1>1, <1>3, <1>5, <3>1, Parsed1 DEF H
    <3> QED BY <1>1, <1>4, <2>4, <3>2 DEF t
  <2> QED BY <2>2, <2>3, <2>4
<1> QED BY <1>12, <1>13, <1>14

---------------------------------------------------------------------------
\* What is in force.

IsConfig(c) ==
    /\ c = [at |-> c.at, keep |-> c.keep, idle |-> c.idle, max |-> c.max, kdf |-> c.kdf]
    /\ c.keep \in Int /\ c.idle \in Int /\ c.max \in Int

Sane(c) == IsConfig(c) /\ c.at # Bad /\ c.keep >= 1 /\ 0 < c.idle /\ c.idle <= c.max

IdleOf(n) == IF n <= 0 THEN 1800 ELSE n

\* Validate as a record, with each field from the fields it depends on.
LEMMA Validated ==
    ASSUME NEW c, IsConfig(c)
    PROVE  Validate(c) = IF c.at = Bad THEN Nil
                         ELSE [at |-> c.at, keep |-> AtLeast(c.keep, 1), idle |-> IdleOf(c.idle),
                               max |-> AtLeast(c.max, IdleOf(c.idle)), kdf |-> c.kdf]
<1> DEFINE at == c.at
           keep == c.keep
           idle == c.idle
           max == c.max
           kdf == c.kdf
<1>1. c = [at |-> at, keep |-> keep, idle |-> idle, max |-> max, kdf |-> kdf]
    BY DEF IsConfig
<1>2. Validate(c) = IF at = Bad THEN Nil
                    ELSE [c EXCEPT !.keep = AtLeast(keep, 1), !.idle = IdleOf(idle),
                                   !.max = AtLeast(max, IdleOf(idle))]
    BY <1>1 DEF Validate, IdleOf
<1> HIDE DEF at, keep, idle, max, kdf
<1>3. Validate(c) = IF at = Bad THEN Nil
                    ELSE [at |-> at, keep |-> AtLeast(keep, 1), idle |-> IdleOf(idle),
                          max |-> AtLeast(max, IdleOf(idle)), kdf |-> kdf]
    BY <1>1, <1>2
<1> QED BY <1>3 DEF at, keep, idle, max, kdf

\* The floors hold after Validate.
LEMMA ValidateSane ==
    ASSUME NEW c, IsConfig(c), Validate(c) # Nil
    PROVE  Sane(Validate(c)) /\ Validate(c).kdf = c.kdf
<1> DEFINE v == Validate(c)
<1>1. c.at # Bad /\ v = [at |-> c.at, keep |-> AtLeast(c.keep, 1), idle |-> IdleOf(c.idle),
                         max |-> AtLeast(c.max, IdleOf(c.idle)), kdf |-> c.kdf]
    BY Validated
<1> HIDE DEF v
<1>2. /\ v.at = c.at /\ v.keep = AtLeast(c.keep, 1) /\ v.idle = IdleOf(c.idle)
      /\ v.max = AtLeast(c.max, IdleOf(c.idle)) /\ v.kdf = c.kdf
    BY <1>1
<1>3. /\ AtLeast(c.keep, 1) \in Int /\ AtLeast(c.keep, 1) >= 1
      /\ IdleOf(c.idle) \in Int /\ 0 < IdleOf(c.idle)
      /\ AtLeast(c.max, IdleOf(c.idle)) \in Int /\ IdleOf(c.idle) <= AtLeast(c.max, IdleOf(c.idle))
    BY DEF IsConfig, AtLeast, IdleOf
<1>4. IsConfig(v)
    BY <1>1, <1>2, <1>3 DEF IsConfig
<1>5. Sane(v)
    BY <1>1, <1>2, <1>3, <1>4 DEF Sane
<1> QED BY <1>2, <1>5 DEF v

\* The parameters of the key derivation as asked for.
Asked(e) == [mem |-> 1024 * EnvNum(e.mem, 64), time |-> EnvNum(e.time, 3),
             par |-> EnvNum(e.par, DefaultPar)]

LEMMA EnvIsNum ==
    ASSUME NEW e \in Envs
    PROVE  /\ EnvNum(e.keep, 14) \in Int /\ EnvNum(e.idle, 1800) \in Int /\ EnvNum(e.max, 43200) \in Int
           /\ EnvNum(e.mem, 64) \in Int /\ EnvNum(e.time, 3) \in Int /\ EnvNum(e.par, DefaultPar) \in Int
BY SettingsAssumption DEF EnvNum

\* No parameter wraps around: the range is checked before the narrowing.
LEMMA ArgonAsAsked ==
    ASSUME NEW e \in Envs, loadArgon(e) # Nil
    PROVE  loadArgon(e) = Asked(e)
<1> DEFINE mem == EnvNum(e.mem, 64)
           time == EnvNum(e.time, 3)
           par == EnvNum(e.par, DefaultPar)
<1>1. mem \in Int /\ time \in Int /\ par \in Int
    BY EnvIsNum
<1>2. loadArgon(e) = IF mem \in 19 .. 4096 /\ time \in 2 .. 30 /\ par \in 1 .. 255
                     THEN [mem |-> mem * 1024, time |-> time, par |-> par % 256] ELSE Nil
    BY DEF loadArgon
<1>3. Asked(e) = [mem |-> 1024 * mem, time |-> time, par |-> par]
    BY DEF Asked
<1> HIDE DEF mem, time, par
<1>4. par \in 1 .. 255 /\ loadArgon(e) = [mem |-> mem * 1024, time |-> time, par |-> par % 256]
    BY <1>2
<1>5. par % 256 = par /\ mem * 1024 = 1024 * mem
    BY <1>1, <1>4
<1> QED BY <1>3, <1>4, <1>5

\* What Load returns, if it returns something, keeps the floors.
LEMMA LoadSane ==
    ASSUME NEW e \in Envs, Load(e) # Nil
    PROVE  Sane(Load(e)) /\ Load(e).kdf = Asked(e)
<1> DEFINE c == [at |-> EnvText(e.at, DefaultAt), keep |-> EnvNum(e.keep, 14),
                 idle |-> EnvNum(e.idle, 1800), max |-> EnvNum(e.max, 43200),
                 kdf |-> loadArgon(e)]
<1>1. IsConfig(c) /\ c.kdf = loadArgon(e)
    BY EnvIsNum DEF IsConfig
<1>2. loadArgon(e) # Nil /\ Load(e) = Validate(c)
    BY DEF Load
<1> HIDE DEF c
<1> QED BY <1>1, <1>2, ValidateSane, ArgonAsAsked

\* What the stored rows may hold: a text that is parsed may be of any duration.
Parseable(t) == t \in {Nil, Bad} \/ ParseDuration(t) \in Int
KvOK(kv) ==
    /\ DOMAIN kv = {"at", "keep", "idle", "max"}
    /\ kv.keep \in Int \cup {Nil, Bad}
    /\ Parseable(kv.idle) /\ Parseable(kv.max)

\* The rows a database comes with.
LEMMA RowsOK == KvOK(Blank) /\ \A kv \in Rows : KvOK(kv)
<1>1. KvOK(Blank) /\ DOMAIN Blank = {"at", "keep", "idle", "max"}
    BY DEF KvOK, Blank, Parseable
<1> QED BY <1>1, RowsAssumption DEF KvOK, Parseable

KvNum(v, default) == IF v \in {Nil, Bad} THEN default ELSE v
KvDur(v, default) == IF v = Nil THEN default ELSE KvNum(ParseDuration(v), default)
KvAt(v, default) == IF v = Nil THEN default ELSE v

LEMMA DurIsInt ==
    ASSUME NEW v, Parseable(v), NEW default \in Int
    PROVE  KvDur(v, default) \in Int
<1>1. CASE v = Nil
    BY <1>1 DEF KvDur
<1>2. CASE v = Bad
    BY <1>2 DEF KvDur, KvNum, ParseDuration
<1>3. CASE v # Bad /\ v # Nil
    BY <1>3 DEF Parseable, KvDur, KvNum
<1> QED BY <1>1, <1>2, <1>3

\* WithOverrides as a record, with each field from the rows it depends on.
LEMMA OverriddenRecord ==
    ASSUME NEW c, IsConfig(c), NEW kv, KvOK(kv)
    PROVE  LET idle == IdleOf(KvDur(kv.idle, c.idle))
           IN  WithOverrides(c, kv) =
                 IF KvAt(kv.at, c.at) = Bad THEN Nil
                 ELSE [at |-> KvAt(kv.at, c.at), keep |-> AtLeast(KvNum(kv.keep, c.keep), 1),
                       idle |-> idle, max |-> AtLeast(KvDur(kv.max, c.max), idle), kdf |-> c.kdf]
<1> DEFINE o == [at |-> KvAt(kv.at, c.at), keep |-> KvNum(kv.keep, c.keep),
                 idle |-> KvDur(kv.idle, c.idle), max |-> KvDur(kv.max, c.max), kdf |-> c.kdf]
<1>1. KvNum(kv.keep, c.keep) \in Int /\ KvDur(kv.idle, c.idle) \in Int /\ KvDur(kv.max, c.max) \in Int
  <2>1. KvNum(kv.keep, c.keep) \in Int
    BY DEF KvNum, KvOK, IsConfig
  <2> QED BY <2>1, DurIsInt DEF KvOK, IsConfig
<1>2. IsConfig(o)
    BY <1>1 DEF IsConfig
<1>3. WithOverrides(c, kv) = Validate(o)
  <2>1. ASSUME NEW a, NEW k, NEW i, NEW m
        PROVE  [c EXCEPT !.at = a, !.keep = k, !.idle = i, !.max = m]
                 = [at |-> a, keep |-> k, idle |-> i, max |-> m, kdf |-> c.kdf]
    <3> DEFINE at == c.at
               keep == c.keep
               idle == c.idle
               max == c.max
               kdf == c.kdf
    <3>1. c = [at |-> at, keep |-> keep, idle |-> idle, max |-> max, kdf |-> kdf]
      BY DEF IsConfig
    <3> HIDE DEF at, keep, idle, max, kdf
    <3> DEFINE new == [c EXCEPT !.at = a, !.keep = k, !.idle = i, !.max = m]
               rec == [at |-> a, keep |-> k, idle |-> i, max |-> m, kdf |-> kdf]
    <3>2. DOMAIN new = {"at", "keep", "idle", "max", "kdf"}
      BY <3>1
    <3>3. new.at = a /\ new.keep = k /\ new.idle = i /\ new.max = m /\ new.kdf = kdf
      BY <3>1
    <3>4. new = [x \in DOMAIN new |-> new[x]]
      OBVIOUS
    <3>5. rec = [x \in {"at", "keep", "idle", "max", "kdf"} |-> rec[x]]
      OBVIOUS
    <3>6. rec.at = a /\ rec.keep = k /\ rec.idle = i /\ rec.max = m /\ rec.kdf = kdf
      OBVIOUS
    <3> HIDE DEF new, rec
    <3>7. new = rec
      BY <3>2, <3>3, <3>4, <3>5, <3>6
    <3> QED BY <3>7 DEF kdf, new, rec
  <2>2. [c EXCEPT !.at = KvAt(kv.at, c.at), !.keep = KvNum(kv.keep, c.keep),
                  !.idle = KvDur(kv.idle, c.idle), !.max = KvDur(kv.max, c.max)] = o
    BY <2>1
  <2>3. WithOverrides(c, kv)
          = Validate([c EXCEPT !.at = KvAt(kv.at, c.at), !.keep = KvNum(kv.keep, c.keep),
                               !.idle = KvDur(kv.idle, c.idle), !.max = KvDur(kv.max, c.max)])
    BY DEF WithOverrides, Overridden, KvAt, KvNum, KvDur
  <2> QED BY <2>2, <2>3
<1>4. /\ o.at = KvAt(kv.at, c.at) /\ o.keep = KvNum(kv.keep, c.keep)
      /\ o.idle = KvDur(kv.idle, c.idle) /\ o.max = KvDur(kv.max, c.max) /\ o.kdf = c.kdf
    OBVIOUS
<1> HIDE DEF o
<1> QED BY <1>2, <1>3, <1>4, Validated

LEMMA OverridesSane ==
    ASSUME NEW c, IsConfig(c), NEW kv, KvOK(kv), WithOverrides(c, kv) # Nil
    PROVE  Sane(WithOverrides(c, kv)) /\ WithOverrides(c, kv).kdf = c.kdf
<1> DEFINE w == WithOverrides(c, kv)
           i == KvDur(kv.idle, c.idle)
           k == KvNum(kv.keep, c.keep)
           m == KvDur(kv.max, c.max)
<1>1. KvAt(kv.at, c.at) # Bad /\ w = [at |-> KvAt(kv.at, c.at), keep |-> AtLeast(k, 1),
                 idle |-> IdleOf(i), max |-> AtLeast(m, IdleOf(i)), kdf |-> c.kdf]
    BY OverriddenRecord
<1>2. i \in Int /\ k \in Int /\ m \in Int
  <2>1. k \in Int
    BY DEF KvNum, KvOK, IsConfig
  <2> QED BY <2>1, DurIsInt DEF KvOK, IsConfig
<1> HIDE DEF w, i, k, m
<1>3. /\ w.at = KvAt(kv.at, c.at) /\ w.keep = AtLeast(k, 1) /\ w.idle = IdleOf(i)
      /\ w.max = AtLeast(m, IdleOf(i)) /\ w.kdf = c.kdf
    BY <1>1
<1>4. /\ AtLeast(k, 1) \in Int /\ AtLeast(k, 1) >= 1 /\ IdleOf(i) \in Int /\ 0 < IdleOf(i)
      /\ AtLeast(m, IdleOf(i)) \in Int /\ IdleOf(i) <= AtLeast(m, IdleOf(i))
    BY <1>2 DEF AtLeast, IdleOf
<1>5. IsConfig(w)
    BY <1>1, <1>3, <1>4 DEF IsConfig
<1>6. Sane(w)
    BY <1>1, <1>3, <1>4, <1>5 DEF Sane
<1> QED BY <1>3, <1>6 DEF w

\* What a handler has stored and is about to apply.
ReqOK(q) ==
    \/ q = Idle
    \/ /\ q.pc = "backup" /\ DOMAIN q = {"pc", "at", "keep"}
       /\ q.at \notin {Bad, Nil} /\ q.keep \in Int /\ q.keep >= 1
    \/ /\ q.pc = "session" /\ DOMAIN q = {"pc", "idle", "max"}
       /\ q.idle \in Int /\ q.max \in Int /\ 0 < q.idle /\ q.idle <= q.max

\* The types, a configuration that loads once the process has got past Load, handlers
\* only while it is up, and the floors.
ForceInv ==
    /\ env \in Envs
    /\ DOMAIN disk = {"ver", "tables", "kv"} /\ KvOK(disk.kv)
    /\ pc \in {"down", "open", "merge", "up"}
    /\ pc # "down" => Load(env) # Nil
    /\ DOMAIN req = Req /\ \A r \in Req : ReqOK(req[r])
    /\ pc # "up" => \A r \in Req : req[r] = Idle
    /\ pc = "up" => Sane(live) /\ live.kdf = Asked(env)

\* A handler begins, with rows of the right types stored.
LEMMA ForceSave ==
    ASSUME ForceInv, NEW r \in Req, NEW q, ReqOK(q), pc = "up",
           DOMAIN disk' = DOMAIN disk, KvOK(disk'.kv), req' = [req EXCEPT ![r] = q],
           UNCHANGED <<pc, env, live>>
    PROVE  ForceInv'
<1>1. DOMAIN req' = Req /\ \A s \in Req : ReqOK(req'[s])
    BY DEF ForceInv
<1> QED BY <1>1 DEF ForceInv

\* A handler ends, with what is in force still sane.
LEMMA ForceApply ==
    ASSUME ForceInv, NEW r \in Req, pc = "up", Sane(live'), live'.kdf = live.kdf,
           req' = [req EXCEPT ![r] = Idle], UNCHANGED <<pc, env, disk>>
    PROVE  ForceInv'
<1>1. DOMAIN req' = Req /\ \A s \in Req : ReqOK(req'[s])
    BY DEF ForceInv, ReqOK
<1> QED BY <1>1 DEF ForceInv

\* What is written is the text of a duration, and neither malformed nor missing.
LEMMA TrimText == ASSUME NEW s \in Text, NEW unit PROVE Trim(s, unit) \in Text
<1> DEFINE S == Int \X {"h", "m", "s"}
           n == Len(s) - 1
<1>1. s \in Seq(S) /\ n \in Int /\ 1 \in Int /\ \A i \in 1 .. n : s[i] \in S
    BY DEF Text
<1>2. SubSeq(s, 1, n) \in Seq(S)
    BY <1>1, SubSeqProperties
<1> QED BY <1>1, <1>2 DEF Trim, Text

LEMMA ShortDurText ==
    ASSUME NEW d \in Nat
    PROVE  shortDur(d) \in Text /\ shortDur(d) \notin {Bad, Nil}
<1>1. d \div 3600 \in Nat /\ (d \div 60) % 60 \in Nat /\ d % 60 \in Nat
    BY Parts
<1>2. String(d) \in Text
  <2> DEFINE S == Int \X {"h", "m", "s"}
             h == <<d \div 3600, "h">>
             m == <<(d \div 60) % 60, "m">>
             s == <<d % 60, "s">>
  <2>1. h \in S /\ m \in S /\ s \in S
    BY <1>1
  <2>2. String(d) = IF d >= 3600 THEN <<h, m, s>> ELSE IF d >= 60 THEN <<m, s>> ELSE <<s>>
    BY DEF String
  <2> HIDE DEF S, h, m, s
  <2>3. <<h, m, s>> \in Seq(S) /\ <<m, s>> \in Seq(S) /\ <<s>> \in Seq(S)
    BY <2>1
  <2>4. String(d) \in Seq(S)
    BY <2>2, <2>3
  <2> QED BY <2>4 DEF S, Text
<1>3. shortDur(d) \in Text
    BY <1>2, TrimText DEF shortDur
<1> QED BY <1>3, SettingsAssumption

LEMMA Written ==
    ASSUME NEW f \in SessionForms, f.idle > 0, f.max > 0
    PROVE  /\ f.idle \in Nat \ {0} /\ f.max \in Nat \ {0}
           /\ Parseable(shortDur(f.idle)) /\ Parseable(shortDur(f.max))
           /\ shortDur(f.idle) \notin {Bad, Nil} /\ shortDur(f.max) \notin {Bad, Nil}
<1>1. f.idle \in Nat \ {0} /\ f.max \in Nat \ {0}
    BY SettingsAssumption
<1>2. shortDur(f.idle) \notin {Bad, Nil} /\ shortDur(f.max) \notin {Bad, Nil}
    BY <1>1, ShortDurText
<1>3. Parseable(shortDur(f.idle)) /\ Parseable(shortDur(f.max))
    BY <1>1, <1>2, TextReadBack DEF Parseable
<1> QED BY <1>1, <1>2, <1>3

\* What saving a form does to the stored rows and to the handler's locals.
LEMMA SavedBackup ==
    ASSUME ForceInv, NEW r \in Req, NEW f \in BackupForms, SaveBackup(r, f)
    PROVE  /\ DOMAIN disk' = DOMAIN disk /\ KvOK(disk'.kv) /\ disk'.kv.at = f.at /\ disk'.kv.keep = f.keep
           /\ disk'.kv.idle = disk.kv.idle /\ disk'.kv.max = disk.kv.max
           /\ f.at \notin {Bad, Nil} /\ f.keep \in Int /\ f.keep >= 1
<1>1. f.at \notin {Bad, Nil} /\ f.keep \in Int /\ f.keep >= 1
    BY SettingsAssumption DEF SaveBackup
<1>2. disk' = [disk EXCEPT !.kv.at = f.at, !.kv.keep = f.keep]
    BY DEF SaveBackup
<1>3. DOMAIN disk = {"ver", "tables", "kv"} /\ KvOK(disk.kv)
    BY DEF ForceInv
<1>4. DOMAIN disk' = DOMAIN disk /\ DOMAIN disk'.kv = DOMAIN disk.kv
    BY <1>2, <1>3 DEF KvOK
<1>5. /\ disk'.kv.at = f.at /\ disk'.kv.keep = f.keep
      /\ disk'.kv.idle = disk.kv.idle /\ disk'.kv.max = disk.kv.max
    BY <1>2, <1>3 DEF KvOK
<1>6. KvOK(disk'.kv)
    BY <1>1, <1>3, <1>4, <1>5 DEF KvOK
<1> QED BY <1>1, <1>4, <1>5, <1>6

LEMMA SavedSession ==
    ASSUME ForceInv, NEW r \in Req, NEW f \in SessionForms, SaveSession(r, f)
    PROVE  /\ DOMAIN disk' = DOMAIN disk /\ KvOK(disk'.kv)
           /\ disk'.kv.at = disk.kv.at /\ disk'.kv.keep = disk.kv.keep
           /\ disk'.kv.idle = shortDur(f.idle) /\ disk'.kv.max = shortDur(f.max)
           /\ disk'.kv.idle \notin {Bad, Nil} /\ disk'.kv.max \notin {Bad, Nil}
           /\ f.idle \in Int /\ f.max \in Int /\ 0 < f.idle /\ f.idle <= f.max
<1>1. /\ f.idle > 0 /\ f.max > 0 /\ f.max >= f.idle
      /\ disk' = [disk EXCEPT !.kv.idle = shortDur(f.idle), !.kv.max = shortDur(f.max)]
    BY DEF SaveSession
<1>2. f.idle \in Int /\ f.max \in Int
    BY SettingsAssumption
<1>3. DOMAIN disk = {"ver", "tables", "kv"} /\ KvOK(disk.kv)
    BY DEF ForceInv
<1>4. DOMAIN disk' = DOMAIN disk /\ DOMAIN disk'.kv = DOMAIN disk.kv
    BY <1>1, <1>3 DEF KvOK
<1>5. /\ disk'.kv.at = disk.kv.at /\ disk'.kv.keep = disk.kv.keep
      /\ disk'.kv.idle = shortDur(f.idle) /\ disk'.kv.max = shortDur(f.max)
    BY <1>1, <1>3 DEF KvOK
<1>6. /\ Parseable(shortDur(f.idle)) /\ Parseable(shortDur(f.max))
      /\ shortDur(f.idle) \notin {Bad, Nil} /\ shortDur(f.max) \notin {Bad, Nil}
    BY <1>1, Written
<1>7. KvOK(disk'.kv)
    BY <1>3, <1>4, <1>5, <1>6 DEF KvOK
<1> QED BY <1>1, <1>2, <1>4, <1>5, <1>6, <1>7

LEMMA Busy ==
    ASSUME ForceInv, NEW r \in Req, req[r].pc \in {"backup", "session"}
    PROVE  /\ pc = "up" /\ Sane(live)
           /\ req[r].pc = "backup" => /\ req[r].at \notin {Bad, Nil}
                                      /\ req[r].keep \in Int /\ req[r].keep >= 1
           /\ req[r].pc = "session" => /\ req[r].idle \in Int /\ req[r].max \in Int
                                       /\ 0 < req[r].idle /\ req[r].idle <= req[r].max
<1>1. ReqOK(req[r]) /\ req[r] # Idle
    BY DEF ForceInv, Idle
<1> QED BY <1>1 DEF ForceInv, ReqOK

\* SetSchedule and SetTimeouts replace two fields each of what is in force.
LEMMA SetTwo ==
    ASSUME ForceInv, NEW r \in Req, SetSchedule(r) \/ SetTimeouts(r)
    PROVE  /\ Sane(live') /\ live'.kdf = live.kdf
           /\ SetSchedule(r) => /\ live'.at = req[r].at /\ live'.keep = AtLeast(req[r].keep, 1)
                                /\ live'.idle = live.idle /\ live'.max = live.max
           /\ SetTimeouts(r) => /\ live'.at = live.at /\ live'.keep = live.keep
                                /\ live'.idle = req[r].idle /\ live'.max = req[r].max
<1>0. IsConfig(live) /\ Sane(live)
    BY Busy DEF SetSchedule, SetTimeouts, Sane
<1> DEFINE at == live.at
           keep == live.keep
           idle == live.idle
           max == live.max
           kdf == live.kdf
<1>1. live = [at |-> at, keep |-> keep, idle |-> idle, max |-> max, kdf |-> kdf]
    BY <1>0 DEF IsConfig
<1>2. keep \in Int /\ idle \in Int /\ max \in Int /\ at # Bad /\ keep >= 1 /\ 0 < idle /\ idle <= max
    BY <1>0 DEF IsConfig, Sane
<1> HIDE DEF at, keep, idle, max, kdf
<1>3. CASE SetSchedule(r)
  <2> DEFINE a == req[r].at
             n == AtLeast(req[r].keep, 1)
  <2>1. a # Bad /\ n \in Int /\ n >= 1
    BY <1>3, Busy DEF SetSchedule, AtLeast
  <2>2. live' = [live EXCEPT !.at = a, !.keep = n]
    BY <1>3 DEF SetSchedule
  <2> HIDE DEF a, n
  <2>3. DOMAIN live' = {"at", "keep", "idle", "max", "kdf"}
    BY <1>1, <2>2
  <2>4. live'.at = a /\ live'.keep = n /\ live'.idle = idle /\ live'.max = max /\ live'.kdf = kdf
    BY <1>1, <2>2
  <2>5. live' = [x \in DOMAIN live' |-> live'[x]]
    BY <2>2
  <2>6. IsConfig(live')
    BY <1>2, <2>1, <2>3, <2>4, <2>5 DEF IsConfig
  <2>7. Sane(live')
    BY <1>2, <2>1, <2>4, <2>6 DEF Sane
  <2>8. ~SetTimeouts(r)
    BY <1>3 DEF SetSchedule, SetTimeouts
  <2> QED BY <2>4, <2>7, <2>8 DEF a, n, at, keep, idle, max, kdf
<1>4. CASE SetTimeouts(r)
  <2> DEFINE i == req[r].idle
             m == req[r].max
  <2>1. i \in Int /\ m \in Int /\ 0 < i /\ i <= m
    BY <1>4, Busy DEF SetTimeouts
  <2>2. live' = [live EXCEPT !.idle = i, !.max = m]
    BY <1>4 DEF SetTimeouts
  <2> HIDE DEF i, m
  <2>3. DOMAIN live' = {"at", "keep", "idle", "max", "kdf"}
    BY <1>1, <2>2
  <2>4. live'.at = at /\ live'.keep = keep /\ live'.idle = i /\ live'.max = m /\ live'.kdf = kdf
    BY <1>1, <2>2
  <2>5. live' = [x \in DOMAIN live' |-> live'[x]]
    BY <2>2
  <2>6. IsConfig(live')
    BY <1>2, <2>1, <2>3, <2>4, <2>5 DEF IsConfig
  <2>7. Sane(live')
    BY <1>2, <2>1, <2>4, <2>6 DEF Sane
  <2>8. ~SetSchedule(r)
    BY <1>4 DEF SetSchedule, SetTimeouts
  <2> QED BY <2>4, <2>7, <2>8 DEF i, m, at, keep, idle, max, kdf
<1> QED BY <1>3, <1>4

LEMMA ForceHandler ==
    ASSUME ForceInv, NEW r \in Req,
           \/ \E f \in BackupForms : SaveBackup(r, f)
           \/ \E f \in SessionForms : SaveSession(r, f)
           \/ SetSchedule(r) \/ SetTimeouts(r)
    PROVE  ForceInv'
<1>1. ASSUME NEW f \in BackupForms, SaveBackup(r, f) PROVE ForceInv'
  <2> DEFINE q == [pc |-> "backup", at |-> f.at, keep |-> f.keep]
  <2>1. ReqOK(q)
    BY <1>1, SavedBackup DEF ReqOK
  <2>2. pc = "up" /\ req' = [req EXCEPT ![r] = q] /\ UNCHANGED <<pc, env, live>>
    BY <1>1 DEF SaveBackup, MayBegin
  <2> HIDE DEF q
  <2> QED BY <1>1, <2>1, <2>2, SavedBackup, ForceSave
<1>2. ASSUME NEW f \in SessionForms, SaveSession(r, f) PROVE ForceInv'
  <2> DEFINE q == [pc |-> "session", idle |-> f.idle, max |-> f.max]
  <2>1. ReqOK(q)
    BY <1>2, SavedSession DEF ReqOK
  <2>2. pc = "up" /\ req' = [req EXCEPT ![r] = q] /\ UNCHANGED <<pc, env, live>>
    BY <1>2 DEF SaveSession, MayBegin
  <2> HIDE DEF q
  <2> QED BY <1>2, <2>1, <2>2, SavedSession, ForceSave
<1>3. CASE SetSchedule(r)
  <2>1. pc = "up" /\ req' = [req EXCEPT ![r] = Idle] /\ UNCHANGED <<pc, env, disk>>
    BY <1>3, Busy DEF SetSchedule
  <2> QED BY <1>3, <2>1, SetTwo, ForceApply
<1>4. CASE SetTimeouts(r)
  <2>1. pc = "up" /\ req' = [req EXCEPT ![r] = Idle] /\ UNCHANGED <<pc, env, disk>>
    BY <1>4, Busy DEF SetTimeouts
  <2> QED BY <1>4, <2>1, SetTwo, ForceApply
<1> QED BY <1>1, <1>2, <1>3, <1>4

\* Merge: the stored rows if they validate, the environment otherwise.
LEMMA ForceMerge == ASSUME ForceInv, Merge PROVE ForceInv'
<1> DEFINE c == Load(env)
           w == WithOverrides(c, disk.kv)
<1>1. env \in Envs /\ c # Nil /\ KvOK(disk.kv)
    BY DEF ForceInv, Merge
<1>2. Sane(c) /\ c.kdf = Asked(env) /\ IsConfig(c)
    BY <1>1, LoadSane DEF Sane
<1>3. live' = c \/ (w # Nil /\ live' = w)
    BY DEF Merge
<1>4. w # Nil => Sane(w) /\ w.kdf = c.kdf
    BY <1>1, <1>2, OverridesSane
<1> HIDE DEF c, w
<1>5. Sane(live') /\ live'.kdf = Asked(env)
    BY <1>2, <1>3, <1>4
<1>6. pc = "merge" /\ pc' = "up" /\ UNCHANGED <<env, disk, req>>
    BY DEF Merge
<1>7. Load(env) # Nil
    BY <1>1 DEF c
<1> QED BY <1>5, <1>6, <1>7 DEF ForceInv

LEMMA DatabaseOK ==
    ASSUME NEW v, NEW d \in Database(v)
    PROVE  DOMAIN d = {"ver", "tables", "kv"} /\ KvOK(d.kv)
BY RowsOK DEF Database

\* The other steps of a start, the end of the process, and what happens while it is down.
LEMMA ForceBoot ==
    ASSUME ForceInv,
           \/ Start \/ Migrate \/ Opened \/ Crash
           \/ \E e \in Envs : Configure(e)
           \/ \E f \in DOMAIN Blank : Edit(f)
           \/ \E v \in 1 .. Latest : Restored(v)
    PROVE  ForceInv'
<1>0. DOMAIN Blank = {"at", "keep", "idle", "max"}
    BY DEF Blank
<1>1. CASE Start
    BY <1>1 DEF Start, ForceInv
<1>2. CASE Migrate
  <2>1. DOMAIN disk' = {"ver", "tables", "kv"} /\ disk'.kv = disk.kv
    BY <1>2 DEF Migrate, ForceInv
  <2> QED BY <1>2, <2>1 DEF Migrate, ForceInv
<1>3. CASE Opened
    BY <1>3 DEF Opened, ForceInv
<1>4. CASE Crash
    BY <1>4 DEF Crash, ForceInv, ReqOK
<1>5. ASSUME NEW e \in Envs, Configure(e) PROVE ForceInv'
    BY <1>5 DEF Configure, ForceInv
<1>6. ASSUME NEW f \in {"at", "keep", "idle", "max"}, Edit(f) PROVE ForceInv'
  <2> PICK row \in Rows : disk' = [disk EXCEPT !.kv[f] = row[f]]
    BY <1>6 DEF Edit
  <2>1. UNCHANGED <<pc, env, live, req>> /\ pc = "down" /\ KvOK(row)
    BY <1>6, RowsOK DEF Edit
  <2>2. DOMAIN disk = {"ver", "tables", "kv"} /\ KvOK(disk.kv)
    BY DEF ForceInv
  <2>3. DOMAIN disk' = DOMAIN disk /\ disk'.kv = [disk.kv EXCEPT ![f] = row[f]]
    BY <2>2
  <2> DEFINE kv == disk.kv
             new == disk'.kv
  <2>4. KvOK(kv) /\ new = [kv EXCEPT ![f] = row[f]]
    BY <2>2, <2>3
  <2> HIDE DEF kv, new
  <2>5. KvOK(new)
    BY <2>1, <2>4 DEF KvOK
  <2> QED BY <2>1, <2>3, <2>5 DEF new, ForceInv
<1>7. ASSUME NEW v \in 1 .. Latest, Restored(v) PROVE ForceInv'
  <2>1. DOMAIN disk' = {"ver", "tables", "kv"} /\ KvOK(disk'.kv)
    BY <1>7, DatabaseOK DEF Restored
  <2> QED BY <1>7, <2>1 DEF Restored, ForceInv
<1> QED BY <1>0, <1>1, <1>2, <1>3, <1>4, <1>5, <1>6, <1>7

LEMMA ForceInit == Init => ForceInv
<1>1. SUFFICES ASSUME Init PROVE ForceInv
    OBVIOUS
<1>2. DOMAIN disk = {"ver", "tables", "kv"} /\ KvOK(disk.kv)
    BY <1>1, DatabaseOK DEF Init
<1>3. DOMAIN req = Req /\ \A r \in Req : req[r] = Idle
    BY <1>1 DEF Init
<1> QED BY <1>1, <1>2, <1>3 DEF Init, ForceInv, ReqOK

LEMMA ForceStep == ForceInv /\ [Next]_vars => ForceInv'
<1> SUFFICES ASSUME ForceInv, [Next]_vars PROVE ForceInv'
    OBVIOUS
<1>1. CASE UNCHANGED vars
    BY <1>1 DEF vars, ForceInv
<1> QED BY <1>1, ForceMerge, ForceBoot, ForceHandler DEF Next

\* Whatever the environment and the rows hold, out of range or unparseable, however
\* saves overlap and starts are interrupted: what is in force keeps the floors, and the
\* key derivation has the parameters asked for, although they are narrowed to 8 and 32
\* bits.
THEOREM FloorsInForce == Spec => []InForce
<1>1. ForceInv => InForce
    BY DEF ForceInv, InForce, Sane, Asked
<1> QED BY <1>1, ForceInit, ForceStep, PTL DEF Spec

---------------------------------------------------------------------------
\* What is in force is what is stored.

\* The two halves of the configuration l, from the rows kv over c: the rows of one are not
\* those of the other.
ScheduleApplied(l, kv, c) ==
    l.at = KvAt(kv.at, c.at) /\ l.keep = AtLeast(KvNum(kv.keep, c.keep), 1)
TimeoutsApplied(l, kv, c) ==
    /\ l.idle = IdleOf(KvDur(kv.idle, c.idle))
    /\ l.max = AtLeast(KvDur(kv.max, c.max), l.idle)

\* The rows hold what the handler is about to apply.
Stored(q, kv) ==
    /\ q.pc = "backup" => kv.at = q.at /\ kv.keep = q.keep
    /\ q.pc = "session" => /\ kv.idle = shortDur(q.idle) /\ kv.max = shortDur(q.max)
                           /\ kv.idle \notin {Bad, Nil} /\ kv.max \notin {Bad, Nil}

\* One handler at a time, and each half is applied unless that handler is about to.
Applied(rq, kv, l, c) ==
    /\ KvAt(kv.at, c.at) # Bad
    /\ \A q, r \in Req : rq[q] # Idle /\ rq[r] # Idle => q = r
    /\ \A r \in Req : Stored(rq[r], kv)
    /\ (\A r \in Req : rq[r].pc # "backup") => ScheduleApplied(l, kv, c)
    /\ (\A r \in Req : rq[r].pc # "session") => TimeoutsApplied(l, kv, c)

AppliedInv ==
    ForceInv /\ (alone /\ pc = "up" /\ merged => Applied(req, disk.kv, live, Load(env)))

\* Both halves make the whole.
LEMMA HalvesWhole ==
    ASSUME NEW c, IsConfig(c), NEW kv, KvOK(kv), NEW l, IsConfig(l), l.kdf = c.kdf,
           KvAt(kv.at, c.at) # Bad, ScheduleApplied(l, kv, c), TimeoutsApplied(l, kv, c)
    PROVE  l = WithOverrides(c, kv)
<1> DEFINE i == IdleOf(KvDur(kv.idle, c.idle))
           a == KvAt(kv.at, c.at)
           k == AtLeast(KvNum(kv.keep, c.keep), 1)
           m == AtLeast(KvDur(kv.max, c.max), i)
<1>1. WithOverrides(c, kv) = [at |-> a, keep |-> k, idle |-> i, max |-> m, kdf |-> c.kdf]
    BY OverriddenRecord
<1>2. l.at = a /\ l.keep = k /\ l.idle = i /\ l.max = m
    BY DEF ScheduleApplied, TimeoutsApplied
<1>3. l = [at |-> l.at, keep |-> l.keep, idle |-> l.idle, max |-> l.max, kdf |-> l.kdf]
    BY DEF IsConfig
<1> HIDE DEF i, a, k, m
<1> QED BY <1>1, <1>2, <1>3

LEMMA WholeHalves ==
    ASSUME NEW c, IsConfig(c), NEW kv, KvOK(kv), WithOverrides(c, kv) # Nil
    PROVE  /\ KvAt(kv.at, c.at) # Bad
           /\ ScheduleApplied(WithOverrides(c, kv), kv, c)
           /\ TimeoutsApplied(WithOverrides(c, kv), kv, c)
<1> DEFINE i == IdleOf(KvDur(kv.idle, c.idle))
           a == KvAt(kv.at, c.at)
           k == AtLeast(KvNum(kv.keep, c.keep), 1)
           m == AtLeast(KvDur(kv.max, c.max), i)
           w == WithOverrides(c, kv)
<1>1. a # Bad /\ w = [at |-> a, keep |-> k, idle |-> i, max |-> m, kdf |-> c.kdf]
    BY OverriddenRecord
<1> HIDE DEF i, a, k, m, w
<1>2. w.at = a /\ w.keep = k /\ w.idle = i /\ w.max = m
    BY <1>1
<1> QED BY <1>1, <1>2 DEF ScheduleApplied, TimeoutsApplied, i, a, k, m, w

\* A saved schedule, and saved timeouts, are what the rows give.
LEMMA ScheduleFromRows ==
    ASSUME NEW q, q.at \notin {Bad, Nil}, q.keep \in Int, NEW kv, kv.at = q.at, kv.keep = q.keep,
           NEW l, l.at = q.at, l.keep = AtLeast(q.keep, 1), NEW c
    PROVE  ScheduleApplied(l, kv, c)
<1>1. q.keep \notin {Nil, Bad}
    BY SettingsAssumption
<1> QED BY <1>1 DEF ScheduleApplied, KvAt, KvNum

LEMMA TimeoutsFromRows ==
    ASSUME NEW q, q.idle \in Int, q.max \in Int, 0 < q.idle, q.idle <= q.max,
           NEW kv, kv.idle = shortDur(q.idle), kv.max = shortDur(q.max),
           kv.idle \notin {Bad, Nil}, kv.max \notin {Bad, Nil},
           NEW l, l.idle = q.idle, l.max = q.max, NEW c
    PROVE  TimeoutsApplied(l, kv, c)
<1>1. q.idle \in Nat \ {0} /\ q.max \in Nat \ {0} /\ q.idle \notin {Nil, Bad} /\ q.max \notin {Nil, Bad}
    BY SettingsAssumption
<1>2. ParseDuration(kv.idle) = q.idle /\ ParseDuration(kv.max) = q.max
    BY <1>1, TextReadBack
<1>3. KvDur(kv.idle, c.idle) = q.idle /\ KvDur(kv.max, c.max) = q.max
    BY <1>1, <1>2 DEF KvDur, KvNum
<1>4. IdleOf(q.idle) = q.idle /\ AtLeast(q.max, q.idle) = q.max
    BY DEF IdleOf, AtLeast
<1> QED BY <1>3, <1>4 DEF TimeoutsApplied

\* The start applies the rows, if it uses them.
LEMMA AppliedMerge ==
    ASSUME AppliedInv, Merge, merged'
    PROVE  Applied(req, disk.kv, live', Load(env))
<1> DEFINE c == Load(env)
           w == WithOverrides(c, disk.kv)
<1>1. env \in Envs /\ c # Nil /\ KvOK(disk.kv) /\ \A r \in Req : req[r] = Idle
    BY DEF AppliedInv, ForceInv, Merge
<1>2. IsConfig(c)
    BY <1>1, LoadSane DEF Sane
<1>3. w # Nil /\ live' = w
    BY DEF Merge
<1>4. KvAt(disk.kv.at, c.at) # Bad /\ ScheduleApplied(w, disk.kv, c) /\ TimeoutsApplied(w, disk.kv, c)
    BY <1>1, <1>2, <1>3, WholeHalves
<1>5. \A r \in Req : req[r].pc = "idle"
    BY <1>1 DEF Idle
<1> HIDE DEF c, w
<1>6. Applied(req, disk.kv, live', c)
    BY <1>1, <1>3, <1>4, <1>5 DEF Applied, Stored
<1> QED BY <1>6 DEF c

\* A handler begins: no other is under way, and it has stored one half.
LEMMA AppliedSave ==
    ASSUME AppliedInv, alone, merged, NEW r \in Req,
           \/ \E f \in BackupForms : SaveBackup(r, f)
           \/ \E f \in SessionForms : SaveSession(r, f)
    PROVE  Applied(req', disk'.kv, live', Load(env))
<1> DEFINE c == Load(env)
<1>1. /\ ForceInv /\ Applied(req, disk.kv, live, c) /\ live' = live
      /\ \A q \in Req : req[q] = Idle
      /\ DOMAIN req = Req
    BY DEF AppliedInv, ForceInv, SaveBackup, SaveSession, MayBegin
<1>2. \A q \in Req : req[q].pc = "idle"
    BY <1>1 DEF Idle
<1> HIDE DEF c
<1>3. /\ KvAt(disk.kv.at, c.at) # Bad
      /\ ScheduleApplied(live, disk.kv, c) /\ TimeoutsApplied(live, disk.kv, c)
    BY <1>1, <1>2 DEF Applied
<1>4. ASSUME NEW f \in BackupForms, SaveBackup(r, f) PROVE Applied(req', disk'.kv, live', c)
  <2>1. /\ disk'.kv.at = f.at /\ disk'.kv.keep = f.keep /\ f.at \notin {Bad, Nil}
        /\ disk'.kv.idle = disk.kv.idle /\ disk'.kv.max = disk.kv.max
    BY <1>1, <1>4, SavedBackup
  <2>2. /\ req'[r].pc = "backup" /\ req'[r].at = f.at /\ req'[r].keep = f.keep
        /\ \A q \in Req \ {r} : req'[q] = Idle /\ req'[q].pc = "idle"
    BY <1>1, <1>2, <1>4 DEF SaveBackup
  <2>3. KvAt(disk'.kv.at, c.at) # Bad
    BY <2>1 DEF KvAt
  <2>4. TimeoutsApplied(live', disk'.kv, c)
    BY <1>1, <1>3, <2>1 DEF TimeoutsApplied
  <2>5. \A q \in Req : Stored(req'[q], disk'.kv)
    BY <2>1, <2>2 DEF Stored
  <2> QED BY <2>2, <2>3, <2>4, <2>5 DEF Applied
<1>5. ASSUME NEW f \in SessionForms, SaveSession(r, f) PROVE Applied(req', disk'.kv, live', c)
  <2>1. /\ disk'.kv.at = disk.kv.at /\ disk'.kv.keep = disk.kv.keep
        /\ disk'.kv.idle = shortDur(f.idle) /\ disk'.kv.max = shortDur(f.max)
        /\ disk'.kv.idle \notin {Bad, Nil} /\ disk'.kv.max \notin {Bad, Nil}
    BY <1>1, <1>5, SavedSession
  <2>2. /\ req'[r].pc = "session" /\ req'[r].idle = f.idle /\ req'[r].max = f.max
        /\ \A q \in Req \ {r} : req'[q] = Idle /\ req'[q].pc = "idle"
    BY <1>1, <1>2, <1>5 DEF SaveSession
  <2>3. KvAt(disk'.kv.at, c.at) # Bad
    BY <1>3, <2>1
  <2>4. ScheduleApplied(live', disk'.kv, c)
    BY <1>1, <1>3, <2>1 DEF ScheduleApplied
  <2>5. \A q \in Req : Stored(req'[q], disk'.kv)
    BY <2>1, <2>2 DEF Stored
  <2> QED BY <2>2, <2>3, <2>4, <2>5 DEF Applied
<1> QED BY <1>4, <1>5 DEF c

\* A handler ends: it was the only one, and it has applied the half it had stored.
LEMMA AppliedSet ==
    ASSUME AppliedInv, alone, merged, NEW r \in Req, SetSchedule(r) \/ SetTimeouts(r)
    PROVE  Applied(req', disk.kv, live', Load(env))
<1> DEFINE c == Load(env)
           kv == disk.kv
<1>1. ForceInv /\ pc = "up" /\ Applied(req, kv, live, c) /\ DOMAIN req = Req
    BY Busy DEF AppliedInv, ForceInv, SetSchedule, SetTimeouts
<1>0. Idle.pc = "idle"
    BY DEF Idle
<1>2. req[r] # Idle /\ \A q \in Req \ {r} : req[q] = Idle /\ req[q].pc = "idle"
  <2>1. req[r].pc \in {"backup", "session"}
    BY DEF SetSchedule, SetTimeouts
  <2>2. req[r] # Idle
    BY <1>0, <2>1
  <2>3. \A q \in Req \ {r} : req[q] = Idle
    BY <1>1, <2>2 DEF Applied
  <2> QED BY <1>0, <2>2, <2>3
<1>3. \A q \in Req : req'[q] = Idle /\ req'[q].pc = "idle"
  <2>1. req' = [req EXCEPT ![r] = Idle]
    BY DEF SetSchedule, SetTimeouts
  <2> QED BY <1>0, <1>1, <1>2, <2>1
<1> HIDE DEF c, kv
<1>4. KvAt(kv.at, c.at) # Bad /\ Stored(req[r], kv)
    BY <1>1 DEF Applied
<1>5. ScheduleApplied(live', kv, c) /\ TimeoutsApplied(live', kv, c)
  <2>1. CASE SetSchedule(r)
    <3>1. req[r].pc = "backup"
      BY <2>1 DEF SetSchedule
    <3>2. /\ req[r].at \notin {Bad, Nil} /\ req[r].keep \in Int
          /\ kv.at = req[r].at /\ kv.keep = req[r].keep
      BY <1>1, <1>4, <3>1, Busy DEF Stored
    <3>3. /\ live'.at = req[r].at /\ live'.keep = AtLeast(req[r].keep, 1)
          /\ live'.idle = live.idle /\ live'.max = live.max
      BY <1>1, <2>1, SetTwo
    <3>4. TimeoutsApplied(live, kv, c)
      BY <1>1, <1>2, <3>1 DEF Applied
    <3>5. TimeoutsApplied(live', kv, c)
      BY <3>3, <3>4 DEF TimeoutsApplied
    <3>6. ScheduleApplied(live', kv, c)
      BY <3>2, <3>3, ScheduleFromRows
    <3> QED BY <3>5, <3>6
  <2>2. CASE SetTimeouts(r)
    <3>1. req[r].pc = "session"
      BY <2>2 DEF SetTimeouts
    <3>2. /\ req[r].idle \in Int /\ req[r].max \in Int /\ 0 < req[r].idle /\ req[r].idle <= req[r].max
          /\ kv.idle = shortDur(req[r].idle) /\ kv.max = shortDur(req[r].max)
          /\ kv.idle \notin {Bad, Nil} /\ kv.max \notin {Bad, Nil}
      BY <1>1, <1>4, <3>1, Busy DEF Stored
    <3>3. /\ live'.at = live.at /\ live'.keep = live.keep
          /\ live'.idle = req[r].idle /\ live'.max = req[r].max
      BY <1>1, <2>2, SetTwo
    <3>4. ScheduleApplied(live, kv, c)
      BY <1>1, <1>2, <3>1 DEF Applied
    <3>5. ScheduleApplied(live', kv, c)
      BY <3>3, <3>4 DEF ScheduleApplied
    <3>6. TimeoutsApplied(live', kv, c)
      BY <3>2, <3>3, TimeoutsFromRows
    <3> QED BY <3>5, <3>6
  <2> QED BY <2>1, <2>2
<1>6. Applied(req', kv, live', c)
    BY <1>3, <1>4, <1>5 DEF Applied, Stored
<1> QED BY <1>6 DEF c, kv

LEMMA AppliedStep == AppliedInv /\ [Next]_vars => AppliedInv'
<1> SUFFICES ASSUME AppliedInv, [Next]_vars PROVE AppliedInv'
    OBVIOUS
<1>1. ForceInv'
    BY ForceStep DEF AppliedInv
<1> SUFFICES ASSUME alone', pc' = "up", merged' PROVE Applied(req, disk.kv, live, Load(env))'
    BY <1>1 DEF AppliedInv
<1>2. CASE UNCHANGED vars
    BY <1>2 DEF vars, AppliedInv
<1>3. CASE Merge
  <2>1. env' = env /\ req' = req /\ disk' = disk
    BY <1>3 DEF Merge
  <2> QED BY <1>3, <2>1, AppliedMerge
<1>4. ASSUME NEW r \in Req,
             \/ \E f \in BackupForms : SaveBackup(r, f)
             \/ \E f \in SessionForms : SaveSession(r, f)
      PROVE  Applied(req, disk.kv, live, Load(env))'
  <2>1. env' = env /\ alone /\ merged
    BY <1>4 DEF SaveBackup, SaveSession
  <2> QED BY <1>4, <2>1, AppliedSave
<1>5. ASSUME NEW r \in Req, SetSchedule(r) \/ SetTimeouts(r)
      PROVE  Applied(req, disk.kv, live, Load(env))'
  <2>1. env' = env /\ disk' = disk /\ alone /\ merged
    BY <1>5 DEF SetSchedule, SetTimeouts
  <2> QED BY <1>5, <2>1, AppliedSet
<1>6. ASSUME \/ Start \/ Migrate \/ Opened \/ Crash
             \/ \E e \in Envs : Configure(e)
             \/ \E f \in DOMAIN Blank : Edit(f)
             \/ \E v \in 1 .. Latest : Restored(v)
      PROVE  FALSE
    BY <1>6 DEF Start, Migrate, Opened, Crash, Configure, Edit, Restored
<1> QED BY <1>2, <1>3, <1>4, <1>5, <1>6 DEF Next

\* A save is applied as it would be loaded: with saves one at a time, and once the start
\* has used the stored rows, what is in force between two saves is what a restart would
\* give, also for durations that are stored as text.
THEOREM SavedIsInForce == Spec => []AppliedIsStored
<1>1. Init => AppliedInv
    BY ForceInit DEF AppliedInv, Init
<1>2. AppliedInv => AppliedIsStored
  <2> SUFFICES ASSUME AppliedInv, alone, pc = "up", merged, \A r \in Req : req[r] = Idle
               PROVE  live = WithOverrides(Load(env), disk.kv)
    BY DEF AppliedIsStored
  <2>1. env \in Envs /\ Load(env) # Nil /\ KvOK(disk.kv) /\ IsConfig(live) /\ live.kdf = Asked(env)
    BY DEF AppliedInv, ForceInv, Sane
  <2>2. IsConfig(Load(env)) /\ Load(env).kdf = Asked(env)
    BY <2>1, LoadSane DEF Sane
  <2>3. \A r \in Req : req[r].pc = "idle"
    <3>1. Idle.pc = "idle"
      BY DEF Idle
    <3> QED BY <3>1
  <2>4. /\ KvAt(disk.kv.at, Load(env).at) # Bad
        /\ ScheduleApplied(live, disk.kv, Load(env)) /\ TimeoutsApplied(live, disk.kv, Load(env))
    BY <2>3 DEF AppliedInv, Applied
  <2> QED BY <2>1, <2>2, <2>4, HalvesWhole
<1> QED BY <1>1, <1>2, AppliedStep, PTL DEF Spec

=============================================================================
