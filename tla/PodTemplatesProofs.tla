------------------------- MODULE PodTemplatesProofs -------------------------
(***************************************************************************)
(* Runnable, for every spec whose ExtraMounts and image fit: the pods are  *)
(* put together from a few lists of mounts and volumes, so the lemmas say  *)
(* what a list contributes and what survives concatenation and             *)
(* dedupeVolumeMountsByPath.  BuiltPodsRun follows, with what the webhooks *)
(* let in.                                                                 *)
(***************************************************************************)
EXTENDS ServiceObjectsProofs, SequenceTheorems

\* A list of mounts whose paths differ and lie in P, that names volumes of V
\* and, of the config Secret, only keys of files.
Lists(m, V, P, files) ==
  /\ m \in Seq([volume : V, path : P])
  /\ \A i, j \in DOMAIN m : m[i].path = m[j].path => i = j
  /\ \A i \in DOMAIN m : m[i].volume = "config" => m[i].path \in files

\* A list of the volumes E, each once.
Names(v, E) == v \in Seq(E) /\ Distinct(v) /\ Elements(v) = E

When(on, E) == IF on THEN E ELSE {}

-----------------------------------------------------------------------------
(* Lists of volumes and of mounts                                          *)

\* Concatenation, position by position.
LEMMA Positions ==
  ASSUME NEW S, NEW a \in Seq(S), NEW b \in Seq(S)
  PROVE  /\ a \o b \in Seq(S)
         /\ \A i \in DOMAIN (a \o b) :
              \/ i \in DOMAIN a /\ (a \o b)[i] = a[i]
              \/ i - Len(a) \in DOMAIN b /\ i > Len(a) /\ (a \o b)[i] = b[i - Len(a)]
         /\ \A i \in DOMAIN a : i \in DOMAIN (a \o b) /\ (a \o b)[i] = a[i] /\ i <= Len(a)
         /\ \A i \in DOMAIN b : i + Len(a) \in DOMAIN (a \o b) /\ (a \o b)[i + Len(a)] = b[i]
<1>1. /\ a \o b \in Seq(S) /\ Len(a \o b) = Len(a) + Len(b)
      /\ \A i \in 1 .. Len(a) + Len(b) :
           (a \o b)[i] = IF i <= Len(a) THEN a[i] ELSE b[i - Len(a)]
  BY ConcatProperties
<1>2. /\ Len(a) \in Nat /\ DOMAIN a = 1..Len(a) /\ Len(b) \in Nat /\ DOMAIN b = 1..Len(b)
      /\ DOMAIN (a \o b) = 1..(Len(a) + Len(b))
  BY <1>1, LenProperties
<1> DEFINE c == a \o b
<1>3. /\ DOMAIN c = 1..(Len(a) + Len(b))
      /\ \A i \in 1 .. Len(a) + Len(b) : c[i] = IF i <= Len(a) THEN a[i] ELSE b[i - Len(a)]
  BY <1>1, <1>2
<1> HIDE DEF c
<1>4. /\ \A i \in DOMAIN c :
           \/ i \in DOMAIN a /\ c[i] = a[i]
           \/ i - Len(a) \in DOMAIN b /\ i > Len(a) /\ c[i] = b[i - Len(a)]
      /\ \A i \in DOMAIN a : i \in DOMAIN c /\ c[i] = a[i] /\ i <= Len(a)
      /\ \A i \in DOMAIN b : i + Len(a) \in DOMAIN c /\ c[i + Len(a)] = b[i]
  BY <1>2, <1>3
<1> QED BY <1>1, <1>4 DEF c

\* Volume lists with no name in common join to a list of volumes.
LEMMA JoinNames ==
  ASSUME NEW a, NEW b, NEW E, NEW F, Names(a, E), Names(b, F), E \cap F = {}
  PROVE  Names(a \o b, E \cup F)
<1> DEFINE c == a \o b
<1>1. a \in Seq(E \cup F) /\ b \in Seq(E \cup F)
  BY SeqMonotonic DEF Names
<1>2. /\ c \in Seq(E \cup F)
      /\ \A i \in DOMAIN c :
           \/ i \in DOMAIN a /\ c[i] = a[i]
           \/ i - Len(a) \in DOMAIN b /\ i > Len(a) /\ c[i] = b[i - Len(a)]
      /\ \A i \in DOMAIN a : i \in DOMAIN c /\ c[i] = a[i] /\ i <= Len(a)
      /\ \A i \in DOMAIN b : i + Len(a) \in DOMAIN c /\ c[i + Len(a)] = b[i]
  BY <1>1, Positions
<1>3. Len(a) \in Nat /\ DOMAIN c \subseteq Int
  BY <1>1, <1>2, LenProperties
<1> HIDE DEF c
<1>4. Elements(c) = E \cup F
  BY <1>2 DEF Names, Elements
<1>5. Distinct(c)
  <2> SUFFICES ASSUME NEW i \in DOMAIN c, NEW j \in DOMAIN c, c[i] = c[j] PROVE i = j
    BY DEF Distinct
  <2>1. i \in DOMAIN a /\ j \in DOMAIN a => i = j
    BY <1>2 DEF Names, Distinct
  <2>2. i - Len(a) \in DOMAIN b /\ j - Len(a) \in DOMAIN b /\ c[i] = b[i - Len(a)]
          /\ c[j] = b[j - Len(a)] => i = j
    <3> SUFFICES ASSUME i - Len(a) \in DOMAIN b, j - Len(a) \in DOMAIN b,
                        b[i - Len(a)] = b[j - Len(a)]
                 PROVE  i = j
      OBVIOUS
    <3>1. i - Len(a) = j - Len(a)
      BY DEF Names, Distinct
    <3>2. i \in Int /\ j \in Int /\ Len(a) \in Int
      BY <1>3
    <3> QED BY <3>1, <3>2
  <2>3. \A x \in DOMAIN a, y \in DOMAIN b : a[x] # b[y]
    BY DEF Names, Elements
  <2> QED BY <1>2, <2>1, <2>2, <2>3
<1> QED BY <1>2, <1>4, <1>5 DEF c, Names

\* A mount is of one of the volumes, at one of the paths.
LEMMA ListItems ==
  ASSUME NEW m, NEW V, NEW P, NEW files, Lists(m, V, P, files), NEW i \in DOMAIN m
  PROVE  m[i].volume \in V /\ m[i].path \in P
<1> DEFINE Mount == [volume : V, path : P]
<1>1. m \in Seq(Mount)
  BY DEF Lists
<1> HIDE DEF Mount
<1>2. m[i] \in Mount
  BY <1>1, LenProperties
<1> QED BY <1>2 DEF Mount

\* Two mount lists are lists of the volumes and paths of both.
LEMMA JoinTypes ==
  ASSUME NEW a, NEW b, NEW V, NEW W, NEW P, NEW Q, NEW files,
         Lists(a, V, P, files), Lists(b, W, Q, files)
  PROVE  /\ a \in Seq([volume : V \cup W, path : P \cup Q])
         /\ b \in Seq([volume : V \cup W, path : P \cup Q])
<1> DEFINE Mount == [volume : V \cup W, path : P \cup Q]
<1>1. [volume : V, path : P] \subseteq Mount /\ [volume : W, path : Q] \subseteq Mount
  OBVIOUS
<1> HIDE DEF Mount
<1>2. a \in Seq(Mount) /\ b \in Seq(Mount)
  BY <1>1, SeqMonotonic DEF Lists
<1> QED BY <1>2 DEF Mount

\* Mount lists with no path in common join to a mount list.
LEMMA JoinLists ==
  ASSUME NEW a, NEW b, NEW V, NEW W, NEW P, NEW Q, NEW files,
         Lists(a, V, P, files), Lists(b, W, Q, files), P \cap Q = {}
  PROVE  Lists(a \o b, V \cup W, P \cup Q, files)
<1> DEFINE c == a \o b
<1> DEFINE Mount == [volume : V \cup W, path : P \cup Q]
<1>1. a \in Seq(Mount) /\ b \in Seq(Mount)
  BY JoinTypes
<1>2. /\ c \in Seq(Mount)
      /\ \A i \in DOMAIN c :
           \/ i \in DOMAIN a /\ c[i] = a[i]
           \/ i - Len(a) \in DOMAIN b /\ i > Len(a) /\ c[i] = b[i - Len(a)]
  BY <1>1, Positions
<1>3. Len(a) \in Nat /\ DOMAIN c \subseteq Int
  BY <1>1, <1>2, LenProperties
<1> HIDE DEF c, Mount
<1>4. \A i \in DOMAIN c : c[i].volume = "config" => c[i].path \in files
  BY <1>2 DEF Lists
<1>5. ASSUME NEW i \in DOMAIN c, NEW j \in DOMAIN c, c[i].path = c[j].path PROVE i = j
  <2>1. i \in DOMAIN a /\ j \in DOMAIN a /\ c[i] = a[i] /\ c[j] = a[j] => i = j
    BY <1>5 DEF Lists
  <2>2. i - Len(a) \in DOMAIN b /\ j - Len(a) \in DOMAIN b /\ c[i] = b[i - Len(a)]
          /\ c[j] = b[j - Len(a)] => i = j
    <3>1. i \in Int /\ j \in Int
      BY <1>3
    <3>2. i - Len(a) \in DOMAIN b /\ j - Len(a) \in DOMAIN b /\ c[i] = b[i - Len(a)]
            /\ c[j] = b[j - Len(a)] => i - Len(a) = j - Len(a)
      BY <1>5 DEF Lists
    <3> QED BY <1>3, <3>1, <3>2
  <2>3. \A x \in DOMAIN a, y \in DOMAIN b : a[x].path # b[y].path
    <3>1. \A x \in DOMAIN a : a[x].path \in P
      BY ListItems
    <3>2. \A y \in DOMAIN b : b[y].path \in Q
      BY ListItems
    <3> QED BY <3>1, <3>2
  <2> QED BY <1>2, <1>5, <2>1, <2>2, <2>3
<1> QED BY <1>2, <1>4, <1>5 DEF c, Mount, Lists

\* A feature that is off adds no volume,
LEMMA OptNames ==
  ASSUME NEW on, NEW v, NEW E, Names(v, E)
  PROVE  Names(Opt(on, v), When(on, E))
<1>1. Names(<<>>, {})
  BY DEF Names, Distinct, Elements
<1> QED BY <1>1 DEF Opt, When

\* and no mount.
LEMMA OptLists ==
  ASSUME NEW on, NEW m, NEW V, NEW P, NEW files, Lists(m, V, P, files)
  PROVE  Lists(Opt(on, m), When(on, V), When(on, P), files)
<1>1. Lists(<<>>, {}, {}, files)
  BY DEF Lists
<1> QED BY <1>1 DEF Opt, When

\* Mounts of one volume, on different paths.
LEMMA MountsList ==
  ASSUME NEW volume, NEW paths, NEW P, Names(paths, P), NEW files,
         volume = "config" => P \subseteq files
  PROVE  Lists(Mounts(volume, paths), {volume}, P, files)
<1> DEFINE n == Len(paths)
           m == Mounts(volume, paths)
<1>1. n \in Nat /\ DOMAIN paths = 1..n /\ \A i \in 1..n : paths[i] \in P
  BY LenProperties DEF Names
<1>2. m = [i \in 1..n |-> [volume |-> volume, path |-> paths[i]]]
  BY <1>1 DEF Mounts
<1> HIDE DEF n, m
<1> DEFINE S == [volume : {volume}, path : P]
<1>3. m \in [1..n -> S]
  BY <1>1, <1>2
<1>4. m \in Seq(S)
  <2> HIDE DEF S
  <2> QED BY <1>1, <1>3, SeqDef
<1>5. DOMAIN m = 1..n /\ \A i \in 1..n : m[i].volume = volume /\ m[i].path = paths[i]
  BY <1>2
<1>6. \A i, j \in 1..n : paths[i] = paths[j] => i = j
  BY <1>1 DEF Names, Distinct
<1> QED BY <1>1, <1>4, <1>5, <1>6 DEF Lists, m

\* One container, or two.
LEMMA Pair ==
  ASSUME NEW c, NEW d
  PROVE  <<c>> \o <<d>> = <<c, d>> /\ <<c>> \o << >> = <<c>>
<1> DEFINE S == {c, d}
           p == <<c>>
           q == <<d>>
           r == <<c, d>>
<1>1. p \in Seq(S) /\ q \in Seq(S) /\ r \in Seq(S)
  BY Short
<1>2. Len(p) = 1 /\ Len(q) = 1 /\ Len(r) = 2 /\ p[1] = c /\ q[1] = d /\ r[1] = c /\ r[2] = d
  OBVIOUS
<1> HIDE DEF p, q, r, S
<1>3. p \o q = r
  <2>1. /\ p \o q \in Seq(S) /\ Len(p \o q) = 2
        /\ \A i \in 1..2 : (p \o q)[i] = IF i <= 1 THEN p[i] ELSE q[i - 1]
    BY <1>1, <1>2, ConcatProperties
  <2>2. (p \o q)[1] = c /\ (p \o q)[2] = d
    BY <1>2, <2>1
  <2>3. \A i \in 1..Len(p \o q) : (p \o q)[i] = r[i]
    BY <1>2, <2>1, <2>2
  <2> QED BY <1>1, <1>2, <2>1, <2>3, SeqEqual
<1>4. p \o << >> = p
  BY <1>1, ConcatEmptySeq
<1> QED BY <1>3, <1>4 DEF p, q, r

\* Volume lists of one,
LEMMA One ==
  ASSUME NEW x
  PROVE  Names(<<x>>, {x})
<1> DEFINE q == <<x>>
<1>1. q \in Seq({x})
  BY Short
<1>2. DOMAIN q = {1} /\ q[1] = x
  OBVIOUS
<1> HIDE DEF q
<1>3. Distinct(q) /\ Elements(q) = {x}
  BY <1>2 DEF Distinct, Elements
<1> QED BY <1>1, <1>3 DEF q, Names

\* two
LEMMA Two ==
  ASSUME NEW x, NEW y, x # y
  PROVE  Names(<<x, y>>, {x, y})
<1> DEFINE q == <<x, y>>
<1>1. q \in Seq({x, y})
  BY Short
<1>2. DOMAIN q = {1, 2} /\ q[1] = x /\ q[2] = y
  OBVIOUS
<1> HIDE DEF q
<1>3. Distinct(q) /\ Elements(q) = {x, y}
  BY <1>2 DEF Distinct, Elements
<1> QED BY <1>1, <1>3 DEF q, Names

\* and three volumes.
LEMMA Three ==
  ASSUME NEW x, NEW y, NEW z, x # y, y # z, x # z
  PROVE  Names(<<x, y, z>>, {x, y, z})
<1> DEFINE q == <<x, y, z>>
<1>1. q \in Seq({x, y, z})
  BY Short
<1>2. DOMAIN q = {1, 2, 3} /\ q[1] = x /\ q[2] = y /\ q[3] = z
  OBVIOUS
<1> HIDE DEF q
<1>3. Distinct(q) /\ Elements(q) = {x, y, z}
  BY <1>2 DEF Distinct, Elements
<1> QED BY <1>1, <1>3 DEF q, Names

-----------------------------------------------------------------------------
(* Containers                                                              *)

\* The part of Lists that dedupeVolumeMountsByPath keeps.
Fits(m, V, files) ==
  /\ \A i, j \in DOMAIN m : m[i].path = m[j].path => i = j
  /\ \A i \in DOMAIN m :
       m[i].volume \in V /\ (m[i].volume = "config" => m[i].path \in files)

\* Both configuration files are mounted.
HasFiles(m) == \A f \in Elements(ConfigDir) : \E i \in DOMAIN m : m[i].path = f

\* A mount list fits a pod that has its volumes.
LEMMA ListFits ==
  ASSUME NEW m, NEW V, NEW W, NEW P, NEW files, Lists(m, V, P, files), V \subseteq W
  PROVE  Fits(m, W, files)
<1>1. \A i \in DOMAIN m : m[i].volume \in W
  BY ListItems
<1> QED BY <1>1 DEF Lists, Fits

\* What is appended takes no file away.
LEMMA JoinHasFiles ==
  ASSUME NEW a, NEW b, NEW V, NEW W, NEW P, NEW Q, NEW files,
         Lists(a, V, P, files), Lists(b, W, Q, files), HasFiles(a)
  PROVE  HasFiles(a \o b)
<1>1. \A i \in DOMAIN a : i \in DOMAIN (a \o b) /\ (a \o b)[i] = a[i]
  BY JoinTypes, Positions
<1> DEFINE c == a \o b
<1>2. \A i \in DOMAIN a : i \in DOMAIN c /\ c[i] = a[i]
  BY <1>1
<1> HIDE DEF c
<1>3. HasFiles(c)
  BY <1>2 DEF HasFiles
<1> QED BY <1>3 DEF c

\* dedupeVolumeMountsByPath makes a valid list of two that share paths, and
\* drops no path that is in the second list only.
LEMMA DedupeFits ==
  ASSUME NEW a, NEW b, NEW V, NEW W, NEW P, NEW Q, NEW files,
         Lists(a, V, P, files), Lists(b, W, Q, files), HasFiles(b),
         P \cap Elements(ConfigDir) = {}
  PROVE  Fits(Dedupe(a \o b), V \cup W, files) /\ HasFiles(Dedupe(a \o b))
<1> DEFINE c == a \o b
           m == Dedupe(c)
<1> DEFINE Mount == [volume : V \cup W, path : P \cup Q]
<1>1. a \in Seq(Mount) /\ b \in Seq(Mount)
  BY JoinTypes
<1>2. /\ c \in Seq(Mount)
      /\ \A i \in DOMAIN c :
           \/ i \in DOMAIN a /\ c[i] = a[i]
           \/ i - Len(a) \in DOMAIN b /\ i > Len(a) /\ c[i] = b[i - Len(a)]
      /\ \A i \in DOMAIN b : i + Len(a) \in DOMAIN c /\ c[i + Len(a)] = b[i]
  BY <1>1, Positions
<1>3. DOMAIN c = 1..Len(c) /\ Len(c) \in Nat /\ Len(a) \in Nat
  BY <1>1, <1>2, LenProperties
<1> HIDE DEF c, Mount
<1>4. /\ DOMAIN m \subseteq DOMAIN c
      /\ \A i \in DOMAIN m : m[i] = c[i] /\ \A j \in 1..(i - 1) : c[j].path # c[i].path
      /\ \A i \in DOMAIN c : (\A j \in 1..(i - 1) : c[j].path # c[i].path) => i \in DOMAIN m
  BY DEF Dedupe
<1> HIDE DEF m
<1>5. \A i \in DOMAIN m :
        m[i].volume \in V \cup W /\ (m[i].volume = "config" => m[i].path \in files)
  <2>1. \A i \in DOMAIN a : a[i].volume \in V
    BY ListItems
  <2>2. \A i \in DOMAIN b : b[i].volume \in W
    BY ListItems
  <2> QED BY <1>2, <1>4, <2>1, <2>2 DEF Lists
<1>6. ASSUME NEW i \in DOMAIN m, NEW j \in DOMAIN m, m[i].path = m[j].path PROVE i = j
  <2>1. i \in 1..Len(c) /\ j \in 1..Len(c) /\ c[i].path = c[j].path
    BY <1>3, <1>4, <1>6
  <2>2. ~(i \in 1..(j - 1)) /\ ~(j \in 1..(i - 1))
    BY <1>4, <2>1
  <2> QED BY <1>3, <2>1, <2>2
<1>7. ASSUME NEW f \in Elements(ConfigDir) PROVE \E i \in DOMAIN m : m[i].path = f
  <2>1. PICK k \in DOMAIN b : b[k].path = f
    BY DEF HasFiles
  <2> DEFINE i == k + Len(a)
  <2>2. i \in DOMAIN c /\ c[i] = b[k]
    BY <1>2
  <2>3. k \in Int
    BY <1>1, LenProperties
  <2>4. ASSUME NEW j \in 1..(i - 1) PROVE c[j].path # f
    <3>1. j \in DOMAIN c /\ j # i
      BY <1>3, <2>2, <2>3, <2>4
    <3>2. CASE j \in DOMAIN a /\ c[j] = a[j]
      BY <3>2, ListItems
    <3>3. CASE j - Len(a) \in DOMAIN b /\ c[j] = b[j - Len(a)]
      <4>1. j - Len(a) # k
        BY <1>3, <2>3, <3>1
      <4> QED BY <2>1, <3>3, <4>1 DEF Lists
    <3> QED BY <1>2, <3>1, <3>2, <3>3
  <2>5. i \in DOMAIN m /\ m[i] = c[i]
    <3>1. \A j \in 1..(i - 1) : c[j].path # c[i].path
      BY <2>1, <2>2, <2>4
    <3> QED BY <1>4, <2>2, <3>1
  <2> QED BY <2>1, <2>2, <2>5
<1>8. Fits(m, V \cup W, files) /\ HasFiles(m)
  BY <1>5, <1>6, <1>7 DEF Fits, HasFiles
<1> QED BY <1>8 DEF c, m

\* The files that a command names, and those that the other processes parse.
CommandList == CommandFiles \o ConfigDir
ConfigLists == {ConfigDir, ConfigDir \o ConfigFiles}

\* What a container needs of its pod and of the image.
Good(c, E, files, ships) ==
  /\ Fits(c.mounts, E, files)
  /\ \/ c.parses = <<>>
     \/ c.parses \in ConfigLists /\ HasFiles(c.mounts)
     \/ /\ c.parses = CommandList /\ HasFiles(c.mounts)
        /\ Elements(CommandFiles) \subseteq ships

\* The custom configuration is once in each list of files; only the command
\* of the API names others.
LEMMA CustomOnce ==
  ASSUME NEW f, f \in ConfigLists \cup {CommandList}
  PROVE  /\ \E i \in DOMAIN f : \A j \in DOMAIN f : f[j] = "02-neutron-custom.conf" <=> j = i
         /\ f \in ConfigLists => Elements(f) \subseteq Elements(ConfigDir)
         /\ Elements(f) \subseteq Elements(ConfigDir) \cup Elements(CommandFiles)
<1>1. /\ Elements(ConfigDir) = {"01-neutron.conf", "02-neutron-custom.conf"}
      /\ Elements(CommandFiles) = {"neutron-dist.conf", "neutron.conf"}
  BY DEF Elements, ConfigDir, CommandFiles
<1>2. ConfigLists = {<<"01-neutron.conf", "02-neutron-custom.conf">>,
                     <<"01-neutron.conf", "02-neutron-custom.conf", "01-neutron.conf">>}
  BY DEF ConfigLists, ConfigDir, ConfigFiles
<1>3. CASE f = <<"01-neutron.conf", "02-neutron-custom.conf">>
  <2>1. 2 \in DOMAIN f /\ \A j \in DOMAIN f : f[j] = "02-neutron-custom.conf" <=> j = 2
    BY <1>3
  <2>2. Elements(f) \subseteq Elements(ConfigDir)
    BY <1>3 DEF ConfigDir
  <2> QED BY <2>1, <2>2
<1>4. CASE f = <<"01-neutron.conf", "02-neutron-custom.conf", "01-neutron.conf">>
  <2>1. 2 \in DOMAIN f /\ \A j \in DOMAIN f : f[j] = "02-neutron-custom.conf" <=> j = 2
    BY <1>4
  <2>2. \A i \in DOMAIN f : f[i] \in {"01-neutron.conf", "02-neutron-custom.conf"}
    BY <1>4
  <2>3. Elements(f) \subseteq Elements(ConfigDir)
    BY <1>1, <2>2 DEF Elements
  <2> QED BY <2>1, <2>3
<1>5. CASE f = CommandList
  <2>1. /\ Len(f) = 4 /\ DOMAIN f = 1..4
        /\ f[1] = "neutron-dist.conf" /\ f[2] = "neutron.conf"
        /\ f[3] = "01-neutron.conf" /\ f[4] = "02-neutron-custom.conf"
    <3> DEFINE S == {"neutron-dist.conf", "neutron.conf", "01-neutron.conf", "02-neutron-custom.conf"}
               a == CommandFiles
               b == ConfigDir
    <3>1. a \in Seq(S) /\ b \in Seq(S)
      BY Short DEF CommandFiles, ConfigDir
    <3>2. /\ Len(a) = 2 /\ a[1] = "neutron-dist.conf" /\ a[2] = "neutron.conf"
          /\ Len(b) = 2 /\ b[1] = "01-neutron.conf" /\ b[2] = "02-neutron-custom.conf"
      BY DEF CommandFiles, ConfigDir
    <3> HIDE DEF a, b, S
    <3>3. /\ a \o b \in Seq(S) /\ Len(a \o b) = 4
          /\ \A i \in 1..4 : (a \o b)[i] = IF i <= 2 THEN a[i] ELSE b[i - 2]
      <4>1. /\ a \o b \in Seq(S) /\ Len(a \o b) = Len(a) + Len(b)
            /\ \A i \in 1 .. Len(a) + Len(b) :
                 (a \o b)[i] = IF i <= Len(a) THEN a[i] ELSE b[i - Len(a)]
        BY <3>1, ConcatProperties
      <4>2. Len(a) = 2 /\ Len(b) = 2 /\ Len(a) + Len(b) = 4
        BY <3>2
      <4> QED BY <4>1, <4>2
    <3>4. DOMAIN (a \o b) = 1..4
      BY <3>3, LenProperties
    <3>5. f = a \o b
      BY <1>5 DEF CommandList, a, b
    <3> QED BY <3>2, <3>3, <3>4, <3>5
  <2>2. 4 \in DOMAIN f /\ \A j \in DOMAIN f : f[j] = "02-neutron-custom.conf" <=> j = 4
    BY <2>1
  <2>3. Elements(f) \subseteq Elements(ConfigDir) \cup Elements(CommandFiles)
    <3>1. \A i \in DOMAIN f : f[i] \in Elements(ConfigDir) \cup Elements(CommandFiles)
      BY <1>1, <2>1
    <3> QED BY <3>1 DEF Elements
  <2>4. f \notin ConfigLists
    BY <1>2, <2>1
  <2> QED BY <2>2, <2>3, <2>4
<1> QED BY <1>2, <1>3, <1>4, <1>5

\* A pod of good containers runs.
LEMMA PodRuns ==
  ASSUME NEW pod, NEW E, NEW files, NEW ships, Names(pod.volumes, E),
         Distinct([i \in DOMAIN pod.containers |-> pod.containers[i].name]),
         \A c \in Elements(pod.containers) : Good(c, E, files, ships)
  PROVE  Accepted(pod) /\ Mountable(pod, files) /\ ParsesOnce(pod, ships)
<1>1. \A c \in Elements(pod.containers) : Fits(c.mounts, E, files)
  BY DEF Good
<1>2. Elements(pod.volumes) = E /\ Distinct(pod.volumes)
  BY DEF Names
<1>3. ASSUME NEW c \in Elements(pod.containers)
      PROVE  /\ Distinct([i \in DOMAIN c.mounts |-> c.mounts[i].path])
             /\ \A m \in Elements(c.mounts) :
                  m.volume \in E /\ (m.volume = "config" => m.path \in files)
  BY <1>1 DEF Fits, Distinct, Elements
<1>4. Accepted(pod) /\ Mountable(pod, files)
  BY <1>2, <1>3 DEF Accepted, Mountable
<1>5. ASSUME NEW c \in Elements(pod.containers), c.parses # <<>>
      PROVE  /\ \E i \in DOMAIN c.parses :
                  {j \in DOMAIN c.parses : c.parses[j] = "02-neutron-custom.conf"} = {i}
             /\ Elements(c.parses) \subseteq {m.path : m \in Elements(c.mounts)} \cup ships
  <2>1. c.parses \in ConfigLists \cup {CommandList} /\ HasFiles(c.mounts)
    BY <1>5 DEF Good
  <2>2. \E i \in DOMAIN c.parses :
          {j \in DOMAIN c.parses : c.parses[j] = "02-neutron-custom.conf"} = {i}
    <3> DEFINE f == c.parses
    <3>1. f \in ConfigLists \cup {CommandList}
      BY <2>1
    <3> HIDE DEF f
    <3>2. PICK i \in DOMAIN f : \A j \in DOMAIN f : f[j] = "02-neutron-custom.conf" <=> j = i
      BY <3>1, CustomOnce
    <3>3. {j \in DOMAIN f : f[j] = "02-neutron-custom.conf"} = {i}
      BY <3>2
    <3> QED BY <3>2, <3>3 DEF f
  <2>3. Elements(ConfigDir) \subseteq {m.path : m \in Elements(c.mounts)}
    BY <2>1 DEF HasFiles, Elements
  <2>4. Elements(c.parses) \subseteq Elements(ConfigDir) \cup ships
    <3>1. CASE c.parses \in ConfigLists
      BY <2>1, <3>1, CustomOnce
    <3>2. CASE Elements(CommandFiles) \subseteq ships
      <4>1. Elements(c.parses) \subseteq Elements(ConfigDir) \cup Elements(CommandFiles)
        BY <2>1, CustomOnce
      <4> QED BY <3>2, <4>1
    <3> QED BY <1>5, <3>1, <3>2 DEF Good
  <2> QED BY <2>2, <2>3, <2>4
<1>6. ParsesOnce(pod, ships)
  BY <1>5 DEF ParsesOnce
<1> QED BY <1>4, <1>6

-----------------------------------------------------------------------------
(* The lists that the pods share                                           *)

\* What each feature brings along.
Ca(s) == When("ca" \in s.switches, {"combined-ca-bundle"})
MTLS(s) == When("mtls" \in s.switches, {"mtls"})
Endpoints(s) ==
  When("internal" \in s.switches, {"internal-tls"})
    \cup When("public" \in s.switches, {"public-tls"})
OVN(s) == When(s.ovn /\ "ovnTLS" \in s.switches, {"ovndb"})
Extra(s, svc) == Elements(ExtraVolMounts(s, svc, "volumes"))

CaPath == {"ca-bundle.pem"}
MTLSPath == {"mtls.crt", "mtls.key"}
EndpointPath == {"internal.crt", "internal.key", "public.crt", "public.key"}
OVNPath == {"ovndb.crt", "ovndb.key", "ovndbca.crt"}
ConfigPath == {"01-neutron.conf", "02-neutron-custom.conf", "my.cnf", "policy.yaml"}
HttpdPath == {"httpd.conf", "10-neutron.conf", "ssl.conf", "run-httpd"}
ExtraPath(s, svc) ==
  LET mounts == ExtraVolMounts(s, svc, "mounts") IN {mounts[i].path : i \in DOMAIN mounts}

\* A list may be said to use more paths than it does.
LEMMA WiderList ==
  ASSUME NEW m, NEW V, NEW P, NEW Q, NEW files, Lists(m, V, P, files), P \subseteq Q
  PROVE  Lists(m, V, Q, files)
<1>1. [volume : V, path : P] \subseteq [volume : V, path : Q]
  OBVIOUS
<1>2. m \in Seq([volume : V, path : Q])
  BY <1>1, SeqMonotonic DEF Lists
<1> QED BY <1>2 DEF Lists

\* The user's additions to the pods of a service, if they keep apart.
Services == {NeutronAPIPropagation, DbsyncPropagation}
LEMMA ExtraApart ==
  ASSUME NEW s, ExtraFits(s), NEW svc \in Services, NEW files
  PROVE  /\ Names(ExtraVolMounts(s, svc, "volumes"), Extra(s, svc))
         /\ Lists(ExtraVolMounts(s, svc, "mounts"), Extra(s, svc), ExtraPath(s, svc), files)
         /\ Extra(s, svc) \cap OwnVolumes = {} /\ ExtraPath(s, svc) \cap OwnPaths = {}
<1> DEFINE v == ExtraVolMounts(s, svc, "volumes")
           m == ExtraVolMounts(s, svc, "mounts")
           P == {m[i].path : i \in DOMAIN m}
<1>1. KeepsApart(v, m)
  BY DEF ExtraFits, Services
<1>2. Extra(s, svc) = Elements(v) /\ ExtraPath(s, svc) = P
  BY DEF Extra, ExtraPath
<1> HIDE DEF v, m
<1>3. /\ v \in Seq(Elements(v)) /\ Distinct(v) /\ Elements(v) \cap OwnVolumes = {}
      /\ m \in Seq([volume : Elements(v), path : P])
      /\ \A i, j \in DOMAIN m : m[i].path = m[j].path => i = j
      /\ P \cap OwnPaths = {}
  BY <1>1 DEF KeepsApart
<1> HIDE DEF P
<1>4. \A i \in DOMAIN m : m[i].volume # "config"
  <2> DEFINE Mount == [volume : Elements(v), path : P]
  <2>1. m \in Seq(Mount)
    BY <1>3
  <2>2. "config" \notin Elements(v)
    BY <1>3 DEF OwnVolumes
  <2> HIDE DEF Mount
  <2>3. \A i \in DOMAIN m : m[i] \in Mount
    BY <2>1, LenProperties
  <2> QED BY <2>2, <2>3 DEF Mount
<1>5. Names(v, Elements(v)) /\ Lists(m, Elements(v), P, files)
  BY <1>3, <1>4 DEF Names, Lists
<1> QED BY <1>2, <1>3, <1>5 DEF v, m

\* The volumes every pod has,
LEMMA GetVolumesNames ==
  ASSUME NEW s, ExtraFits(s), NEW svc \in Services
  PROVE  Names(GetVolumes(s, svc), {"config", "httpd-config"} \cup Extra(s, svc))
<1>1. Names(<<"config", "httpd-config">>, {"config", "httpd-config"})
  BY Two
<1>2. {"config", "httpd-config"} \cap Extra(s, svc) = {}
  BY ExtraApart DEF OwnVolumes
<1> QED BY <1>1, <1>2, ExtraApart, JoinNames DEF GetVolumes

\* and those of the optional features.
LEMMA FeatureNames ==
  ASSUME NEW s
  PROVE  /\ Names(VolumesOf(s), Ca(s) \cup MTLS(s))
         /\ Names(Opt("ca" \in s.switches, <<"combined-ca-bundle">>), Ca(s))
         /\ Names(EndpointVolumes(s), Endpoints(s))
         /\ Names(OVNVolume(s), OVN(s))
<1>1. Names(Opt("ca" \in s.switches, <<"combined-ca-bundle">>), Ca(s))
  BY OptNames, One DEF Ca
<1>2. Names(Opt("mtls" \in s.switches, <<"mtls">>), MTLS(s))
  BY OptNames, One DEF MTLS
<1>3. Names(VolumesOf(s), Ca(s) \cup MTLS(s))
  <2>1. Ca(s) \cap MTLS(s) = {}
    BY DEF Ca, MTLS, When
  <2> QED BY <1>1, <1>2, <2>1, JoinNames DEF VolumesOf
<1>4. Names(EndpointVolumes(s), Endpoints(s))
  <2> DEFINE I == When("internal" \in s.switches, {"internal-tls"})
             P == When("public" \in s.switches, {"public-tls"})
  <2>1. Names(Opt("internal" \in s.switches, <<"internal-tls">>), I)
    BY OptNames, One
  <2>2. Names(Opt("public" \in s.switches, <<"public-tls">>), P)
    BY OptNames, One
  <2>3. I \cap P = {}
    BY DEF When
  <2> HIDE DEF I, P
  <2>4. Names(EndpointVolumes(s), I \cup P)
    BY <2>1, <2>2, <2>3, JoinNames DEF EndpointVolumes
  <2> QED BY <2>4 DEF Endpoints, I, P
<1>5. Names(OVNVolume(s), OVN(s))
  BY OptNames, One DEF OVNVolume, OVN
<1> QED BY <1>1, <1>3, <1>4, <1>5

\* The mounts of the certificates.
LEMMA FeatureLists ==
  ASSUME NEW s, NEW files
  PROVE  /\ Lists(CaMounts(s), Ca(s), CaPath, files)
         /\ Lists(MTLSMounts(s), MTLS(s), MTLSPath, files)
         /\ Lists(EndpointMounts(s), Endpoints(s), EndpointPath, files)
         /\ Lists(OVNMounts(s), OVN(s), OVNPath, files)
<1>a. \A on, P, Q : P \subseteq Q => When(on, P) \subseteq Q
  BY DEF When
<1>1. Lists(CaMounts(s), Ca(s), CaPath, files)
  <2>1. Lists(Mounts("combined-ca-bundle", <<"ca-bundle.pem">>), {"combined-ca-bundle"}, CaPath, files)
    BY One, MountsList DEF CaPath
  <2>2. Lists(CaMounts(s), Ca(s), When("ca" \in s.switches, CaPath), files)
    BY <2>1, OptLists DEF CaMounts, Ca
  <2> QED BY <1>a, <2>2, WiderList
<1>2. Lists(MTLSMounts(s), MTLS(s), MTLSPath, files)
  <2>1. Lists(Mounts("mtls", <<"mtls.crt", "mtls.key">>), {"mtls"}, MTLSPath, files)
    BY Two, MountsList DEF MTLSPath
  <2>2. Lists(MTLSMounts(s), MTLS(s), When("mtls" \in s.switches, MTLSPath), files)
    BY <2>1, OptLists DEF MTLSMounts, MTLS
  <2> QED BY <1>a, <2>2, WiderList
<1>3. Lists(EndpointMounts(s), Endpoints(s), EndpointPath, files)
  <2> DEFINE i == "internal" \in s.switches
             p == "public" \in s.switches
             IP == {"internal.crt", "internal.key"}
             PP == {"public.crt", "public.key"}
  <2>1. Lists(Mounts("internal-tls", <<"internal.crt", "internal.key">>), {"internal-tls"}, IP, files)
    BY Two, MountsList
  <2>2. Lists(Mounts("public-tls", <<"public.crt", "public.key">>), {"public-tls"}, PP, files)
    BY Two, MountsList
  <2>3. IP \cap PP = {} /\ IP \cup PP = EndpointPath
    BY DEF EndpointPath
  <2> HIDE DEF IP, PP
  <2>4. Lists(Opt(i, Mounts("internal-tls", <<"internal.crt", "internal.key">>)),
              When(i, {"internal-tls"}), IP, files)
    BY <1>a, <2>1, OptLists, WiderList
  <2>5. Lists(Opt(p, Mounts("public-tls", <<"public.crt", "public.key">>)),
              When(p, {"public-tls"}), PP, files)
    BY <1>a, <2>2, OptLists, WiderList
  <2> QED BY <2>3, <2>4, <2>5, JoinLists DEF EndpointMounts, Endpoints
<1>4. Lists(OVNMounts(s), OVN(s), OVNPath, files)
  <2> DEFINE on == s.ovn /\ "ovnTLS" \in s.switches
  <2>1. Lists(Mounts("ovndb", <<"ovndb.crt", "ovndb.key", "ovndbca.crt">>), {"ovndb"}, OVNPath, files)
    BY Three, MountsList DEF OVNPath
  <2>2. Lists(OVNMounts(s), OVN(s), When(on, OVNPath), files)
    BY <2>1, OptLists DEF OVNMounts, OVN
  <2> HIDE DEF on
  <2> QED BY <1>a, <2>2, WiderList
<1> QED BY <1>1, <1>2, <1>3, <1>4

\* GetVolumeMounts: policy.yaml is mounted if the user overwrites it, and is
\* then in the config Secret.
LEMMA GetVolumeMountsList ==
  ASSUME NEW s, ExtraFits(s), NEW svc \in Services,
         NEW policyOverwrite, policyOverwrite => PolicyOverwrite(s)
  PROVE  /\ Lists(GetVolumeMounts(s, svc, policyOverwrite), {"config"} \cup Extra(s, svc),
                  ConfigPath \cup ExtraPath(s, svc), ConfigSecret(s))
         /\ HasFiles(GetVolumeMounts(s, svc, policyOverwrite))
<1> DEFINE first == <<"01-neutron.conf", "02-neutron-custom.conf", "my.cnf">>
           paths == first \o Opt(policyOverwrite, <<"policy.yaml">>)
           F == {"01-neutron.conf", "02-neutron-custom.conf", "my.cnf"}
           P == F \cup When(policyOverwrite, {"policy.yaml"})
           a == Mounts("config", paths)
           b == ExtraVolMounts(s, svc, "mounts")
<1>1. Names(first, F)
  BY Three
<1>2. Names(Opt(policyOverwrite, <<"policy.yaml">>), When(policyOverwrite, {"policy.yaml"}))
  BY One, OptNames
<1>3. F \cap When(policyOverwrite, {"policy.yaml"}) = {}
  BY DEF When
<1>4. Names(paths, P)
  <2> HIDE DEF first, F
  <2> QED BY <1>1, <1>2, <1>3, JoinNames
<1>5. P \subseteq ConfigSecret(s) /\ P \subseteq ConfigPath
  BY DEF ConfigSecret, PolicyOverwrite, When, ConfigPath
<1>6. Elements(ConfigDir) \subseteq P
  BY DEF ConfigDir, Elements
<1> HIDE DEF paths, P, first, F
<1>7. Lists(a, {"config"}, P, ConfigSecret(s))
  BY <1>4, <1>5, MountsList
<1>8. HasFiles(a)
  <2>1. DOMAIN a = DOMAIN paths /\ \A i \in DOMAIN paths : a[i].path = paths[i]
    BY DEF Mounts
  <2>2. \A f \in P : \E i \in DOMAIN paths : paths[i] = f
    BY <1>4 DEF Names, Elements
  <2> HIDE DEF a
  <2> QED BY <1>6, <2>1, <2>2 DEF HasFiles
<1>9. Lists(a, {"config"}, ConfigPath, ConfigSecret(s))
  BY <1>5, <1>7, WiderList
<1>10. Lists(b, Extra(s, svc), ExtraPath(s, svc), ConfigSecret(s))
  BY ExtraApart
<1>11. ConfigPath \cap ExtraPath(s, svc) = {}
  BY ExtraApart DEF ConfigPath, OwnPaths
<1>12. GetVolumeMounts(s, svc, policyOverwrite) = a \o b
  BY DEF GetVolumeMounts, paths, first
<1> HIDE DEF a, b
<1>13. Lists(a \o b, {"config"} \cup Extra(s, svc), ConfigPath \cup ExtraPath(s, svc), ConfigSecret(s))
  BY <1>9, <1>10, <1>11, JoinLists
<1>14. HasFiles(a \o b)
  BY <1>8, <1>9, <1>10, JoinHasFiles
<1> QED BY <1>12, <1>13, <1>14

\* The mounts of neutron itself, in any container of the API, RPC or worker
\* pod, and the volumes that the pods share.
NeutronVolumes(s) == {"config", "httpd-config"} \cup Extra(s, NeutronAPIPropagation)
ApiVolumes(s) ==
  {"config"} \cup Extra(s, NeutronAPIPropagation) \cup Ca(s) \cup MTLS(s) \cup OVN(s)
ApiPath(s) ==
  ConfigPath \cup ExtraPath(s, NeutronAPIPropagation) \cup CaPath \cup MTLSPath \cup OVNPath

\* The mounts of the worker pod.
LEMMA WorkerMountsList ==
  ASSUME NEW s, ExtraFits(s)
  PROVE  /\ Lists(WorkerMounts(s), ApiVolumes(s), ApiPath(s), ConfigSecret(s))
         /\ HasFiles(WorkerMounts(s))
<1> DEFINE a == GetVolumeMounts(s, NeutronAPIPropagation, PolicyOverwrite(s))
           V == {"config"} \cup Extra(s, NeutronAPIPropagation)
           P == ConfigPath \cup ExtraPath(s, NeutronAPIPropagation)
           files == ConfigSecret(s)
<1>1. Lists(a, V, P, files) /\ HasFiles(a)
  BY GetVolumeMountsList DEF Services
<1>2. P \cap CaPath = {} /\ (P \cup CaPath) \cap MTLSPath = {}
      /\ (P \cup CaPath \cup MTLSPath) \cap OVNPath = {}
  <2>1. ExtraPath(s, NeutronAPIPropagation) \cap OwnPaths = {}
    BY ExtraApart DEF Services
  <2>2. ExtraPath(s, NeutronAPIPropagation) \cap (CaPath \cup MTLSPath \cup OVNPath) = {}
    BY <2>1 DEF OwnPaths, CaPath, MTLSPath, OVNPath
  <2>3. /\ ConfigPath \cap CaPath = {} /\ (ConfigPath \cup CaPath) \cap MTLSPath = {}
        /\ (ConfigPath \cup CaPath \cup MTLSPath) \cap OVNPath = {}
    BY DEF ConfigPath, CaPath, MTLSPath, OVNPath
  <2> QED BY <2>2, <2>3
<1>3. WorkerMounts(s) = a \o CaMounts(s) \o MTLSMounts(s) \o OVNMounts(s)
  BY DEF WorkerMounts
<1>4. /\ Lists(CaMounts(s), Ca(s), CaPath, files)
      /\ Lists(MTLSMounts(s), MTLS(s), MTLSPath, files)
      /\ Lists(OVNMounts(s), OVN(s), OVNPath, files)
  BY FeatureLists
<1>5. ApiVolumes(s) = V \cup Ca(s) \cup MTLS(s) \cup OVN(s)
      /\ ApiPath(s) = P \cup CaPath \cup MTLSPath \cup OVNPath
  BY DEF ApiVolumes, ApiPath
<1> HIDE DEF a, V, P, files
<1>6. Lists(a \o CaMounts(s), V \cup Ca(s), P \cup CaPath, files) /\ HasFiles(a \o CaMounts(s))
  <2>1. HasFiles(a \o CaMounts(s))
    BY <1>1, <1>2, <1>4, JoinHasFiles
  <2> QED BY <1>1, <1>2, <1>4, <2>1, JoinLists
<1> DEFINE b == a \o CaMounts(s)
<1> HIDE DEF b
<1>7. Lists(b \o MTLSMounts(s), V \cup Ca(s) \cup MTLS(s), P \cup CaPath \cup MTLSPath, files)
      /\ HasFiles(b \o MTLSMounts(s))
  <2>1. HasFiles(b \o MTLSMounts(s))
    BY <1>2, <1>4, <1>6, JoinHasFiles DEF b
  <2> QED BY <1>2, <1>4, <1>6, <2>1, JoinLists DEF b
<1> DEFINE c == b \o MTLSMounts(s)
<1> HIDE DEF c
<1>8. Lists(c \o OVNMounts(s), V \cup Ca(s) \cup MTLS(s) \cup OVN(s),
            P \cup CaPath \cup MTLSPath \cup OVNPath, files)
      /\ HasFiles(c \o OVNMounts(s))
  <2>1. HasFiles(c \o OVNMounts(s))
    BY <1>2, <1>4, <1>7, JoinHasFiles DEF c
  <2> QED BY <1>2, <1>4, <1>7, <2>1, JoinLists DEF c
<1> QED BY <1>3, <1>5, <1>8 DEF a, b, c, files

\* Deployment builds the same list for the API container.
HttpdMounts(s) == GetHttpdVolumeMount \o CaMounts(s) \o EndpointMounts(s)
HttpdVolumes(s) == {"httpd-config", "run-httpd"} \cup Ca(s) \cup Endpoints(s)

\* The mounts of the httpd container.
LEMMA HttpdMountsList ==
  ASSUME NEW s, NEW files
  PROVE  Lists(HttpdMounts(s), HttpdVolumes(s), HttpdPath \cup CaPath \cup EndpointPath, files)
<1> DEFINE h == Mounts("httpd-config", <<"httpd.conf", "10-neutron.conf", "ssl.conf">>)
           r == Mounts("run-httpd", <<"run-httpd">>)
           H == {"httpd.conf", "10-neutron.conf", "ssl.conf"}
<1>1. Lists(h, {"httpd-config"}, H, files)
  <2>1. Names(<<"httpd.conf", "10-neutron.conf", "ssl.conf">>, H)
    BY Three
  <2> HIDE DEF H
  <2> QED BY <2>1, MountsList
<1>2. Lists(r, {"run-httpd"}, {"run-httpd"}, files)
  BY One, MountsList
<1>3. H \cap {"run-httpd"} = {} /\ H \cup {"run-httpd"} = HttpdPath
  BY DEF HttpdPath
<1> HIDE DEF h, r, H
<1>4. Lists(h \o r, {"httpd-config"} \cup {"run-httpd"}, HttpdPath, files)
  BY <1>1, <1>2, <1>3, JoinLists
<1>5. HttpdPath \cap CaPath = {} /\ (HttpdPath \cup CaPath) \cap EndpointPath = {}
  BY DEF HttpdPath, CaPath, EndpointPath
<1>6. /\ Lists(CaMounts(s), Ca(s), CaPath, files)
      /\ Lists(EndpointMounts(s), Endpoints(s), EndpointPath, files)
  BY FeatureLists
<1>7. HttpdVolumes(s) = {"httpd-config"} \cup {"run-httpd"} \cup Ca(s) \cup Endpoints(s)
  BY DEF HttpdVolumes
<1> DEFINE g == h \o r
<1>8. GetHttpdVolumeMount = g
  BY DEF GetHttpdVolumeMount, h, r
<1>9. Lists(g, {"httpd-config"} \cup {"run-httpd"}, HttpdPath, files)
  BY <1>4
<1> HIDE DEF g
<1>10. Lists(g \o CaMounts(s), {"httpd-config"} \cup {"run-httpd"} \cup Ca(s), HttpdPath \cup CaPath, files)
  BY <1>5, <1>6, <1>9, JoinLists
<1>11. Lists(g \o CaMounts(s) \o EndpointMounts(s), HttpdVolumes(s),
             HttpdPath \cup CaPath \cup EndpointPath, files)
  BY <1>5, <1>6, <1>7, <1>10, JoinLists
<1> QED BY <1>8, <1>11 DEF HttpdMounts

\* The volumes that all pods have are apart from those of the features.
LEMMA SharedApart ==
  ASSUME NEW s, ExtraFits(s)
  PROVE  NeutronVolumes(s) \cap ({"run-httpd"} \cup Ca(s) \cup MTLS(s) \cup Endpoints(s) \cup OVN(s)) = {}
<1> DEFINE F == {"run-httpd", "combined-ca-bundle", "mtls", "internal-tls", "public-tls", "ovndb"}
<1>1. {"run-httpd"} \cup Ca(s) \cup MTLS(s) \cup Endpoints(s) \cup OVN(s) \subseteq F
  BY DEF Ca, MTLS, Endpoints, OVN, When
<1>2. Extra(s, NeutronAPIPropagation) \cap OwnVolumes = {}
  BY ExtraApart DEF Services
<1>3. {"config", "httpd-config"} \cap F = {} /\ F \subseteq OwnVolumes
  BY DEF OwnVolumes
<1> HIDE DEF F
<1> QED BY <1>1, <1>2, <1>3 DEF NeutronVolumes

\* The volumes of the pods, each once.
LEMMA WorkerVolumesNames ==
  ASSUME NEW s, ExtraFits(s)
  PROVE  Names(WorkerVolumes(s), NeutronVolumes(s) \cup Ca(s) \cup MTLS(s) \cup OVN(s))
<1>1. Names(GetVolumes(s, NeutronAPIPropagation), NeutronVolumes(s))
  BY GetVolumesNames DEF NeutronVolumes, Services
<1>2. NeutronVolumes(s) \cap (Ca(s) \cup MTLS(s)) = {}
  BY SharedApart
<1>3. (NeutronVolumes(s) \cup (Ca(s) \cup MTLS(s))) \cap OVN(s) = {}
  <2>1. (Ca(s) \cup MTLS(s)) \cap OVN(s) = {}
    BY DEF Ca, MTLS, OVN, When
  <2> QED BY <2>1, SharedApart
<1>4. Names(GetVolumes(s, NeutronAPIPropagation) \o VolumesOf(s), NeutronVolumes(s) \cup (Ca(s) \cup MTLS(s)))
  BY <1>1, <1>2, FeatureNames, JoinNames
<1>5. Names(WorkerVolumes(s), (NeutronVolumes(s) \cup (Ca(s) \cup MTLS(s))) \cup OVN(s))
  BY <1>3, <1>4, FeatureNames, JoinNames DEF WorkerVolumes
<1>6. (NeutronVolumes(s) \cup (Ca(s) \cup MTLS(s))) \cup OVN(s)
        = NeutronVolumes(s) \cup Ca(s) \cup MTLS(s) \cup OVN(s)
  OBVIOUS
<1> QED BY <1>5, <1>6

DeploymentVolumes(s) ==
  NeutronVolumes(s) \cup {"run-httpd"} \cup (Ca(s) \cup MTLS(s)) \cup Endpoints(s) \cup OVN(s)

\* The volumes of the API pod.
LEMMA DeploymentVolumesNames ==
  ASSUME NEW s, ExtraFits(s)
  PROVE  Names(Deployment(s).volumes, DeploymentVolumes(s))
<1>1. Names(GetVolumes(s, NeutronAPIPropagation), NeutronVolumes(s))
  BY GetVolumesNames DEF NeutronVolumes, Services
<1>2. Names(<<"run-httpd">>, {"run-httpd"})
  BY One
<1>3. NeutronVolumes(s) \cap {"run-httpd"} = {}
  BY SharedApart
<1>a. /\ {"run-httpd"} \cap (Ca(s) \cup MTLS(s)) = {}
      /\ ({"run-httpd"} \cup (Ca(s) \cup MTLS(s))) \cap Endpoints(s) = {}
      /\ ({"run-httpd"} \cup (Ca(s) \cup MTLS(s)) \cup Endpoints(s)) \cap OVN(s) = {}
  BY DEF Ca, MTLS, Endpoints, OVN, When
<1>4. (NeutronVolumes(s) \cup {"run-httpd"}) \cap (Ca(s) \cup MTLS(s)) = {}
  BY <1>a, SharedApart
<1>5. (NeutronVolumes(s) \cup {"run-httpd"} \cup (Ca(s) \cup MTLS(s))) \cap Endpoints(s) = {}
  BY <1>a, SharedApart
<1>6. (NeutronVolumes(s) \cup {"run-httpd"} \cup (Ca(s) \cup MTLS(s)) \cup Endpoints(s)) \cap OVN(s) = {}
  BY <1>a, SharedApart
<1> DEFINE a == GetVolumes(s, NeutronAPIPropagation) \o <<"run-httpd">>
           b == a \o VolumesOf(s)
           c == b \o EndpointVolumes(s)
<1>7. Names(a, NeutronVolumes(s) \cup {"run-httpd"})
  BY <1>1, <1>2, <1>3, JoinNames
<1> HIDE DEF a
<1>8. Names(b, NeutronVolumes(s) \cup {"run-httpd"} \cup (Ca(s) \cup MTLS(s)))
  BY <1>4, <1>7, FeatureNames, JoinNames
<1> HIDE DEF b
<1>9. Names(c, NeutronVolumes(s) \cup {"run-httpd"} \cup (Ca(s) \cup MTLS(s)) \cup Endpoints(s))
  BY <1>5, <1>8, FeatureNames, JoinNames
<1> HIDE DEF c
<1>10. Names(c \o OVNVolume(s), DeploymentVolumes(s))
  BY <1>6, <1>9, FeatureNames, JoinNames DEF DeploymentVolumes
<1>11. Deployment(s).volumes = c \o OVNVolume(s)
  BY DEF Deployment, a, b, c
<1> QED BY <1>10, <1>11

-----------------------------------------------------------------------------
(* The pods                                                                *)

Runs(pod, files, ships) == Accepted(pod) /\ Mountable(pod, files) /\ ParsesOnce(pod, ships)

\* A pod with one container, or with two of different names.
LEMMA SinglePod ==
  ASSUME NEW pod, NEW c, NEW E, NEW files, NEW ships,
         pod.containers = <<c>>, Names(pod.volumes, E), Good(c, E, files, ships)
  PROVE  Runs(pod, files, ships)
<1> DEFINE names == [i \in DOMAIN pod.containers |-> pod.containers[i].name]
<1>1. DOMAIN pod.containers = {1} /\ pod.containers[1] = c
  OBVIOUS
<1>2. Elements(pod.containers) = {c} /\ Distinct(names)
  BY <1>1 DEF Elements, Distinct
<1> QED BY <1>2, PodRuns DEF Runs

\* A pod of two good containers runs.
LEMMA DoublePod ==
  ASSUME NEW pod, NEW c, NEW d, NEW E, NEW files, NEW ships, pod.containers = <<c, d>>,
         c.name # d.name, Names(pod.volumes, E), Good(c, E, files, ships), Good(d, E, files, ships)
  PROVE  Runs(pod, files, ships)
<1> DEFINE names == [i \in DOMAIN pod.containers |-> pod.containers[i].name]
<1>1. DOMAIN pod.containers = {1, 2} /\ pod.containers[1] = c /\ pod.containers[2] = d
  OBVIOUS
<1>2. Elements(pod.containers) = {c, d} /\ Distinct(names)
  BY <1>1 DEF Elements, Distinct
<1> QED BY <1>2, PodRuns DEF Runs

\* The containers of the RPC and worker pods.
LEMMA WorkerGood ==
  ASSUME NEW s, ExtraFits(s), NEW name, NEW E, ApiVolumes(s) \subseteq E, NEW ships
  PROVE  /\ Good(WorkerContainer(s, name), E, ConfigSecret(s), ships)
         /\ WorkerContainer(s, name).name = name
<1>1. Fits(WorkerMounts(s), E, ConfigSecret(s)) /\ HasFiles(WorkerMounts(s))
  BY WorkerMountsList, ListFits
<1> QED BY <1>1 DEF Good, ConfigLists, WorkerContainer

\* The pods of the RPC Deployment,
LEMMA RPCRuns ==
  ASSUME NEW s, ExtraFits(s), NEW ships
  PROVE  Runs(RPCDeployment(s), ConfigSecret(s), ships)
<1> DEFINE E == NeutronVolumes(s) \cup Ca(s) \cup MTLS(s) \cup OVN(s)
<1>1. ApiVolumes(s) \subseteq E
  BY DEF ApiVolumes, NeutronVolumes
<1>2. /\ RPCDeployment(s).containers = <<WorkerContainer(s, "neutron-rpc")>>
      /\ RPCDeployment(s).volumes = WorkerVolumes(s)
  BY DEF RPCDeployment
<1>3. Names(RPCDeployment(s).volumes, E)
  BY <1>2, WorkerVolumesNames
<1> HIDE DEF E
<1> QED BY <1>1, <1>2, <1>3, WorkerGood, SinglePod

\* of the worker Deployment
LEMMA WorkerRuns ==
  ASSUME NEW s, ExtraFits(s), NEW ships
  PROVE  Runs(WorkerDeployment(s), ConfigSecret(s), ships)
<1> DEFINE E == NeutronVolumes(s) \cup Ca(s) \cup MTLS(s) \cup OVN(s)
           c == WorkerContainer(s, "neutron-periodic-workers")
           d == WorkerContainer(s, "neutron-ovn-maintenance-worker")
           files == ConfigSecret(s)
<1>1. ApiVolumes(s) \subseteq E
  BY DEF ApiVolumes, NeutronVolumes
<1>2. Names(WorkerDeployment(s).volumes, E)
  BY WorkerVolumesNames DEF WorkerDeployment
<1> HIDE DEF E
<1>3. Good(c, E, files, ships) /\ Good(d, E, files, ships) /\ c.name # d.name
  BY <1>1, WorkerGood
<1> HIDE DEF c, d, files
<1>4. WorkerDeployment(s).containers = IF s.ovn THEN <<c, d>> ELSE <<c>>
  <2>1. WorkerDeployment(s).containers = <<c>> \o Opt(s.ovn, <<d>>)
    BY DEF WorkerDeployment, c, d
  <2>2. <<c>> \o <<d>> = <<c, d>> /\ <<c>> \o << >> = <<c>>
    BY Pair
  <2> QED BY <2>1, <2>2 DEF Opt
<1>5. Runs(WorkerDeployment(s), files, ships)
  BY <1>2, <1>3, <1>4, SinglePod, DoublePod
<1> QED BY <1>5 DEF files

\* and of the database sync job run.
LEMMA DbSyncRuns ==
  ASSUME NEW s, ExtraFits(s), NEW ships
  PROVE  Runs(DbSyncJob(s), ConfigSecret(s), ships)
<1> DEFINE X == {"config", "httpd-config"} \cup Extra(s, DbsyncPropagation)
           E == X \cup Ca(s)
           a == GetVolumeMounts(s, DbsyncPropagation, FALSE)
           m == a \o CaMounts(s)
           c == [name |-> "neutron-db-sync", mounts |-> m, parses |-> ConfigDir]
<1>1. Names(DbSyncJob(s).volumes, E)
  <2>1. X \cap Ca(s) = {}
    <3>1. Extra(s, DbsyncPropagation) \cap OwnVolumes = {}
      BY ExtraApart DEF Services
    <3>2. Ca(s) \subseteq OwnVolumes /\ {"config", "httpd-config"} \cap Ca(s) = {}
      BY DEF Ca, When, OwnVolumes
    <3> QED BY <3>1, <3>2
  <2>2. Names(GetVolumes(s, DbsyncPropagation), X)
    BY GetVolumesNames DEF Services
  <2> HIDE DEF X
  <2>3. Names(GetVolumes(s, DbsyncPropagation) \o Opt("ca" \in s.switches, <<"combined-ca-bundle">>), E)
    BY <2>1, <2>2, FeatureNames, JoinNames
  <2> QED BY <2>3 DEF DbSyncJob
<1> DEFINE P == ConfigPath \cup ExtraPath(s, DbsyncPropagation)
<1>2. Lists(a, {"config"} \cup Extra(s, DbsyncPropagation), P, ConfigSecret(s)) /\ HasFiles(a)
  BY GetVolumeMountsList DEF Services
<1>3. P \cap CaPath = {}
  <2>1. ExtraPath(s, DbsyncPropagation) \cap OwnPaths = {}
    BY ExtraApart DEF Services
  <2> QED BY <2>1 DEF ConfigPath, OwnPaths, CaPath
<1>4. {"config"} \cup Extra(s, DbsyncPropagation) \cup Ca(s) \subseteq E
  OBVIOUS
<1>5. DbSyncJob(s).containers = <<c>>
  BY DEF DbSyncJob
<1> HIDE DEF a, E, X, P
<1>6. Lists(m, {"config"} \cup Extra(s, DbsyncPropagation) \cup Ca(s), P \cup CaPath, ConfigSecret(s))
  BY <1>2, <1>3, FeatureLists, JoinLists
<1>7. HasFiles(m)
  BY <1>2, FeatureLists, JoinHasFiles
<1> HIDE DEF m
<1>8. Fits(m, E, ConfigSecret(s))
  BY <1>4, <1>6, ListFits
<1>9. Good(c, E, ConfigSecret(s), ships)
  BY <1>7, <1>8 DEF Good, ConfigLists
<1> QED BY <1>1, <1>5, <1>9, SinglePod

\* Under WSGI httpd has neutron's mounts too, without the ones it has.
LEMMA DeploymentRuns ==
  ASSUME NEW s, ExtraFits(s), ImageFits(s)
  PROVE  Runs(Deployment(s), ConfigSecret(s), s.ships)
<1> DEFINE wsgi == "wsgi" \in s.switches
           E == DeploymentVolumes(s)
           files == ConfigSecret(s)
           api == WorkerMounts(s)
           httpd == HttpdMounts(s)
           c == [name |-> "neutron-api", mounts |-> api, parses |-> CommandFiles \o ConfigDir]
           d == [name |-> "neutron-httpd", mounts |-> httpd, parses |-> << >>]
           w == [name |-> "neutron-httpd", mounts |-> Dedupe(httpd \o api),
                 parses |-> ConfigDir \o ConfigFiles]
           HP == HttpdPath \cup CaPath \cup EndpointPath
<1>1. ApiVolumes(s) \subseteq E /\ HttpdVolumes(s) \subseteq E
  BY DEF ApiVolumes, HttpdVolumes, DeploymentVolumes, NeutronVolumes
<1>2. Names(Deployment(s).volumes, E)
  BY DeploymentVolumesNames
<1>3. Deployment(s).containers = IF wsgi THEN <<w>> ELSE <<c, d>>
  <2>1. Deployment(s).containers =
          Opt(~wsgi, <<c>>) \o <<[name   |-> "neutron-httpd",
                                  mounts |-> IF wsgi THEN Dedupe(httpd \o api) ELSE httpd,
                                  parses |-> Opt(wsgi, ConfigDir \o ConfigFiles)]>>
    BY DEF Deployment, WorkerMounts, HttpdMounts
  <2> HIDE DEF api, httpd
  <2>2. CASE wsgi
    <3>1. Deployment(s).containers = << >> \o <<w>>
      BY <2>1, <2>2 DEF Opt
    <3> HIDE DEF w
    <3>2. << >> \o <<w>> = <<w>>
      OBVIOUS
    <3> QED BY <2>2, <3>1, <3>2
  <2>3. CASE ~wsgi
    <3>1. Deployment(s).containers = <<c>> \o <<d>>
      BY <2>1, <2>3 DEF Opt
    <3> HIDE DEF c, d
    <3>2. <<c>> \o <<d>> = <<c, d>>
      BY Pair
    <3> QED BY <2>3, <3>1, <3>2
  <2> QED BY <2>2, <2>3
<1>4. Lists(api, ApiVolumes(s), ApiPath(s), files) /\ HasFiles(api)
  BY WorkerMountsList
<1>5. Lists(httpd, HttpdVolumes(s), HP, files)
  BY HttpdMountsList
<1>6. HP \cap Elements(ConfigDir) = {}
  <2>1. Elements(ConfigDir) = {"01-neutron.conf", "02-neutron-custom.conf"}
    BY DEF Elements, ConfigDir
  <2> QED BY <2>1 DEF HttpdPath, CaPath, EndpointPath
<1> HIDE DEF E, files, api, httpd, HP
<1>7. ~wsgi => Good(c, E, files, s.ships)
  BY <1>1, <1>4, ListFits DEF Good, CommandList, ImageFits
<1>8. Good(d, E, files, s.ships)
  BY <1>1, <1>5, ListFits DEF Good
<1>9. Good(w, E, files, s.ships)
  <2>1. Fits(Dedupe(httpd \o api), HttpdVolumes(s) \cup ApiVolumes(s), files)
        /\ HasFiles(Dedupe(httpd \o api))
    BY <1>4, <1>5, <1>6, DedupeFits
  <2>2. Fits(Dedupe(httpd \o api), E, files)
    BY <1>1, <2>1 DEF Fits
  <2> QED BY <2>1, <2>2 DEF Good, ConfigLists
<1>10. c.name # d.name
  OBVIOUS
<1> HIDE DEF c, d, w
<1>11. Runs(Deployment(s), files, s.ships)
  BY <1>2, <1>3, <1>7, <1>8, <1>9, <1>10, SinglePod, DoublePod
<1> QED BY <1>11 DEF files

\* Every pod of a spec runs, whatever its optional features, provided that its
\* ExtraMounts keep apart from the operator's names and paths in each pod and
\* that the image of the Eventlet strategy brings the files its command names:
\* volumes and mount paths are unique, each mount has its volume and its file,
\* and each process finds the files it names and parses the custom
\* configuration once (GetVolumes, GetVolumeMounts and the four pod builders).
THEOREM EverySpecRuns == \A s : ExtraFits(s) /\ ImageFits(s) => Runnable(s)
<1> SUFFICES ASSUME NEW s, ExtraFits(s), ImageFits(s) PROVE Runnable(s)
  OBVIOUS
<1>1. \A pod \in PodsOf(s) : Runs(pod, ConfigSecret(s), s.ships)
  BY DeploymentRuns, DbSyncRuns, RPCRuns, WorkerRuns DEF PodsOf, WorkerPods
<1> QED BY <1>1 DEF Runnable, Runs

-----------------------------------------------------------------------------
(* What the webhooks let in                                                *)

USE DEF AfterConfig, AfterDB, NormalPC, AfterDelDB, DeletePC, cluster, inputs, persisted,
        Named, ObjectsInv

Admitted(s) == s.messagingBus # "" /\ s.topologyNamespace # "other" /\ "admin" \notin s.override
Valid(s) == ValidateTopology(s) /\ ValidateRoutedOverrides(s)

\* Default and the validation hold for the stored spec, for what the cache
\* shows of it, and so for the copy of a reconcile.
AdmittedInv ==
  /\ phase # "none" => Admitted(spec)
  /\ cache.phase # "none" => Admitted(cache.spec)
  /\ pc # "idle" => Admitted(run.spec)

\* Default sets the messaging bus, and the validation keeps the Topology at
\* home and the overrides to endpoints.
LEMMA DefaultAdmitted ==
  ASSUME NEW s \in SpecType, Valid(Default(s))
  PROVE  Admitted(Default(s))
BY DEF Default, SpecType, BusName, Valid, ValidateTopology, ValidateRoutedOverrides, Admitted

\* Only the webhooks write a spec.
LEMMA SpecsMove ==
  ASSUME ObjectsInv, [Next]_vars
  PROVE  /\ \/ phase' = "none" /\ UNCHANGED spec
            \/ phase # "none" /\ UNCHANGED spec
            \/ \E r \in SpecType : spec' = Default(r) /\ Valid(Default(r))
         /\ cache' \in {cache, [phase |-> phase', spec |-> spec', st |-> status']}
         /\ \/ pc' = "idle"
            \/ pc # "idle" /\ run'.spec = run.spec
            \/ cache.phase # "none" /\ run'.spec = cache.spec
<1> DEFINE Goal ==
      /\ \/ phase' = "none" /\ UNCHANGED spec
         \/ phase # "none" /\ UNCHANGED spec
         \/ \E r \in SpecType : spec' = Default(r) /\ Valid(Default(r))
      /\ cache' \in {cache, [phase |-> phase', spec |-> spec', st |-> status']}
      /\ \/ pc' = "idle"
         \/ pc # "idle" /\ run'.spec = run.spec
         \/ cache.phase # "none" /\ run'.spec = cache.spec
<1>a. run \in Passes /\ spec \in SpecType /\ (pc # "idle" => phase # "none")
  BY DEF TypeOK, PhaseInv
<1>1. CASE Create \/ Update
  <2>1. \A r \in Requests(spec) \cup {spec} : r \in SpecType
    BY <1>a, RequestsTyped
  <2>2. \E r \in SpecType : spec' = Default(r) /\ Valid(Default(r))
    BY <1>1, <2>1 DEF Create, Update, ValidateCreate, ValidateUpdate, Valid
  <2>3. cache' \in {cache, [phase |-> phase', spec |-> spec', st |-> status']}
    BY <1>1 DEF Create, Update, Written
  <2>4. UNCHANGED <<pc, run>>
    BY <1>1 DEF Create, Update
  <2> QED BY <2>2, <2>3, <2>4
<1>2. CASE DeleteCR
  BY <1>2 DEF DeleteCR, Written
<1>3. CASE \/ OVNDBClusterChanges \/ TLSSecretChanges \/ CalmDown
           \/ Rollout \/ PodLost \/ Done \/ UNCHANGED vars
  <2>1. UNCHANGED <<phase, spec, cache, pc, run>>
    BY <1>3 DEF OVNDBClusterChanges, TLSSecretChanges, CalmDown, Rollout, PodLost, Done, vars
  <2> QED BY <2>1
<1>4. CASE CacheCatchesUp
  BY <1>4 DEF CacheCatchesUp, Stored
<1>5. CASE Reconcile
  <2>1. cache' \in {cache, [phase |-> phase', spec |-> spec', st |-> status']} /\ UNCHANGED spec
    BY <1>5 DEF Reconcile, Written
  <2>2. phase' = "none" \/ phase # "none"
    BY <1>5 DEF Reconcile
  <2>3. pc' = "idle" \/ (cache.phase # "none" /\ run'.spec = cache.spec)
    BY <1>5 DEF Reconcile
  <2> QED BY <2>1, <2>2, <2>3
<1>6. CASE Bail \/ Crash \/ Return \/ Refuse \/ DeleteOwn
  <2>1. pc # "idle" /\ UNCHANGED spec /\ pc' = "idle"
    BY <1>6 DEF Bail, Crash, Return, Refuse, Refused, Asked, DeleteOwn, Patch
  <2>2. cache' \in {cache, [phase |-> phase', spec |-> spec', st |-> status']}
    BY <1>6 DEF Bail, Crash, Return, Refuse, DeleteOwn, Patch, Written
  <2> QED BY <1>a, <2>1, <2>2
<1>7. CASE InputHash
  <2>1. pc # "idle" /\ UNCHANGED spec
    BY <1>7 DEF InputHash
  <2>2. cache' \in {cache, [phase |-> phase', spec |-> spec', st |-> status']}
    BY <1>7 DEF InputHash, Patch, Written
  <2>3. pc' = "idle" \/ run'.spec = run.spec
    BY <1>7, <1>a DEF InputHash, Patch, Passes
  <2> QED BY <1>a, <2>1, <2>2, <2>3
<1>8. CASE MetadataAgentSecret \/ LookUpNB \/ OVNAgentSecret \/ HoldTopology \/ Deploy
  <2>1. pc # "idle" /\ UNCHANGED <<spec, cache>> /\ run'.spec = run.spec
    BY <1>8, <1>a DEF MetadataAgentSecret, LookUpNB, OVNAgentSecret, Publish, HoldTopology,
       Deploy, Passes
  <2> QED BY <1>a, <2>1
<1>9. CASE \/ EnsureAccount \/ EnsureDB \/ GenerateConfig \/ EnsureKeystoneService
           \/ EnsureKeystoneEndpoint \/ ReleaseTopology \/ ReleaseUnused
           \/ DeleteDB \/ DeleteEndpoint \/ DeleteService \/ DeleteTopology
  <2>1. pc # "idle" /\ UNCHANGED <<spec, cache, run>>
    BY <1>9 DEF EnsureAccount, EnsureDB, GenerateConfig, EnsureKeystoneService,
       EnsureKeystoneEndpoint, ReleaseTopology, ReleaseUnused, DeleteDB, DeleteEndpoint,
       DeleteService, DeleteTopology, Hold
  <2> QED BY <1>a, <2>1
<1> QED
  BY <1>1, <1>2, <1>3, <1>4, <1>5, <1>6, <1>7, <1>8, <1>9 DEF Next, Environment, Steps

\* Every step keeps the invariant.
LEMMA AdmittedStep == ObjectsInv /\ AdmittedInv /\ [Next]_vars => AdmittedInv'
<1> SUFFICES ASSUME ObjectsInv, AdmittedInv, [Next]_vars PROVE AdmittedInv'
  OBVIOUS
<1>1. phase' # "none" => Admitted(spec')
  BY SpecsMove, DefaultAdmitted DEF AdmittedInv
<1>2. cache'.phase # "none" => Admitted(cache'.spec)
  <2>1. CASE cache' = cache
    BY <2>1 DEF AdmittedInv
  <2>2. CASE cache' = [phase |-> phase', spec |-> spec', st |-> status']
    BY <1>1, <2>2
  <2> QED BY <2>1, <2>2, SpecsMove
<1>3. pc' # "idle" => Admitted(run'.spec)
  BY SpecsMove DEF AdmittedInv
<1> QED BY <1>1, <1>2, <1>3 DEF AdmittedInv

\* What passes the webhooks has a RabbitMQ cluster, a Topology of the
\* NeutronAPI's own namespace and overrides for endpoints only, and the pods
\* that a reconcile builds from it run, if ExtraMounts and image fit, which no
\* webhook checks (Default, ValidateCreate, ValidateUpdate and the templates
\* of all pods).
THEOREM PodsRun == Spec => []BuiltPodsRun
<1>1. Init => AdmittedInv
  BY DEF Init, Stored, AdmittedInv
<1>2. AdmittedInv => BuiltPodsRun
  BY EverySpecRuns DEF AdmittedInv, Admitted, BuiltPodsRun
<1> QED BY <1>1, <1>2, InitObjects, ObjectsStep, AdmittedStep, PTL DEF Spec
=============================================================================
