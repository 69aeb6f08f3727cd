-------------------------- MODULE PolicyAddProofs --------------------------
(***************************************************************************)
(* Theorems about PolicyAdd, for any number of processes, rules and lines. *)
(***************************************************************************)
EXTENDS PolicyAdd, TLAPS

\* The entries of a parsed policy.
Entry == [principals : SUBSET Column, attr : Column, issuer : Column]

\* No value of the entry contains a "#", and there is an identity.
CleanEntry(u) ==
    /\ ~u.attr.hash /\ ~u.issuer.hash /\ u.attr.name # ""
    /\ \A p \in u.principals : ~p.hash

Clean(lines) ==
    \A l \in lines : l.cols = 3 => ~l.principal.hash /\ ~l.attr.hash /\ ~l.issuer.hash

\* AddAllowedPrincipal adds the one grant asked for and keeps the others,
\* whether it finds the principal, an entry to extend, or neither.
THEOREM AddIsUnion ==
    ASSUME NEW users \in SUBSET Entry, NEW row \in Rule
    PROVE  /\ AddAllowedPrincipal(users, row) \in SUBSET Entry
           /\ UserGrants(AddAllowedPrincipal(users, row)) = UserGrants(users) \cup {Grant(row)}
           /\ (\A u \in users : CleanEntry(u)) /\ Readable(row) =>
                  \A u \in AddAllowedPrincipal(users, row) : CleanEntry(u)
<1> DEFINE same == Matching(users, row)
           first == CHOOSE u \in same : TRUE
           new == AddAllowedPrincipal(users, row)
<1>1. \A g : g \in UserGrants(users) <=>
               \E u \in users : \E p \in u.principals : g = <<p, u.attr, u.issuer>>
    BY DEF UserGrants
<1>2. \A g : g \in UserGrants(new) <=>
               \E u \in new : \E p \in u.principals : g = <<p, u.attr, u.issuer>>
    BY DEF UserGrants
<1>3. CASE \E u \in same : row.principal \in u.principals
  <2>1. new = users
      BY <1>3 DEF AddAllowedPrincipal
  <2>2. Grant(row) \in UserGrants(users)
      BY <1>1, <1>3 DEF Matching, Grant
  <2> QED
      BY <2>1, <2>2
<1>4. CASE ~(\E u \in same : row.principal \in u.principals) /\ same # {}
  <2> DEFINE wider == [first EXCEPT !.principals = @ \cup {row.principal}]
  <2>1. first \in users /\ first.attr = row.attr /\ first.issuer = row.issuer
      BY <1>4 DEF Matching
  <2>2. new = (users \ {first}) \cup {wider}
      BY <1>4 DEF AddAllowedPrincipal
  <2>3. wider \in Entry /\ wider.principals = first.principals \cup {row.principal}
        /\ wider.attr = row.attr /\ wider.issuer = row.issuer
      BY <2>1 DEF Entry, Rule
  <2> HIDE DEF first, wider, new
  <2>4. ASSUME NEW g, g \in UserGrants(new) PROVE g \in UserGrants(users) \cup {Grant(row)}
    <3>1. PICK u \in new, q \in Column : q \in u.principals /\ g = <<q, u.attr, u.issuer>>
        BY <1>2, <2>2, <2>3, <2>4 DEF Entry
    <3>2. CASE u \in users
        BY <1>1, <3>1, <3>2
    <3>3. CASE u = wider /\ q \in first.principals
        BY <1>1, <2>1, <2>3, <3>1, <3>3
    <3>4. CASE u = wider /\ q = row.principal
        BY <2>3, <3>1, <3>4 DEF Grant
    <3> QED
        BY <2>2, <2>3, <3>1, <3>2, <3>3, <3>4
  <2>5. ASSUME NEW g, g \in UserGrants(users) PROVE g \in UserGrants(new)
    <3>1. PICK u \in users : \E q \in u.principals : g = <<q, u.attr, u.issuer>>
        BY <1>1, <2>5
    <3>2. CASE u = first
        BY <1>2, <2>1, <2>2, <2>3, <3>1, <3>2
    <3>3. CASE u # first
        BY <1>2, <2>2, <3>1, <3>3
    <3> QED
        BY <3>2, <3>3
  <2>6. Grant(row) \in UserGrants(new)
      BY <1>2, <2>2, <2>3 DEF Grant
  <2>7. new \in SUBSET Entry
      BY <2>2, <2>3
  <2>8. (\A u \in users : CleanEntry(u)) /\ Readable(row) => \A u \in new : CleanEntry(u)
      BY <2>1, <2>2, <2>3 DEF CleanEntry, Readable
  <2> QED
      BY <2>4, <2>5, <2>6, <2>7, <2>8 DEF new
<1>5. CASE same = {}
  <2> DEFINE own == [principals |-> {row.principal}, attr |-> row.attr, issuer |-> row.issuer]
  <2>1. new = users \cup {own}
      BY <1>5 DEF AddAllowedPrincipal
  <2>2. own \in Entry
      BY DEF Entry, Rule
  <2>3. own.principals = {row.principal} /\ own.attr = row.attr /\ own.issuer = row.issuer
      OBVIOUS
  <2> HIDE DEF own, new
  <2>4. UserGrants(new) = UserGrants(users) \cup {Grant(row)}
    <3>1. ASSUME NEW g PROVE g \in UserGrants(new) <=> g \in UserGrants(users) \/ g = Grant(row)
        BY <1>1, <1>2, <2>1, <2>3 DEF Grant
    <3> QED
        BY <3>1
  <2>5. (\A u \in users : CleanEntry(u)) /\ Readable(row) => \A u \in new : CleanEntry(u)
      BY <2>1, <2>3 DEF CleanEntry, Readable
  <2> QED
      BY <2>1, <2>2, <2>4, <2>5 DEF new
<1> QED
    BY <1>3, <1>4, <1>5

\* What is read from a file is a policy, clean if the file is.
LEMMA ReadingIsClean ==
    ASSUME NEW lines \in SUBSET Line
    PROVE  /\ FromTable(lines) \in SUBSET Entry
           /\ Clean(lines) => \A u \in FromTable(lines) : CleanEntry(u)
<1>1. ASSUME NEW u \in FromTable(lines)
      PROVE  u \in Entry /\ (Clean(lines) => CleanEntry(u))
  <2>1. PICK l \in lines : /\ l.cols = 3 /\ l.attr.name # ""
                           /\ u = [principals |-> {l.principal}, attr |-> l.attr,
                                   issuer |-> l.issuer]
      BY DEF FromTable
  <2>2. u.principals = {l.principal} /\ u.attr = l.attr /\ u.issuer = l.issuer
      BY <2>1
  <2>3. u \in Entry
      BY <2>1 DEF Line, Entry
  <2>4. Clean(lines) => CleanEntry(u)
      BY <2>1, <2>2 DEF Clean, CleanEntry
  <2> QED
      BY <2>3, <2>4
<1> QED
    BY <1>1

\* What a file grants is what its three-column lines say.
LEMMA GrantsOfLines ==
    ASSUME NEW lines, NEW g
    PROVE  g \in Grants(lines) <=>
             \E l \in lines : /\ l.cols = 3 /\ l.attr.name # ""
                              /\ g = <<l.principal, l.attr, l.issuer>>
<1> DEFINE Of(l) == [principals |-> {l.principal}, attr |-> l.attr, issuer |-> l.issuer]
<1>1. \A l : Of(l).principals = {l.principal} /\ Of(l).attr = l.attr /\ Of(l).issuer = l.issuer
    OBVIOUS
<1>2. FromTable(lines) = {Of(l) : l \in {k \in lines : k.cols = 3 /\ k.attr.name # ""}}
    BY DEF FromTable
<1> HIDE DEF Of
<1>3. g \in Grants(lines) <=>
        \E u \in FromTable(lines) : \E q \in u.principals : g = <<q, u.attr, u.issuer>>
    BY DEF Grants, UserGrants
<1>4. ASSUME g \in Grants(lines)
      PROVE  \E l \in lines : /\ l.cols = 3 /\ l.attr.name # ""
                              /\ g = <<l.principal, l.attr, l.issuer>>
  <2>1. PICK u \in FromTable(lines) : \E q \in u.principals : g = <<q, u.attr, u.issuer>>
      BY <1>3, <1>4
  <2>2. PICK l \in lines : l.cols = 3 /\ l.attr.name # "" /\ u = Of(l)
      BY <1>2
  <2> QED
      BY <1>1, <2>1, <2>2
<1>5. ASSUME NEW l \in lines, l.cols = 3, l.attr.name # "",
             g = <<l.principal, l.attr, l.issuer>>
      PROVE  g \in Grants(lines)
  <2>1. Of(l) \in FromTable(lines)
      BY <1>2, <1>5
  <2> QED
      BY <1>1, <1>3, <1>5, <2>1
<1> QED
    BY <1>4, <1>5

\* What is written is a clean file, and the policy written is the one read
\* back as long as the policy is clean.
LEMMA WritingIsClean ==
    ASSUME NEW users \in SUBSET Entry
    PROVE  /\ ToTable(users) \in SUBSET Line
           /\ Clean(ToTable(users))
           /\ (\A u \in users : CleanEntry(u)) => Grants(ToTable(users)) = UserGrants(users)
<1> DEFINE Back(q, u) == ReadBack([principal |-> q, attr |-> u.attr, issuer |-> u.issuer])
<1>1. \A l : l \in ToTable(users) <=> \E u \in users : \E q \in u.principals : l = Back(q, u)
  <2> HIDE DEF Back
  <2>1. ToTable(users) = UNION {{Back(q, u) : q \in u.principals} : u \in users}
      BY DEF ToTable, Back
  <2> QED
      BY <2>1
<1>2. ASSUME NEW u \in users, NEW q \in u.principals
      PROVE  /\ Back(q, u) \in Line
             /\ Back(q, u).cols = 3 => ~q.hash /\ ~u.attr.hash
             /\ Back(q, u).principal = q /\ Back(q, u).attr = u.attr
             /\ ~Back(q, u).issuer.hash
             /\ CleanEntry(u) => Back(q, u).cols = 3 /\ Back(q, u).issuer = u.issuer
  <2>1. q \in Column /\ u.attr \in Column /\ u.issuer \in Column
      BY DEF Entry
  <2>2. [u.issuer EXCEPT !.hash = FALSE] \in Column
        /\ [u.issuer EXCEPT !.hash = FALSE].hash = FALSE
        /\ (u.issuer.hash = FALSE => [u.issuer EXCEPT !.hash = FALSE] = u.issuer)
      BY <2>1 DEF Column
  <2>3. q.hash \in BOOLEAN /\ u.attr.hash \in BOOLEAN /\ u.issuer.hash \in BOOLEAN
      BY <2>1 DEF Column
  <2>4. Back(q, u) = [cols |-> IF q.hash THEN 1 ELSE IF u.attr.hash THEN 2 ELSE 3,
                      principal |-> q, attr |-> u.attr,
                      issuer |-> [u.issuer EXCEPT !.hash = FALSE]]
      BY DEF ReadBack
  <2> HIDE DEF Back
  <2>5. Back(q, u) \in Line
      BY <2>1, <2>2, <2>3, <2>4 DEF Line
  <2>6. /\ Back(q, u).cols = IF q.hash THEN 1 ELSE IF u.attr.hash THEN 2 ELSE 3
        /\ Back(q, u).principal = q /\ Back(q, u).attr = u.attr
        /\ Back(q, u).issuer = [u.issuer EXCEPT !.hash = FALSE]
      BY <2>4
  <2>7. CleanEntry(u) => ~q.hash /\ ~u.attr.hash /\ ~u.issuer.hash
      BY DEF CleanEntry
  <2> QED
      BY <2>2, <2>3, <2>5, <2>6, <2>7
<1> HIDE DEF Back
<1>3. ToTable(users) \in SUBSET Line /\ Clean(ToTable(users))
    BY <1>1, <1>2 DEF Clean
<1>4. ASSUME \A u \in users : CleanEntry(u) PROVE Grants(ToTable(users)) = UserGrants(users)
  <2>1. \A g : g \in Grants(ToTable(users)) <=>
          \E l \in ToTable(users) : /\ l.cols = 3 /\ l.attr.name # ""
                                    /\ g = <<l.principal, l.attr, l.issuer>>
      BY GrantsOfLines
  <2>2. \A g : g \in UserGrants(users) <=>
          \E u \in users : \E q \in u.principals : g = <<q, u.attr, u.issuer>>
      BY DEF UserGrants
  <2>3. \A u \in users : u.attr.name # ""
      BY <1>4 DEF CleanEntry
  <2>4. ASSUME NEW g \in Grants(ToTable(users)) PROVE g \in UserGrants(users)
    <3>1. PICK l \in ToTable(users) : g = <<l.principal, l.attr, l.issuer>>
        BY <2>1
    <3>2. PICK u \in users : \E q \in u.principals : l = Back(q, u)
        BY <1>1
    <3> QED
        BY <1>2, <1>4, <2>2, <3>1, <3>2
  <2>5. ASSUME NEW g \in UserGrants(users) PROVE g \in Grants(ToTable(users))
    <3>1. PICK u \in users : \E q \in u.principals : g = <<q, u.attr, u.issuer>>
        BY <2>2
    <3>2. PICK q \in u.principals : g = <<q, u.attr, u.issuer>>
        BY <3>1
    <3>3. Back(q, u) \in ToTable(users)
        BY <1>1
    <3>4. /\ Back(q, u).cols = 3 /\ Back(q, u).attr.name # ""
          /\ g = <<Back(q, u).principal, Back(q, u).attr, Back(q, u).issuer>>
        BY <1>2, <1>4, <2>3, <3>2
    <3> QED
        BY <2>1, <3>3, <3>4
  <2> QED
      BY <2>4, <2>5
<1> QED
    BY <1>3, <1>4

-----------------------------------------------------------------------------
(***************************************************************************)
(* The files stay policy files: what is in them parses to clean entries,   *)
(* whoever writes and whoever is killed.                                   *)
(***************************************************************************)
PolicyFile(file) ==
    /\ file \in File /\ Clean(file.lines)
    /\ file.exists \/ file.lines = {}

FilesInv ==
    /\ files \in [Paths -> File] /\ \A f \in Paths : PolicyFile(files[f])
    /\ mem \in [Procs -> SUBSET Entry]
    /\ before \in [Procs -> [Paths -> SUBSET Line]]
    /\ \A p \in Procs : \A f \in Paths : Clean(before[p][f])
    /\ alone \in [Procs -> BOOLEAN]
    /\ \A p \in Procs : pc[p] \in {"perm", "read", "dump", "write"} => files[dest[p]].exists

\* The files an administrator starts from are well formed.
LEMMA InitialFiles == Init => TypeOK /\ FilesInv
<1> SUFFICES ASSUME Init PROVE TypeOK /\ FilesInv
    OBVIOUS
<1>1. PICK s \in SystemFiles, h \in HomeFiles : files = [system |-> s, home |-> h]
    BY DEF Init
<1>2. PolicyFile(s) /\ PolicyFile(h)
    BY FilesAssumption DEF ReadFile, PolicyFile, Clean
<1>3. files \in [Paths -> File] /\ \A f \in Paths : PolicyFile(files[f])
    BY <1>1, <1>2 DEF Paths, PolicyFile
<1>4. TypeOK
    BY <1>1, CrashAssumption DEF Init, TypeOK, Paths, Labels, Ended
<1>5. FilesInv
    BY <1>3 DEF Init, FilesInv, Clean, Paths
<1> QED
    BY <1>4, <1>5

\* The end of another process's text that stays behind is made of policy lines.
LEMMA TailIsClean ==
    ASSUME NEW lines \in SUBSET Line, Clean(lines), NEW rest \in Tail(lines)
    PROVE  rest \in SUBSET Line /\ Clean(rest)
<1>1. ASSUME NEW l \in rest
      PROVE  l \in Line /\ (l.cols = 3 => ~l.principal.hash /\ ~l.attr.hash /\ ~l.issuer.hash)
  <2>1. CASE l \in lines
      BY <2>1 DEF Clean
  <2>2. CASE l \notin lines
    <3>1. PICK k \in lines : l = [k EXCEPT !.principal.name = "cut"]
        BY <2>2 DEF Tail
    <3>2. k \in Line /\ k.principal \in Column
        BY DEF Line
    <3>3. l = [k EXCEPT !.principal = [k.principal EXCEPT !.name = "cut"]]
        BY <3>1
    <3>4. [k.principal EXCEPT !.name = "cut"] \in Column
          /\ [k.principal EXCEPT !.name = "cut"].hash = k.principal.hash
      <4>1. "cut" \in Names
          BY NamesAssumption
      <4>2. \A s \in Names, c \in Column :
                [c EXCEPT !.name = s] \in Column /\ [c EXCEPT !.name = s].hash = c.hash
          BY DEF Column
      <4> QED
          BY <3>2, <4>1, <4>2
    <3>5. /\ l \in Line /\ l.cols = k.cols /\ l.principal.hash = k.principal.hash
          /\ l.attr = k.attr /\ l.issuer = k.issuer
        BY <3>2, <3>3, <3>4 DEF Line
    <3>6. k.cols = 3 => ~k.principal.hash /\ ~k.attr.hash /\ ~k.issuer.hash
        BY DEF Clean
    <3> QED
        BY <3>5, <3>6
  <2> QED
      BY <2>1, <2>2
<1> QED
    BY <1>1 DEF Clean

\* Rewrite leaves policy files, given that what it writes is one.
LEMMA RewriteKeepsFiles ==
    ASSUME FilesInv, NEW p \in Procs, NEW path \in Paths, NEW file,
           PolicyFile(file), Rewrite(p, path, file)
    PROVE  /\ files' \in [Paths -> File] /\ \A f \in Paths : PolicyFile(files'[f])
           /\ alone' \in [Procs -> BOOLEAN]
           /\ \A f \in Paths : file.exists /\ files[f].exists => files'[f].exists
    BY DEF FilesInv, Rewrite, PolicyFile

\* One step of the system, whatever the process and the action.
LEMMA StepKeepsFiles == TypeOK /\ FilesInv /\ [Next]_vars => TypeOK' /\ FilesInv'
<1> SUFFICES ASSUME TypeOK, FilesInv, [Next]_vars PROVE TypeOK' /\ FilesInv'
    OBVIOUS
<1>1. CASE UNCHANGED vars
    BY <1>1 DEF vars, TypeOK, FilesInv
<1>2. ASSUME NEW p \in Procs, GetPolicyPath(p) PROVE TypeOK' /\ FilesInv'
  <2>1. TypeOK'
      BY <1>2 DEF GetPolicyPath, Goto, TypeOK, Labels, Ended, Paths
  <2>2. [f \in Paths |-> files[f].lines] \in [Paths -> SUBSET Line]
        /\ \A f \in Paths : Clean(files[f].lines)
      BY DEF FilesInv, File, PolicyFile
  <2>3. FilesInv'
      BY <1>2, <2>2 DEF GetPolicyPath, Goto, FilesInv, TypeOK
  <2> QED
      BY <2>1, <2>3
<1>3. ASSUME NEW p \in Procs, Exists(p) PROVE TypeOK' /\ FilesInv'
    BY <1>3 DEF Exists, Goto, TypeOK, FilesInv, Labels
<1>4. ASSUME NEW p \in Procs, Create(p) PROVE TypeOK' /\ FilesInv'
  <2> DEFINE fresh == [exists |-> TRUE, lines |-> {},
                       perm |-> files[target[p]].exists /\ files[target[p]].perm]
  <2>1. PolicyFile(fresh)
      BY DEF PolicyFile, File, Clean
  <2>2. Rewrite(p, target[p], fresh) /\ target[p] \in Paths
      BY <1>4 DEF Create, TypeOK
  <2>5. fresh.exists
      OBVIOUS
  <2> HIDE DEF fresh
  <2>3. FilesInv'
      BY <1>4, <2>1, <2>2, <2>5, RewriteKeepsFiles DEF Create, Goto, FilesInv, TypeOK
  <2>4. TypeOK'
      BY <1>4, <2>2 DEF Create, Goto, TypeOK, Rewrite, Labels
  <2> QED
      BY <2>3, <2>4
<1>5. ASSUME NEW p \in Procs, Chmod(p) PROVE TypeOK' /\ FilesInv'
  <2>1. target[p] \in Paths /\ files[target[p]] \in File /\ PolicyFile(files[target[p]])
      BY DEF TypeOK, FilesInv
  <2>2. files' = [files EXCEPT ![target[p]] = [files[target[p]] EXCEPT !.perm = TRUE]]
      BY <1>5 DEF Chmod
  <2>3. PolicyFile([files[target[p]] EXCEPT !.perm = TRUE])
      BY <2>1 DEF PolicyFile, File
  <2>4. files' \in [Paths -> File] /\ \A f \in Paths : PolicyFile(files'[f])
      BY <2>1, <2>2, <2>3 DEF FilesInv, PolicyFile
  <2>7. \A f \in Paths : files'[f].exists = files[f].exists
      BY <2>1, <2>2 DEF FilesInv, File
  <2>5. FilesInv'
      BY <1>5, <2>4, <2>7 DEF Chmod, Goto, FilesInv, TypeOK
  <2>6. TypeOK'
      BY <1>5, <2>2 DEF Chmod, Goto, TypeOK, Labels
  <2> QED
      BY <2>5, <2>6
<1>6. ASSUME NEW p \in Procs, LoadPolicy(p) PROVE TypeOK' /\ FilesInv'
  <2>1. FilesInv'
    <3>1. CASE Goto(p, "failed") /\ UNCHANGED dest
        BY <1>6, <3>1 DEF LoadPolicy, Goto, FilesInv, TypeOK
    <3>2. ASSUME NEW path \in Paths, NEW label, files[path].exists, LoadFrom(p, path, label)
          PROVE  FilesInv'
      <4>1. dest'[p] = path /\ \A q \in Procs \ {p} : dest'[q] = dest[q] /\ pc'[q] = pc[q]
          BY <3>2 DEF LoadFrom, Goto, TypeOK
      <4> QED
          BY <1>6, <3>2, <4>1 DEF LoadPolicy, FilesInv
    <3> QED
        BY <1>6, <3>1, <3>2 DEF LoadPolicy, SystemLoads, Paths
  <2>2. TypeOK'
      BY <1>6 DEF LoadPolicy, LoadFrom, Goto, TypeOK, Labels, Ended, Paths
  <2> QED
      BY <2>1, <2>2
<1>11. ASSUME NEW p \in Procs, CheckPerm(p) PROVE TypeOK' /\ FilesInv'
    BY <1>11 DEF CheckPerm, Goto, TypeOK, FilesInv, Labels, Ended
<1>12. ASSUME NEW p \in Procs, ReadPolicy(p) PROVE TypeOK' /\ FilesInv'
  <2>1. dest[p] \in Paths
      BY DEF TypeOK
  <2>2. FromTable(files[dest[p]].lines) \in SUBSET Entry
      BY <2>1, ReadingIsClean DEF FilesInv, File
  <2>3. mem' \in [Procs -> SUBSET Entry]
      BY <1>12, <2>2 DEF ReadPolicy, FilesInv
  <2>4. FilesInv'
      BY <1>12, <2>3 DEF ReadPolicy, Goto, FilesInv, TypeOK
  <2>5. TypeOK'
      BY <1>12 DEF ReadPolicy, Goto, TypeOK, Labels
  <2> QED
      BY <2>4, <2>5
<1>7. ASSUME NEW p \in Procs, OpenTruncate(p) PROVE TypeOK' /\ FilesInv'
  <2> DEFINE emptied == [files[dest[p]] EXCEPT !.lines = {}]
  <2>1. dest[p] \in Paths /\ files[dest[p]] \in File /\ arg[p] \in Rule /\ mem[p] \in SUBSET Entry
      BY ArgsAssumption DEF TypeOK, FilesInv
  <2>2. PolicyFile(emptied)
      BY <2>1 DEF PolicyFile, File, Clean
  <2>3. AddAllowedPrincipal(mem[p], arg[p]) \in SUBSET Entry
      BY <2>1, AddIsUnion
  <2>4. Rewrite(p, dest[p], emptied) \/ UNCHANGED <<files, alone>>
      BY <1>7 DEF OpenTruncate
  <2>8. emptied.exists
      BY <1>7, <2>1 DEF OpenTruncate, FilesInv, File
  <2> HIDE DEF emptied
  <2>5. /\ files' \in [Paths -> File] /\ \A f \in Paths : PolicyFile(files'[f])
        /\ alone' \in [Procs -> BOOLEAN]
        /\ \A f \in Paths : files[f].exists => files'[f].exists
      BY <2>1, <2>2, <2>4, <2>8, RewriteKeepsFiles DEF FilesInv
  <2>6. FilesInv'
      BY <1>7, <2>3, <2>5 DEF OpenTruncate, Goto, FilesInv, TypeOK
  <2>7. TypeOK'
      BY <1>7, <2>4, <2>5 DEF OpenTruncate, Goto, TypeOK, Labels, Ended
  <2> QED
      BY <2>6, <2>7
<1>8. ASSUME NEW p \in Procs, Write(p) PROVE TypeOK' /\ FilesInv'
  <2>1. /\ dest[p] \in Paths /\ files[dest[p]] \in File /\ PolicyFile(files[dest[p]])
        /\ mem[p] \in SUBSET Entry
      BY DEF TypeOK, FilesInv
  <2>2. PICK rest \in Tail(files[dest[p]].lines) :
            Rewrite(p, dest[p], [files[dest[p]] EXCEPT !.lines = ToTable(mem[p]) \cup rest])
      BY <1>8 DEF Write
  <2>3. rest \in SUBSET Line /\ Clean(rest)
      BY <2>1, TailIsClean DEF PolicyFile, File
  <2> DEFINE written == ToTable(mem[p]) \cup rest
  <2>4. written \in SUBSET Line /\ Clean(written)
      BY <2>1, <2>3, WritingIsClean DEF Clean
  <2>5. files[dest[p]].exists
      BY <1>8 DEF Write, FilesInv
  <2>6. PolicyFile([files[dest[p]] EXCEPT !.lines = written])
      BY <2>1, <2>4, <2>5 DEF PolicyFile, File
  <2> HIDE DEF written
  <2>7. Rewrite(p, dest[p], [files[dest[p]] EXCEPT !.lines = written])
      BY <2>2 DEF written
  <2>8. /\ files' \in [Paths -> File] /\ \A f \in Paths : PolicyFile(files'[f])
        /\ alone' \in [Procs -> BOOLEAN]
        /\ \A f \in Paths : files[f].exists => files'[f].exists
      BY <2>1, <2>5, <2>6, <2>7, RewriteKeepsFiles DEF File
  <2>9. FilesInv'
      BY <1>8, <2>8 DEF Write, Goto, FilesInv, TypeOK
  <2>10. TypeOK'
      BY <1>8, <2>8 DEF Write, Goto, TypeOK, Labels, Ended
  <2> QED
      BY <2>9, <2>10
<1>9. ASSUME NEW p \in Procs, Crash(p) PROVE TypeOK' /\ FilesInv'
  <2>1. crashes' \in 0..MaxCrashes
      BY <1>9, CrashAssumption DEF Crash, TypeOK
  <2> QED
      BY <1>9, <2>1 DEF Crash, Goto, TypeOK, FilesInv, Labels, Ended
<1>10. CASE AllEnded
    BY <1>10 DEF AllEnded, vars, TypeOK, FilesInv
<1> QED
    BY <1>1, <1>2, <1>3, <1>4, <1>5, <1>6, <1>7, <1>8, <1>9, <1>10, <1>11, <1>12 DEF Next

\* Type correctness of opkssh add: whatever the number of processes and the
\* order of their system calls, each is at a step of AddCmd.Run and works on
\* one of the two policy files.
THEOREM AddTypes == Spec => [](TypeOK /\ FilesInv)
    BY InitialFiles, StepKeepsFiles, PTL DEF Spec

-----------------------------------------------------------------------------
(***************************************************************************)
(* What a process that has been alone knows at each of its steps.          *)
(***************************************************************************)
AsBefore(p) == \A f \in Paths : files[f].lines = before[p][f]
Loaded(p) == FromTable(before[p][dest[p]])
Complete(p) ==
    Grants(files[dest[p]].lines) = Grants(before[p][dest[p]]) \cup {Grant(arg[p])}

Knows(p) ==
    /\ pc[p] \in {"exists", "create", "chmod", "load", "perm", "read", "dump"} => AsBefore(p)
    /\ pc[p] = "create" => ~files[target[p]].exists
    /\ pc[p] = "dump" => mem[p] = Loaded(p)
    /\ pc[p] = "write" => /\ files[dest[p]].lines = {}
                          /\ mem[p] = AddAllowedPrincipal(Loaded(p), arg[p])
    /\ pc[p] = "done" /\ Readable(arg[p]) => Complete(p)

AloneInv == \A p \in Procs : alone[p] => Knows(p)

\* A step of another process that writes no lines leaves it all true.
LEMMA OthersStayInformed ==
    ASSUME NEW p \in Procs, NEW q \in Procs \ {p}, TypeOK, FilesInv, AloneInv,
           pc'[q] = pc[q], target'[q] = target[q], dest'[q] = dest[q], mem'[q] = mem[q],
           before'[q] = before[q], arg' = arg, alone'[q] => alone[q],
           \A f \in Paths : /\ files'[f].lines = files[f].lines
                            /\ files'[f].exists = files[f].exists
    PROVE  alone'[q] => Knows(q)'
<1>1. dest[q] \in Paths /\ target[q] \in Paths
    BY DEF TypeOK
<1>2. alone'[q] => Knows(q)
    BY DEF AloneInv
<1>3. AsBefore(q) => AsBefore(q)'
    BY DEF AsBefore
<1>4. Loaded(q)' = Loaded(q) /\ (Complete(q) => Complete(q)')
    BY <1>1 DEF Loaded, Complete
<1> QED
    BY <1>1, <1>2, <1>3, <1>4 DEF Knows

\* Nor is a process informed that was not alone.
LEMMA WriterIsAlone ==
    ASSUME NEW p \in Procs, NEW q \in Procs \ {p}, NEW path, NEW file, Rewrite(p, path, file)
    PROVE  ~alone'[q]
    BY DEF Rewrite

\* Every system call of an add keeps what lone processes know.
LEMMA StepKeepsAlone == TypeOK /\ FilesInv /\ AloneInv /\ [Next]_vars => AloneInv'
<1> SUFFICES ASSUME TypeOK, FilesInv, AloneInv, [Next]_vars PROVE AloneInv'
    OBVIOUS
<1> DEFINE Same == \A f \in Paths : /\ files'[f].lines = files[f].lines
                                    /\ files'[f].exists = files[f].exists
<1>1. CASE UNCHANGED vars
    BY <1>1 DEF vars, AloneInv, Knows, AsBefore, Loaded, Complete
<1>2. ASSUME NEW p \in Procs, GetPolicyPath(p) PROVE AloneInv'
  <2>1. \A q \in Procs \ {p} : alone'[q] => Knows(q)'
      BY <1>2, OthersStayInformed DEF GetPolicyPath, Goto, TypeOK, FilesInv
  <2>2. AsBefore(p)' /\ pc'[p] \in {"exists", "failed"}
      BY <1>2 DEF GetPolicyPath, Goto, AsBefore, TypeOK, FilesInv
  <2> QED
      BY <2>1, <2>2 DEF AloneInv, Knows
<1>3. ASSUME NEW p \in Procs, Exists(p) PROVE AloneInv'
  <2>1. \A q \in Procs \ {p} : alone'[q] => Knows(q)'
      BY <1>3, OthersStayInformed DEF Exists, Goto, TypeOK
  <2>2. alone'[p] => AsBefore(p)'
      BY <1>3 DEF Exists, AsBefore, AloneInv, Knows
  <2>3. pc'[p] = IF files[target[p]].exists THEN "load" ELSE "create"
      BY <1>3 DEF Exists, Goto, TypeOK
  <2>4. pc'[p] \in {"load", "create"} /\ (pc'[p] = "create" => ~files[target[p]].exists)
      BY <2>3
  <2>5. (~files[target[p]].exists) = (~files'[target'[p]].exists)
      BY <1>3 DEF Exists
  <2> QED
      BY <2>1, <2>2, <2>4, <2>5 DEF AloneInv, Knows
<1>4. ASSUME NEW p \in Procs, Create(p) PROVE AloneInv'
  <2>1. \A q \in Procs \ {p} : ~alone'[q]
      BY <1>4, WriterIsAlone DEF Create
  <2>2. target[p] \in Paths /\ files[target[p]] \in File /\ PolicyFile(files[target[p]])
      BY DEF TypeOK, FilesInv
  <2>3. alone'[p] => alone[p]
      BY <1>4 DEF Create, Rewrite
  <2>4. alone[p] => AsBefore(p) /\ files[target[p]].lines = {}
      BY <1>4, <2>2 DEF Create, AloneInv, Knows, PolicyFile
  <2>5. alone[p] => AsBefore(p)'
      BY <1>4, <2>2, <2>4 DEF Create, Rewrite, AsBefore, FilesInv
  <2>6. pc'[p] = "chmod"
      BY <1>4 DEF Create, Goto, TypeOK
  <2> QED
      BY <2>1, <2>3, <2>5, <2>6 DEF AloneInv, Knows
<1>5. ASSUME NEW p \in Procs, Chmod(p) PROVE AloneInv'
  <2>1. target[p] \in Paths /\ files[target[p]] \in File
      BY DEF TypeOK, FilesInv
  <2>2. Same
      BY <1>5, <2>1 DEF Chmod, FilesInv, File
  <2>3. \A q \in Procs \ {p} : alone'[q] => Knows(q)'
      BY <1>5, <2>2, OthersStayInformed DEF Chmod, Goto, TypeOK
  <2>4. alone'[p] => AsBefore(p)'
      BY <1>5, <2>2 DEF Chmod, AsBefore, AloneInv, Knows
  <2>5. pc'[p] = "load"
      BY <1>5 DEF Chmod, Goto, TypeOK
  <2> QED
      BY <2>3, <2>4, <2>5 DEF AloneInv, Knows
<1>6. ASSUME NEW p \in Procs, LoadPolicy(p) PROVE AloneInv'
  <2>1. \A q \in Procs \ {p} : pc'[q] = pc[q] /\ dest'[q] = dest[q]
      BY <1>6 DEF LoadPolicy, LoadFrom, Goto, TypeOK
  <2>2. \A q \in Procs \ {p} : alone'[q] => Knows(q)'
      BY <1>6, <2>1, OthersStayInformed DEF LoadPolicy
  <2>3. alone'[p] => AsBefore(p)'
      BY <1>6 DEF LoadPolicy, AsBefore, AloneInv, Knows
  <2>4. pc'[p] \in {"failed", "read", "perm"}
      BY <1>6 DEF LoadPolicy, LoadFrom, Goto, TypeOK
  <2> QED
      BY <2>2, <2>3, <2>4 DEF AloneInv, Knows
<1>11. ASSUME NEW p \in Procs, CheckPerm(p) PROVE AloneInv'
  <2>1. \A q \in Procs \ {p} : alone'[q] => Knows(q)'
      BY <1>11, OthersStayInformed DEF CheckPerm, Goto, TypeOK
  <2>2. alone'[p] => AsBefore(p)'
      BY <1>11 DEF CheckPerm, AsBefore, AloneInv, Knows
  <2>3. pc'[p] \in {"failed", "read"}
      BY <1>11 DEF CheckPerm, Goto, TypeOK
  <2> QED
      BY <2>1, <2>2, <2>3 DEF AloneInv, Knows
<1>12. ASSUME NEW p \in Procs, ReadPolicy(p) PROVE AloneInv'
  <2>1. \A q \in Procs \ {p} : pc'[q] = pc[q] /\ mem'[q] = mem[q]
      BY <1>12 DEF ReadPolicy, Goto, TypeOK, FilesInv
  <2>2. \A q \in Procs \ {p} : alone'[q] => Knows(q)'
      BY <1>12, <2>1, OthersStayInformed DEF ReadPolicy
  <2>3. alone'[p] => AsBefore(p) /\ AsBefore(p)'
      BY <1>12 DEF ReadPolicy, AsBefore, AloneInv, Knows
  <2>4. pc'[p] = "dump" /\ dest[p] \in Paths
        /\ mem'[p] = FromTable(files[dest[p]].lines)
      BY <1>12 DEF ReadPolicy, Goto, TypeOK, FilesInv
  <2>5. alone'[p] => mem'[p] = Loaded(p)'
      BY <1>12, <2>3, <2>4 DEF ReadPolicy, Loaded, AsBefore
  <2> QED
      BY <2>2, <2>3, <2>4, <2>5 DEF AloneInv, Knows
<1>7. ASSUME NEW p \in Procs, OpenTruncate(p) PROVE AloneInv'
  <2>1. mem'[p] = AddAllowedPrincipal(mem[p], arg[p])
        /\ \A q \in Procs \ {p} : mem'[q] = mem[q] /\ pc'[q] = pc[q]
      BY <1>7 DEF OpenTruncate, Goto, TypeOK, FilesInv
  <2>2. CASE dest[p] = "home" \/ access[p] = "write"
    <3>1. /\ Rewrite(p, dest[p], [files[dest[p]] EXCEPT !.lines = {}]) /\ Goto(p, "write")
          /\ UNCHANGED <<arg, dest, before>>
        BY <1>7, <2>2 DEF OpenTruncate
    <3>2. \A q \in Procs \ {p} : ~alone'[q]
        BY <3>1, WriterIsAlone
    <3>3. pc'[p] = "write" /\ files'[dest'[p]].lines = {} /\ (alone'[p] => alone[p])
        BY <3>1 DEF Goto, Rewrite, TypeOK, FilesInv, File
    <3>4. alone[p] => mem[p] = Loaded(p) /\ Loaded(p)' = Loaded(p)
        BY <1>7, <3>1 DEF OpenTruncate, AloneInv, Knows, Loaded
    <3> QED
        BY <2>1, <3>1, <3>2, <3>3, <3>4 DEF AloneInv, Knows
  <2>3. CASE ~(dest[p] = "home" \/ access[p] = "write")
    <3>1. Goto(p, "failed") /\ UNCHANGED <<files, alone, arg, target, dest, before>>
        BY <1>7, <2>3 DEF OpenTruncate
    <3>2. \A q \in Procs \ {p} : alone'[q] => Knows(q)'
        BY <2>1, <3>1, OthersStayInformed
    <3>3. pc'[p] = "failed"
        BY <3>1 DEF Goto, TypeOK
    <3> QED
        BY <3>2, <3>3 DEF AloneInv, Knows
  <2> QED
      BY <2>2, <2>3
<1>8. ASSUME NEW p \in Procs, Write(p) PROVE AloneInv'
  <2> DEFINE found == before[p][dest[p]]
  <2>1. /\ dest[p] \in Paths /\ files[dest[p]] \in File /\ arg[p] \in Rule
        /\ found \in SUBSET Line /\ Clean(found) /\ mem[p] \in SUBSET Entry
      BY ArgsAssumption DEF TypeOK, FilesInv
  <2>2. PICK rest \in Tail(files[dest[p]].lines) :
            Rewrite(p, dest[p], [files[dest[p]] EXCEPT !.lines = ToTable(mem[p]) \cup rest])
      BY <1>8 DEF Write
  <2>3. \A q \in Procs \ {p} : ~alone'[q]
      BY <2>2, WriterIsAlone
  <2>4. alone'[p] => alone[p]
      BY <2>2 DEF Rewrite
  <2>5. ASSUME alone[p], Readable(arg[p]) PROVE Complete(p)'
    <3>1. /\ files[dest[p]].lines = {}
          /\ mem[p] = AddAllowedPrincipal(FromTable(found), arg[p])
        BY <1>8, <2>5 DEF Write, AloneInv, Knows, Loaded
    <3>2. rest = {}
        BY <3>1 DEF Tail
    <3>3. files'[dest[p]].lines = ToTable(mem[p])
        BY <2>1, <2>2, <3>2 DEF Rewrite, FilesInv, File
    <3>4. FromTable(found) \in SUBSET Entry /\ \A u \in FromTable(found) : CleanEntry(u)
        BY <2>1, ReadingIsClean
    <3>5. /\ UserGrants(mem[p]) = UserGrants(FromTable(found)) \cup {Grant(arg[p])}
          /\ \A u \in mem[p] : CleanEntry(u)
        BY <2>1, <2>5, <3>1, <3>4, AddIsUnion
    <3>6. Grants(ToTable(mem[p])) = UserGrants(mem[p])
        BY <2>1, <3>5, WritingIsClean
    <3> QED
        BY <1>8, <3>3, <3>5, <3>6 DEF Write, Complete, Grants
  <2>6. pc'[p] = "done" /\ arg' = arg
      BY <1>8 DEF Write, Goto, TypeOK
  <2> QED
      BY <2>3, <2>4, <2>5, <2>6 DEF AloneInv, Knows
<1>9. ASSUME NEW p \in Procs, Crash(p) PROVE AloneInv'
  <2>1. \A q \in Procs \ {p} : alone'[q] => Knows(q)'
      BY <1>9, OthersStayInformed DEF Crash, Goto, TypeOK
  <2>2. pc'[p] = "killed"
      BY <1>9 DEF Crash, Goto, TypeOK
  <2> QED
      BY <2>1, <2>2 DEF AloneInv, Knows
<1>10. CASE AllEnded
    BY <1>1, <1>10 DEF AllEnded
<1> QED
    BY <1>1, <1>2, <1>3, <1>4, <1>5, <1>6, <1>7, <1>8, <1>9, <1>10, <1>11, <1>12 DEF Next

\* A process of opkssh add that nobody interfered with leaves exactly the
\* grants it found and the one it was asked for, although Dump rewrites the
\* file from the parsed policy: for any policy, any rule and any number of
\* other processes, killed or waiting.
THEOREM AddsAreComplete == Spec => []CompleteAdd
<1>1. Init => AloneInv
    BY DEF Init, AloneInv
<1>2. AloneInv => CompleteAdd
    BY DEF AloneInv, Knows, Complete, CompleteAdd
<1> QED
    BY <1>1, <1>2, AddTypes, StepKeepsAlone, PTL DEF Spec

-----------------------------------------------------------------------------
(***************************************************************************)
(* Permission bits of the home policy.                                     *)
(***************************************************************************)
PermInv ==
    /\ UnreadableIsEmpty
    /\ files["home"].perm => files["home"].exists
    /\ \A p \in Procs : pc[p] = "chmod" => files[target[p]].exists
    /\ \A p \in Procs :
          pc[p] \in {"read", "dump", "write"} /\ dest[p] = "home" => files["home"].perm

\* No system call fills a home policy whose bits are not set.
LEMMA StepKeepsPerm == TypeOK /\ FilesInv /\ PermInv /\ [Next]_vars => PermInv'
<1> SUFFICES ASSUME TypeOK, FilesInv, PermInv, [Next]_vars PROVE PermInv'
    OBVIOUS
<1> USE DEF PermInv, UnreadableIsEmpty
<1>1. CASE UNCHANGED vars
    BY <1>1 DEF vars
<1>2. ASSUME NEW p \in Procs, GetPolicyPath(p) PROVE PermInv'
    BY <1>2 DEF GetPolicyPath, Goto, TypeOK
<1>3. ASSUME NEW p \in Procs, Exists(p) PROVE PermInv'
    BY <1>3 DEF Exists, Goto, TypeOK
<1>4. ASSUME NEW p \in Procs, Create(p) PROVE PermInv'
    BY <1>4 DEF Create, Rewrite, Goto, TypeOK, FilesInv, Paths
<1>5. ASSUME NEW p \in Procs, Chmod(p) PROVE PermInv'
    BY <1>5 DEF Chmod, Goto, TypeOK, FilesInv, File, Paths
<1>6. ASSUME NEW p \in Procs, LoadPolicy(p) PROVE PermInv'
    BY <1>6 DEF LoadPolicy, LoadFrom, Goto, TypeOK
<1>11. ASSUME NEW p \in Procs, CheckPerm(p) PROVE PermInv'
    BY <1>11 DEF CheckPerm, Goto, TypeOK
<1>12. ASSUME NEW p \in Procs, ReadPolicy(p) PROVE PermInv'
    BY <1>12 DEF ReadPolicy, Goto, TypeOK
<1>7. ASSUME NEW p \in Procs, OpenTruncate(p) PROVE PermInv'
  <2>1. /\ \A f \in Paths : /\ files'[f].perm = files[f].perm
                            /\ files'[f].exists = files[f].exists
                            /\ files'[f].lines \in {files[f].lines, {}}
        /\ UNCHANGED <<target, dest>>
    <3>1. Rewrite(p, dest[p], [files[dest[p]] EXCEPT !.lines = {}]) \/ UNCHANGED files
        BY <1>7 DEF OpenTruncate
    <3>2. UNCHANGED <<target, dest>> /\ dest[p] \in Paths /\ files[dest[p]] \in File
        BY <1>7 DEF OpenTruncate, TypeOK, FilesInv
    <3>3. files' = [files EXCEPT ![dest[p]] = [files[dest[p]] EXCEPT !.lines = {}]]
            \/ UNCHANGED files
        BY <3>1 DEF Rewrite
    <3>4. /\ [files[dest[p]] EXCEPT !.lines = {}].lines = {}
          /\ [files[dest[p]] EXCEPT !.lines = {}].perm = files[dest[p]].perm
          /\ [files[dest[p]] EXCEPT !.lines = {}].exists = files[dest[p]].exists
        BY <3>2 DEF File
    <3>5. ASSUME NEW f \in Paths
          PROVE  files'[f] = files[f]
                 \/ (f = dest[p] /\ files'[f] = [files[dest[p]] EXCEPT !.lines = {}])
        BY <3>2, <3>3 DEF FilesInv
    <3> QED
        BY <3>2, <3>4, <3>5
  <2>2. pc'[p] \in {"write", "failed"} /\ \A q \in Procs \ {p} : pc'[q] = pc[q]
      BY <1>7 DEF OpenTruncate, Goto, TypeOK
  <2>3. pc[p] = "dump"
      BY <1>7 DEF OpenTruncate
  <2> QED
      BY <2>1, <2>2, <2>3 DEF TypeOK, Paths
<1>8. ASSUME NEW p \in Procs, Write(p) PROVE PermInv'
  <2>1. /\ \A f \in Paths : /\ files'[f].perm = files[f].perm
                            /\ files'[f].exists = files[f].exists
                            /\ f # dest[p] => files'[f].lines = files[f].lines
        /\ UNCHANGED <<target, dest>>
      BY <1>8 DEF Write, Rewrite, TypeOK, FilesInv, File
  <2>2. pc'[p] = "done" /\ \A q \in Procs \ {p} : pc'[q] = pc[q]
      BY <1>8 DEF Write, Goto, TypeOK
  <2>3. pc[p] = "write"
      BY <1>8 DEF Write
  <2> QED
      BY <2>1, <2>2, <2>3 DEF TypeOK, Paths
<1>9. ASSUME NEW p \in Procs, Crash(p) PROVE PermInv'
    BY <1>9 DEF Crash, Goto, TypeOK
<1>10. CASE AllEnded
    BY <1>10 DEF AllEnded, vars
<1> QED
    BY <1>1, <1>2, <1>3, <1>4, <1>5, <1>6, <1>7, <1>8, <1>9, <1>10, <1>11, <1>12 DEF Next

\* The home policy holds no lines until CreateIfDoesNotExist has set its
\* permission bits, whoever creates it and whoever is killed in between.
THEOREM UnreadableHomeIsEmpty == Spec => []UnreadableIsEmpty
<1>1. Init => PermInv
    BY FilesAssumption, HomeAssumption DEF Init, ReadFile, PermInv, UnreadableIsEmpty
<1>2. PermInv => UnreadableIsEmpty
    BY DEF PermInv
<1> QED
    BY <1>1, <1>2, AddTypes, StepKeepsPerm, PTL DEF Spec

-----------------------------------------------------------------------------
(***************************************************************************)
(* What a file may grant.                                                  *)
(***************************************************************************)
\* Without overlap a file is empty when it is written, so what is in a file or
\* in the memory of a process was in one of the files or asked for.
KnownInv ==
    ~overlap /\ (\A p \in Procs : Readable(arg[p])) =>
        /\ \A f \in Paths : Grants(files[f].lines) \subseteq Known
        /\ \A p \in Procs : pc[p] \in {"dump", "write"} =>
              UserGrants(mem[p]) \subseteq Known /\ \A u \in mem[p] : CleanEntry(u)
        /\ \A p \in Procs : pc[p] = "write" => files[dest[p]].lines = {}
        /\ \A p, q \in Procs :
              pc[p] = "write" /\ pc[q] = "write" /\ dest[p] = dest[q] => p = q

\* An empty file grants nothing.
LEMMA EmptyGrantsNothing == Grants({}) = {}
<1>1. FromTable({}) = {}
    BY DEF FromTable
<1> QED
    BY <1>1 DEF Grants, UserGrants

\* No system call makes a file grant what is not known.
LEMMA StepKeepsKnown == TypeOK /\ FilesInv /\ KnownInv /\ [Next]_vars => KnownInv'
<1> SUFFICES ASSUME TypeOK, FilesInv, KnownInv, [Next]_vars,
                    ~overlap', \A p \in Procs : Readable(arg'[p])
             PROVE  KnownInv'
    BY DEF KnownInv
<1>1. arg' = arg /\ Known' = Known /\ ~overlap
  <2>1. arg' = arg
      BY DEF Next, vars, GetPolicyPath, Exists, Create, Chmod, LoadPolicy, CheckPerm, ReadPolicy,
         OpenTruncate, Write, Crash, AllEnded
  <2>2. ~overlap
      BY DEF Next, vars, GetPolicyPath, Exists, Create, Chmod, LoadPolicy, CheckPerm, ReadPolicy,
         OpenTruncate, Write, Crash, AllEnded
  <2> QED
      BY <2>1, <2>2 DEF Known
<1>2. /\ \A f \in Paths : Grants(files[f].lines) \subseteq Known
      /\ \A p \in Procs : pc[p] \in {"dump", "write"} =>
            UserGrants(mem[p]) \subseteq Known /\ \A u \in mem[p] : CleanEntry(u)
      /\ \A p \in Procs : pc[p] = "write" => files[dest[p]].lines = {}
      /\ \A p, q \in Procs :
            pc[p] = "write" /\ pc[q] = "write" /\ dest[p] = dest[q] => p = q
      /\ \A p \in Procs : Readable(arg[p])
    BY <1>1 DEF KnownInv
<1>3. /\ files \in [Paths -> File] /\ mem \in [Procs -> SUBSET Entry]
      /\ pc \in [Procs -> Labels] /\ dest \in [Procs -> Paths] /\ target \in [Procs -> Paths]
    BY DEF FilesInv, TypeOK
<1>4. ASSUME NEW p \in Procs,
             \A f \in Paths : files'[f].lines = files[f].lines \/ files'[f].lines = {},
             \A q \in Procs \ {p} : pc'[q] = pc[q] /\ mem'[q] = mem[q] /\ dest'[q] = dest[q],
             pc'[p] = "dump" =>
                UserGrants(mem'[p]) \subseteq Known /\ \A u \in mem'[p] : CleanEntry(u),
             pc'[p] # "write"
      PROVE  KnownInv'
  <2>1. \A f \in Paths : Grants(files'[f].lines) \subseteq Known
      BY <1>2, <1>4, EmptyGrantsNothing
  <2> QED
      BY <1>1, <1>2, <1>3, <1>4, <2>1 DEF KnownInv
<1>5. ASSUME NEW p \in Procs,
             GetPolicyPath(p) \/ Exists(p) \/ LoadPolicy(p) \/ CheckPerm(p) \/ Crash(p)
      PROVE  KnownInv'
  <2>1. /\ UNCHANGED <<files, mem>> /\ pc'[p] \notin {"dump", "write"}
        /\ \A q \in Procs \ {p} : pc'[q] = pc[q] /\ dest'[q] = dest[q]
      BY <1>3, <1>5 DEF GetPolicyPath, Exists, LoadPolicy, LoadFrom, CheckPerm, Crash, Goto
  <2> QED
      BY <1>4, <2>1
<1>6. ASSUME NEW p \in Procs, Create(p) \/ Chmod(p) PROVE KnownInv'
  <2>1. /\ UNCHANGED <<mem, dest>> /\ pc'[p] \notin {"dump", "write"}
        /\ \A q \in Procs \ {p} : pc'[q] = pc[q]
      BY <1>3, <1>6 DEF Create, Chmod, Goto
  <2>2. \A f \in Paths : files'[f].lines = files[f].lines \/ files'[f].lines = {}
    <3>1. target[p] \in Paths /\ files[target[p]] \in File
        BY <1>3
    <3>2. CASE Create(p)
        BY <1>3, <3>1, <3>2 DEF Create, Rewrite
    <3>3. CASE Chmod(p)
        BY <1>3, <3>1, <3>3 DEF Chmod, File
    <3> QED
        BY <1>6, <3>2, <3>3
  <2> QED
      BY <1>4, <2>1, <2>2
<1>7. ASSUME NEW p \in Procs, ReadPolicy(p) PROVE KnownInv'
  <2>1. /\ files' = files /\ pc'[p] = "dump"
        /\ \A q \in Procs \ {p} : pc'[q] = pc[q] /\ mem'[q] = mem[q] /\ dest'[q] = dest[q]
        /\ pc'[p] = "dump" => \E f \in Paths : mem'[p] = FromTable(files[f].lines)
      BY <1>3, <1>7 DEF ReadPolicy, Goto
  <2>2. \A f \in Paths : /\ UserGrants(FromTable(files[f].lines)) \subseteq Known
                         /\ \A u \in FromTable(files[f].lines) : CleanEntry(u)
    <3>1. \A f \in Paths : files[f].lines \in SUBSET Line /\ Clean(files[f].lines)
        BY DEF FilesInv, PolicyFile, File
    <3> QED
        BY <1>2, <3>1, ReadingIsClean DEF Grants
  <2> QED
      BY <1>4, <2>1, <2>2
<1>8. ASSUME NEW p \in Procs, OpenTruncate(p) PROVE KnownInv'
  <2>1. /\ pc[p] = "dump" /\ mem'[p] = AddAllowedPrincipal(mem[p], arg[p]) /\ dest' = dest
        /\ pc'[p] \in {"write", "failed"}
        /\ \A q \in Procs \ {p} : pc'[q] = pc[q] /\ mem'[q] = mem[q]
      BY <1>3, <1>8 DEF OpenTruncate, Goto
  <2>2. dest[p] \in Paths /\ files[dest[p]] \in File /\ arg[p] \in Rule /\ mem[p] \in SUBSET Entry
      BY <1>3, ArgsAssumption DEF TypeOK
  <2>3. UserGrants(mem'[p]) \subseteq Known /\ \A u \in mem'[p] : CleanEntry(u)
    <3>1. /\ UserGrants(mem'[p]) = UserGrants(mem[p]) \cup {Grant(arg[p])}
          /\ \A u \in mem'[p] : CleanEntry(u)
        BY <1>2, <2>1, <2>2, AddIsUnion
    <3>2. Grant(arg[p]) \in Known
        BY DEF Known
    <3> QED
        BY <1>2, <2>1, <3>1, <3>2
  <2>4. CASE pc'[p] = "failed"
    <3>1. files' = files
        BY <1>3, <1>8, <2>4 DEF OpenTruncate, Goto
    <3> QED
        BY <1>4, <2>1, <2>4, <3>1
  <2>5. CASE pc'[p] = "write"
    <3>1. /\ files' = [files EXCEPT ![dest[p]] = [files[dest[p]] EXCEPT !.lines = {}]]
          /\ overlap' = (overlap \/ \E q \in Procs \ {p} : pc[q] = "write" /\ dest[q] = dest[p])
        BY <1>3, <1>8, <2>5 DEF OpenTruncate, Goto, Rewrite
    <3>2. /\ files'[dest[p]].lines = {}
          /\ \A f \in Paths : files'[f].lines = files[f].lines \/ files'[f].lines = {}
        BY <1>3, <2>2, <3>1 DEF File
    <3>3. \A q \in Procs \ {p} : ~(pc[q] = "write" /\ dest[q] = dest[p])
        BY <3>1
    <3>4. \A f \in Paths : Grants(files'[f].lines) \subseteq Known
        BY <1>2, <3>2, EmptyGrantsNothing
    <3>5. \A q \in Procs : pc'[q] = "write" => files'[dest'[q]].lines = {}
        BY <1>2, <1>3, <2>1, <3>2
    <3>6. \A q, r \in Procs :
             pc'[q] = "write" /\ pc'[r] = "write" /\ dest'[q] = dest'[r] => q = r
        BY <1>2, <2>1, <3>3
    <3>7. \A q \in Procs : pc'[q] \in {"dump", "write"} =>
             UserGrants(mem'[q]) \subseteq Known /\ \A u \in mem'[q] : CleanEntry(u)
        BY <1>2, <2>1, <2>3
    <3> QED
        BY <1>1, <3>4, <3>5, <3>6, <3>7 DEF KnownInv
  <2> QED
      BY <2>1, <2>4, <2>5
<1>9. ASSUME NEW p \in Procs, Write(p) PROVE KnownInv'
  <2>1. /\ pc[p] = "write" /\ pc'[p] = "done" /\ UNCHANGED <<mem, dest>>
        /\ \A q \in Procs \ {p} : pc'[q] = pc[q]
      BY <1>3, <1>9 DEF Write, Goto
  <2>2. PICK rest \in Tail(files[dest[p]].lines) :
            files' = [files EXCEPT ![dest[p]] =
                         [files[dest[p]] EXCEPT !.lines = ToTable(mem[p]) \cup rest]]
      BY <1>9 DEF Write, Rewrite
  <2>3. rest = {}
      BY <1>2, <2>1, <2>2 DEF Tail
  <2>4. dest[p] \in Paths /\ files[dest[p]] \in File /\ mem[p] \in SUBSET Entry
      BY <1>3
  <2>5. /\ files'[dest[p]].lines = ToTable(mem[p])
        /\ \A f \in Paths \ {dest[p]} : files'[f] = files[f]
      BY <1>3, <2>2, <2>3, <2>4 DEF File
  <2>6. Grants(ToTable(mem[p])) \subseteq Known
      BY <1>2, <2>1, <2>4, WritingIsClean
  <2>7. \A f \in Paths : Grants(files'[f].lines) \subseteq Known
      BY <1>2, <2>5, <2>6
  <2>8. \A q \in Procs : pc'[q] = "write" => files'[dest'[q]].lines = {}
      BY <1>2, <1>3, <2>1, <2>5
  <2> QED
      BY <1>1, <1>2, <2>1, <2>7, <2>8 DEF KnownInv
<1>10. CASE UNCHANGED vars
    BY <1>2, <1>10 DEF vars, KnownInv, Known
<1> QED
    BY <1>5, <1>6, <1>7, <1>8, <1>9, <1>10 DEF Next, AllEnded

\* No interleaving of adds, and no kill between truncation and write, makes a
\* policy file grant what nobody asked for, as long as no two dumps of the same
\* file overlap.
THEOREM NothingIsInvented == Spec => []NoInventedGrant
<1>1. Init => KnownInv
  <2> SUFFICES ASSUME Init PROVE KnownInv
      OBVIOUS
  <2>1. \A p \in Procs : pc[p] = "path"
      BY DEF Init
  <2>2. \A f \in Paths : Grants(files[f].lines) \subseteq Known
    <3>1. PICK s \in SystemFiles, h \in HomeFiles : files = [system |-> s, home |-> h]
        BY DEF Init
    <3>2. \A f \in Paths : files[f] \in SystemFiles \cup HomeFiles
        BY <3>1 DEF Paths
    <3> QED
        BY <3>2 DEF Known
  <2> QED
      BY <2>1, <2>2 DEF KnownInv
<1>2. KnownInv => NoInventedGrant
    BY DEF KnownInv, NoInventedGrant
<1> QED
    BY <1>1, <1>2, AddTypes, StepKeepsKnown, PTL DEF Spec
=============================================================================
