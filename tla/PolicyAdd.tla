----------------------------- MODULE PolicyAdd ------------------------------
(***************************************************************************)
(* opkssh add: several processes, run by root or by the target user, that  *)
(* read, change and rewrite an auth_id policy file without a lock, and may *)
(* be killed between any two system calls.  commands/add.go,               *)
(* policy/policy.go, policy/policyloader.go and policy/files.              *)
(*                                                                         *)
(* Values.  A column is [name, hash]: hash says that the value goes on     *)
(* after the name, with a "#".  A line of a file is [cols, principal,      *)
(* attr, issuer], as reading the file returns it; comments and lines that  *)
(* do not parse have cols other than 3.  The order of lines and repeated   *)
(* lines make no difference to any reader, so files and policies are sets. *)
(***************************************************************************)
EXTENDS Integers, FiniteSets

CONSTANTS Procs,        \* the add processes
          Args,         \* the rules they may be asked to add
          SystemFiles,  \* initial versions of /etc/opk/auth_id
          HomeFiles,    \* initial versions of ~/.opk/auth_id
          Names,        \* the values a column may have, "cut" for a truncated one
          Users,        \* the owners of that home policy, whose directory can be entered
          MaxCrashes    \* bound on the number of processes killed

ASSUME CrashAssumption == MaxCrashes \in Nat
ASSUME NamesAssumption == "cut" \in Names

Column == [name : Names, hash : BOOLEAN]
Line == [cols : Nat, principal : Column, attr : Column, issuer : Column]
Rule == [principal : Column, attr : Column, issuer : Column]
File == [exists : BOOLEAN, perm : BOOLEAN, lines : SUBSET Line]

\* A value that was read from a file contains no "#", and a file that does not
\* exist has no lines.
ReadFile(file) ==
    /\ file \in File
    /\ file.exists \/ file.lines = {}
    /\ \A l \in file.lines :
          l.cols = 3 => ~l.principal.hash /\ ~l.attr.hash /\ ~l.issuer.hash

ASSUME FilesAssumption == \A file \in SystemFiles \cup HomeFiles : ReadFile(file)
\* Unless an add creates it, the home policy has the permission bits it needs.
ASSUME HomeAssumption ==
    \A file \in HomeFiles : IF file.exists THEN file.perm ELSE ~file.perm

ASSUME ArgsAssumption == Args \subseteq Rule

VARIABLES
    files,      \* ["system", "home" -> [exists, perm, lines]]
    access,     \* [Procs -> what it may do with the system file, "shut" when it
                \* cannot enter /etc/opk and the file cannot even be looked up]
    arg,        \* [Procs -> the rule to add]
    pc,         \* [Procs -> the next step]
    target,     \* policyPath (and policyLoader): what GetPolicyPath chose
    dest,       \* policyFilePath: what LoadPolicy read, and Dump will write
    mem,        \* currentPolicy.Users
    before,     \* history: the lines of the files when the process began
    alone,      \* history: no other process wrote since this one began
    overlap,    \* history: two processes were writing the same file at once
    crashes

vars == <<files, access, arg, pc, target, dest, mem, before, alone, overlap, crashes>>

Paths == {"system", "home"}
Access == {"write", "read", "none", "shut"}

-----------------------------------------------------------------------------
(***************************************************************************)
(* The policy as a value.                                                  *)
(***************************************************************************)
Grant(row) == <<row.principal, row.attr, row.issuer>>

\* policy.FromTable: one entry per line with three columns.
FromTable(lines) ==
    {[principals |-> {l.principal}, attr |-> l.attr, issuer |-> l.issuer] :
        l \in {k \in lines : k.cols = 3 /\ k.attr.name # ""}}

\* What a policy allows, and what a file allows to its next reader.
UserGrants(users) ==
    UNION {{<<p, u.attr, u.issuer>> : p \in u.principals} : u \in users}
Grants(lines) == UserGrants(FromTable(lines))

\* Variant of Matching with a mistake: the identity is not compared.
MatchingIssuer(users, row) == {u \in users : u.issuer = row.issuer}

\* AddAllowedPrincipal
Matching(users, row) == {u \in users : u.attr = row.attr /\ u.issuer = row.issuer}

\* Variant of AddAllowedPrincipal with a mistake: the principal replaces the
\* others of the entry.
SetAllowedPrincipal(users, row) ==
    LET same == Matching(users, row)
    IN  (users \ same) \cup {[principals |-> {row.principal}, attr |-> row.attr,
                              issuer |-> row.issuer]}

AddAllowedPrincipal(users, row) ==
    LET same == Matching(users, row)
        first == CHOOSE u \in same : TRUE
    IN  IF \E u \in same : row.principal \in u.principals
        THEN users
        ELSE IF same # {}
        THEN (users \ {first})
                \cup {[first EXCEPT !.principals = @ \cup {row.principal}]}
        ELSE users \cup {[principals |-> {row.principal}, attr |-> row.attr,
                          issuer |-> row.issuer]}

\* A row as it is read back: shellquote.Join leaves a "#" alone, CleanRow cuts
\* the line there.
ReadBack(row) ==
    [cols |-> IF row.principal.hash THEN 1 ELSE IF row.attr.hash THEN 2 ELSE 3,
     principal |-> row.principal, attr |-> row.attr,
     issuer |-> [row.issuer EXCEPT !.hash = FALSE]]

\* ToTable, and what the file then holds.
ToTable(users) ==
    UNION {{ReadBack([principal |-> p, attr |-> u.attr, issuer |-> u.issuer]) :
                p \in u.principals} : u \in users}

-----------------------------------------------------------------------------
Init ==
    /\ \E s \in SystemFiles, h \in HomeFiles : files = [system |-> s, home |-> h]
    /\ access \in [Procs -> Access]
    /\ arg \in [Procs -> Args]
    /\ pc = [p \in Procs |-> "path"]
    /\ target = [p \in Procs |-> "system"]
    /\ dest = [p \in Procs |-> "system"]
    /\ mem = [p \in Procs |-> {}]
    /\ before = [p \in Procs |-> [f \in Paths |-> {}]]
    /\ alone = [p \in Procs |-> FALSE]
    /\ overlap = FALSE
    /\ crashes = 0

Goto(p, label) == pc' = [pc EXCEPT ![p] = label]

\* Contents of a file change: nobody else can claim to have been alone.
Rewrite(p, path, file) ==
    /\ files' = [files EXCEPT ![path] = file]
    /\ alone' = [q \in Procs |-> alone[q] /\ q = p]

\* LoadSystemPolicy ends without error, or with one that Is(ErrPermission):
\* Stat says so of any file below a directory that cannot be entered, ReadFile
\* of a file with the right bits and another group.  Add never creates the
\* system file and never changes its bits, so the calls of one load see the
\* same file; only what it holds is read at a moment of its own.
SystemLoads(p) ==
    files["system"].exists /\ files["system"].perm /\ access[p] \in {"write", "read"}
SystemForbidden(p) ==
    \/ access[p] = "shut"
    \/ files["system"].exists /\ files["system"].perm /\ access[p] = "none"

\* GetPolicyPath: the system file if it can be read, the user's file if it may
\* not be read, an error otherwise.
GetPolicyPath(p) ==
    /\ pc[p] = "path"
    /\ \/ /\ SystemLoads(p)
          /\ target' = [target EXCEPT ![p] = "system"]
          /\ Goto(p, "exists")
       \/ /\ SystemForbidden(p) /\ arg[p].principal.name \in Users
          /\ target' = [target EXCEPT ![p] = "home"]
          /\ Goto(p, "exists")
       \/ /\ ~SystemLoads(p) /\ ~(SystemForbidden(p) /\ arg[p].principal.name \in Users)
          /\ Goto(p, "failed")
          /\ UNCHANGED target
    /\ before' = [before EXCEPT ![p] = [f \in Paths |-> files[f].lines]]
    /\ alone' = [alone EXCEPT ![p] = TRUE]
    /\ UNCHANGED <<files, access, arg, dest, mem, overlap, crashes>>

\* CreateIfDoesNotExist: look first ...
Exists(p) ==
    /\ pc[p] = "exists"
    /\ Goto(p, IF files[target[p]].exists THEN "load" ELSE "create")
    /\ UNCHANGED <<files, access, arg, target, dest, mem, before, alone, overlap, crashes>>

\* ... create, which empties a file somebody else created meanwhile ...
Create(p) ==
    /\ pc[p] = "create"
    /\ Rewrite(p, target[p], [exists |-> TRUE, lines |-> {},
                              perm |-> files[target[p]].exists /\ files[target[p]].perm])
    /\ Goto(p, "chmod")
    /\ UNCHANGED <<access, arg, target, dest, mem, before, overlap, crashes>>

\* ... and set the permission bits.
Chmod(p) ==
    /\ pc[p] = "chmod"
    /\ files' = [files EXCEPT ![target[p]].perm = TRUE]
    /\ Goto(p, "load")
    /\ UNCHANGED <<access, arg, target, dest, mem, before, alone, overlap, crashes>>

\* LoadPolicy looks again for the file to work on: the system policy, or the
\* home policy if Stat finds one ...
LoadFrom(p, path, label) ==
    /\ dest' = [dest EXCEPT ![p] = path]
    /\ Goto(p, label)

LoadPolicy(p) ==
    /\ pc[p] = "load"
    /\ \/ SystemLoads(p) /\ LoadFrom(p, "system", "read")
       \/ SystemForbidden(p) /\ files["home"].exists /\ LoadFrom(p, "home", "perm")
       \/ /\ ~SystemLoads(p) /\ ~(SystemForbidden(p) /\ files["home"].exists)
          /\ Goto(p, "failed")
          /\ UNCHANGED dest
    /\ UNCHANGED <<files, access, arg, target, mem, before, alone, overlap, crashes>>

\* Variant of CheckPerm with a mistake: the permission bits are not checked.
CheckNoPerm(p) ==
    /\ pc[p] = "perm"
    /\ Goto(p, "read")
    /\ UNCHANGED <<files, access, arg, target, dest, mem, before, alone, overlap, crashes>>

\* ... whose bits are looked up by a second Stat ...
CheckPerm(p) ==
    /\ pc[p] = "perm"
    /\ Goto(p, IF files[dest[p]].perm THEN "read" ELSE "failed")
    /\ UNCHANGED <<files, access, arg, target, dest, mem, before, alone, overlap, crashes>>

\* ... before it is read and parsed: another add may have emptied it meanwhile.
ReadPolicy(p) ==
    /\ pc[p] = "read"
    /\ mem' = [mem EXCEPT ![p] = FromTable(files[dest[p]].lines)]
    /\ Goto(p, "dump")
    /\ UNCHANGED <<files, access, arg, target, dest, before, alone, overlap, crashes>>

\* AddAllowedPrincipal on the loaded policy, then the open of WriteFile, which
\* truncates the file ...
OpenTruncate(p) ==
    /\ pc[p] = "dump"
    /\ mem' = [mem EXCEPT ![p] = AddAllowedPrincipal(@, arg[p])]
    /\ IF dest[p] = "home" \/ access[p] = "write"
       THEN /\ Rewrite(p, dest[p], [files[dest[p]] EXCEPT !.lines = {}])
            /\ overlap' = (overlap \/ \E q \in Procs \ {p} :
                                pc[q] = "write" /\ dest[q] = dest[p])
            /\ Goto(p, "write")
       ELSE /\ Goto(p, "failed")
            /\ UNCHANGED <<files, alone, overlap>>
    /\ UNCHANGED <<access, arg, target, dest, before, crashes>>

\* ... and the write, from the beginning of the file.  When another process
\* has written since the open, the end of its text stays behind, cut anywhere:
\* some of its lines, and perhaps one that lost the beginning of its principal.
Tail(lines) ==
    {rest \in SUBSET (lines \cup {[l EXCEPT !.principal.name = "cut"] : l \in lines}) :
        Cardinality({l \in rest : l.principal.name = "cut"}) <= 1}

Write(p) ==
    /\ pc[p] = "write"
    /\ \E rest \in Tail(files[dest[p]].lines) :
            Rewrite(p, dest[p], [files[dest[p]] EXCEPT !.lines = ToTable(mem[p]) \cup rest])
    /\ Goto(p, "done")
    /\ UNCHANGED <<access, arg, target, dest, mem, before, overlap, crashes>>

Ended == {"done", "failed", "killed"}

\* The process is killed, or a system call fails and it gives up.
Crash(p) ==
    /\ crashes < MaxCrashes
    /\ pc[p] \notin Ended
    /\ crashes' = crashes + 1
    /\ Goto(p, "killed")
    /\ UNCHANGED <<files, access, arg, target, dest, mem, before, alone, overlap>>

AllEnded ==
    /\ \A p \in Procs : pc[p] \in Ended
    /\ UNCHANGED vars

Next ==
    \/ \E p \in Procs :
          \/ GetPolicyPath(p) \/ Exists(p) \/ Create(p) \/ Chmod(p)
          \/ LoadPolicy(p) \/ CheckPerm(p) \/ ReadPolicy(p)
          \/ OpenTruncate(p) \/ Write(p) \/ Crash(p)
    \/ AllEnded

Spec == Init /\ [][Next]_vars

-----------------------------------------------------------------------------
(***************************************************************************)
(* Properties.                                                             *)
(***************************************************************************)
Labels ==
    Ended \cup {"path", "exists", "create", "chmod", "load", "perm", "read", "dump", "write"}

\* Types: every process is at a step of AddCmd.Run and works on a policy file.
TypeOK ==
    /\ DOMAIN files = Paths
    /\ access \in [Procs -> Access]
    /\ arg \in [Procs -> Args]
    /\ pc \in [Procs -> Labels]
    /\ target \in [Procs -> Paths] /\ dest \in [Procs -> Paths]
    /\ crashes \in 0..MaxCrashes

\* A rule that reading the file gives back: no "#", and an identity.
Readable(row) ==
    ~row.principal.hash /\ ~row.attr.hash /\ ~row.issuer.hash /\ row.attr.name # ""

\* A process that was alone with the file, from GetPolicyPath to the end of
\* Dump, leaves exactly the grants it found and its own, although Dump
\* rewrites the whole file from the parsed policy.  Processes killed earlier
\* do not matter.
CompleteAdd ==
    \A p \in Procs :
        pc[p] = "done" /\ alone[p] /\ Readable(arg[p]) =>
            Grants(files[dest[p]].lines)
                = Grants(before[p][dest[p]]) \cup {Grant(arg[p])}

\* No interleaving of adds, and no kill between truncation and write, makes a
\* file grant what nobody asked for -- unless two dumps of the same file
\* overlap, when the longer one shows behind the shorter.
Known ==
    {Grant(arg[p]) : p \in Procs}
        \cup UNION {Grants(f.lines) : f \in SystemFiles \cup HomeFiles}

NoInventedGrant ==
    ~overlap /\ (\A p \in Procs : Readable(arg[p]))
        => \A f \in Paths : Grants(files[f].lines) \subseteq Known

\* A home policy never holds lines while its permission bits are not yet those
\* CreateIfDoesNotExist sets after creating it, even when several processes
\* create it at once and some are killed before the chmod.
UnreadableIsEmpty == files["home"].perm \/ files["home"].lines = {}

\* main.go reports "Successfully added new policy to ...": the next reader of
\* the file then finds the rule there.
AddedIsGranted ==
    \A p \in Procs :
        pc[p] = "done" /\ alone[p] => Grant(arg[p]) \in Grants(files[dest[p]].lines)
=============================================================================
