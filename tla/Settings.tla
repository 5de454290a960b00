------------------------------ MODULE Settings ------------------------------
(***************************************************************************)
(* PATCH /api/v1/settings of pivss-server: apply_settings_patch merges the *)
(* patch into the shared configuration under a write lock, and, after the  *)
(* lock is released, Config::save writes its copy to config.toml.tmp and   *)
(* renames that over config.toml.  The handler never awaits, so as many of *)
(* them interleave as the runtime has worker threads.  Files are inodes    *)
(* that names point to: opening the temporary file truncates the one that  *)
(* is there, which another save may be about to rename.                    *)
(*                                                                         *)
(* The value of a field is represented by where it came from.              *)
(***************************************************************************)
EXTENDS Naturals, Sequences, FiniteSets

CONSTANTS Patch,        \* settings requests
          Field,        \* fields of the configuration
          Sets,         \* Sets[p]: the fields patch p carries
          Invalid,      \* patches that fail validation
          Overridden,   \* fields the command line overrides (--listen)
          Workers,      \* worker threads of the runtime
          Faults        \* may file operations fail?

ASSUME SetsAssumption == Sets \in [Patch -> SUBSET (Field \ Overridden)]
ASSUME InvalidAssumption == Invalid \subseteq Patch
ASSUME WorkersAssumption == Workers \in Nat \ {0}
ASSUME FaultsAssumption == Faults \in BOOLEAN

VARIABLES up,           \* is the server running?
          memory,       \* the shared configuration
          merged,       \* the patches merged so far, in order (history)
          pc,           \* the step each request is at
          copy,         \* the copy of the configuration each request saves
          fd,           \* the inode each request has open
          path,         \* the inode named config.toml
          tmp,          \* the inode named config.toml.tmp
          content       \* what each inode holds
vars == <<up, memory, merged, pc, copy, fd, path, tmp, content>>

File == "file"          \* an inode, and a value: what config.toml held at first
Origin == Patch \cup {File, "cli", "default"}
Config == [Field -> Origin]
Inode == Patch \cup {File}      \* a patch names the inode its save created
NoInode == "none"
Content == [state : {"whole", "empty", "torn"}, config : Config]

ASSUME PatchAssumption == Patch \cap {File, NoInode} = {}

Running == {"open", "write", "rename"}

\* --listen replaces what config.toml says, in memory; the next save writes it.
WithOverrides(config) ==
    [f \in Field |-> IF f \in Overridden THEN "cli" ELSE config[f]]

FirstConfig == [f \in Field |-> File]
Defaults == [f \in Field |-> "default"]

Init ==
    /\ up = TRUE
    /\ memory = WithOverrides(FirstConfig)
    /\ merged = <<>>
    /\ pc = [p \in Patch |-> "idle"]
    /\ copy = [p \in Patch |-> FirstConfig]
    /\ fd = [p \in Patch |-> NoInode]
    /\ path = File
    /\ tmp = NoInode
    /\ content = [i \in Inode |-> [state |-> "whole", config |-> FirstConfig]]

GoTo(p, step) == pc' = [pc EXCEPT ![p] = step]

Reject(p) ==
    /\ up
    /\ pc[p] = "idle"
    /\ p \in Invalid
    /\ GoTo(p, "rejected")
    /\ UNCHANGED <<up, memory, merged, copy, fd, path, tmp, content>>

Merge(p) == [f \in Field |-> IF f \in Sets[p] THEN p ELSE memory[f]]

\* Bug: the copy is taken before the patch is merged.
Apply_Fault(p) ==
    /\ up
    /\ pc[p] = "idle"
    /\ p \notin Invalid
    /\ Cardinality({q \in Patch : pc[q] \in Running}) < Workers
    /\ memory' = Merge(p)
    /\ copy' = [copy EXCEPT ![p] = memory]
    /\ merged' = Append(merged, p)
    /\ GoTo(p, "open")
    /\ UNCHANGED <<up, fd, path, tmp, content>>

\* The write-lock section: merge and clone.
Apply(p) ==
    /\ up
    /\ pc[p] = "idle"
    /\ p \notin Invalid
    /\ Cardinality({q \in Patch : pc[q] \in Running}) < Workers
    /\ memory' = Merge(p)
    /\ copy' = [copy EXCEPT ![p] = Merge(p)]
    /\ merged' = Append(merged, p)
    /\ GoTo(p, "open")
    /\ UNCHANGED <<up, fd, path, tmp, content>>

\* Bug: the save goes straight to config.toml.
OpenTmp_Fault(p) ==
    /\ pc[p] = "open"
    /\ fd' = [fd EXCEPT ![p] = path]
    /\ tmp' = path
    /\ content' = [content EXCEPT ![path].state = "empty"]
    /\ GoTo(p, "write")
    /\ UNCHANGED <<up, memory, merged, copy, path>>

\* The open of fs::write: the temporary file is created, or truncated.
OpenTmp(p) ==
    /\ pc[p] = "open"
    /\ LET inode == IF tmp = NoInode THEN p ELSE tmp IN
       /\ fd' = [fd EXCEPT ![p] = inode]
       /\ tmp' = inode
       /\ content' = [content EXCEPT ![inode].state = "empty"]
    /\ GoTo(p, "write")
    /\ UNCHANGED <<up, memory, merged, copy, path>>

\* The write of fs::write, from the start of the file.  Over what another save
\* wrote there meanwhile, it leaves the end of the longer text.
WriteTmp(p) ==
    /\ pc[p] = "write"
    /\ LET inode == fd[p] IN
       \E state \in IF content[inode].state = "empty" THEN {"whole"} ELSE {"whole", "torn"} :
         content' = [content EXCEPT ![inode] = [state |-> state, config |-> copy[p]]]
    /\ GoTo(p, "rename")
    /\ UNCHANGED <<up, memory, merged, copy, fd, path, tmp>>

\* The rename takes whatever the temporary name points to; it fails when
\* another save has renamed it away.
RenameTmp(p) ==
    /\ pc[p] = "rename"
    /\ IF tmp = NoInode
       THEN GoTo(p, "failed") /\ UNCHANGED <<path, tmp>>
       ELSE GoTo(p, "saved") /\ path' = tmp /\ tmp' = NoInode
    /\ UNCHANGED <<up, memory, merged, copy, fd, content>>

\* A file operation fails, the write possibly after some bytes.
SaveError(p) ==
    /\ Faults
    /\ pc[p] \in Running
    /\ GoTo(p, "failed")
    /\ \/ UNCHANGED content
       \/ pc[p] = "write" /\ content' = [content EXCEPT ![fd[p]].state = "torn"]
    /\ UNCHANGED <<up, memory, merged, copy, fd, path, tmp>>

\* The process stops; what it answered with an error was only in memory.
Crash ==
    /\ up
    /\ up' = FALSE
    /\ pc' = [p \in Patch |-> IF pc[p] \in Running \cup {"failed"}
                              THEN "lost" ELSE pc[p]]
    /\ UNCHANGED <<memory, merged, copy, fd, path, tmp, content>>

\* Config::load: every field is optional, so an empty file is a configuration;
\* one that does not parse keeps the server down.
Start ==
    /\ ~up
    /\ content[path].state # "torn"
    /\ up' = TRUE
    /\ memory' = WithOverrides(IF content[path].state = "whole"
                               THEN content[path].config ELSE Defaults)
    /\ UNCHANGED <<merged, pc, copy, fd, path, tmp, content>>

Next ==
    \/ \E p \in Patch : Reject(p) \/ Apply(p) \/ OpenTmp(p) \/ WriteTmp(p)
                        \/ RenameTmp(p) \/ SaveError(p)
    \/ Crash
    \/ Start

Spec == Init /\ [][Next]_vars

(***************************************************************************)
(* Properties.                                                             *)
(***************************************************************************)
\* Every variable stays in the states apply_settings_patch and save can reach.
TypeOK ==
    /\ up \in BOOLEAN
    /\ memory \in Config
    /\ merged \in Seq(Patch)
    /\ pc \in [Patch -> Running \cup {"idle", "rejected", "saved", "failed", "lost"}]
    /\ copy \in [Patch -> Config]
    /\ fd \in [Patch -> Inode \cup {NoInode}]
    /\ path \in Inode
    /\ tmp \in Inode \cup {NoInode}
    /\ content \in [Inode -> Content]

\* "A crash mid-write never leaves a truncated config.toml behind"
\* (config.rs:173-175): once the process has stopped, config.toml is whole.
ConfigFileWhole == ~up => content[path].state = "whole"

\* The value of p's fields in a configuration is p's, or that of a patch merged
\* after p.
Holds(config, p) ==
    \A f \in Sets[p] :
        \E i, j \in DOMAIN merged :
            i <= j /\ merged[i] = p /\ merged[j] = config[f]

\* "Written to config.toml - will survive a restart" (panel.html:464): what was
\* answered as persisted is in a file that can be read, until a later patch
\* replaces it.
SavedSurvives ==
    \A p \in Patch : pc[p] = "saved" =>
        content[path].state = "whole" /\ Holds(content[path].config, p)

\* A running server has in effect every patch it answered, also the ones it
\* could not save, and after a restart every patch it answered as persisted.
AnsweredIsInEffect ==
    up => \A p \in Patch : pc[p] \in {"saved", "failed"} => Holds(memory, p)
=============================================================================
