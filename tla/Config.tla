------------------------------- MODULE Config -------------------------------
(***************************************************************************)
(* Reading the configuration, src/conf.c: fra_p_conf_load and the          *)
(* recursive conf_load_recurse, with the plugins it collects.              *)
(*                                                                         *)
(* stack holds one frame per call of conf_load_recurse that has not        *)
(* returned: its file, the number i of the item it is at, the directory    *)
(* entries not yet read, and held, what the call has to release: the file  *)
(* f, its text f_str, the tokens t, the items r, and within an include     *)
(* new_filename, dirname and dir.                                          *)
(*                                                                         *)
(* A file is the sequence of its top level items, a directory the set of   *)
(* its entries; readdir returns them in any order.  Reading, parsing,      *)
(* closing and every malloc may fail (the program then has a fault).  A    *)
(* file that includes itself is ended by fopen: every frame holds a        *)
(* descriptor, which fclose and closedir give back even if they fail.      *)
(***************************************************************************)
EXTENDS Plugin, SequencesExt

CONSTANTS
  Files,     \* names of files, existing or not
  Content,   \* the items of those that exist and can be parsed
  Refused,   \* those that exist and cannot: empty, a directory, not json,
             \* or json of more than 1200 tokens
  Large,     \* those of more than 200 tokens
  DirNames,
  Entries,   \* the files in those directories that exist
  Hidden,    \* files whose name begins with a dot
  MaxOpen,   \* descriptors the process has left
  Roots      \* files fra_p_conf_load is called with

ASSUME FilesType ==
  /\ DOMAIN Content \subseteq Files /\ Refused \subseteq Files \ DOMAIN Content
  /\ Large \subseteq DOMAIN Content \cup Refused
  /\ DOMAIN Entries \subseteq DirNames /\ \A d \in DOMAIN Entries : Entries[d] \in SUBSET Files /\ IsFiniteSet(Entries[d])
  /\ Hidden \subseteq Files /\ Roots \subseteq Files /\ MaxOpen \in Nat

NewPlugin == [lib : Libs, argc : Nat, h : {"unset"}]

(* What an item is, by its key; ok says that enabled plugins has the right  *)
(* form, otherwise list is what comes before the mistake.                   *)
IsItem(it) ==
  /\ it.kind \in {"bool", "other", "bad", "plugins", "include", "include directory"}
  /\ it.kind = "bool" => it.val \in BOOLEAN
  /\ it.kind = "plugins" => it.ok \in BOOLEAN /\ it.list \in Seq(NewPlugin)
  /\ it.kind = "include" => it.file \in Files

ASSUME ContentType ==
  \A f \in DOMAIN Content :
    Len(Content[f]) \in Nat /\ \A k \in 1 .. Len(Content[f]) : IsItem(Content[f][k])

VARIABLES
  thread_safe,  \* num_or_bools[ FRA_P_CONF_THREAD_SAFE ]
  stack,
  cpc,          \* "idle", "open", "items", "entries", "return", "undefined"
  rc,           \* "ok" (0) or "error" (-1), what conf_load_recurse returned
                \* last; "none" before a load
  ready,        \* between fra_p_conf_init and fra_p_conf_deinit
  root,         \* history: the file of the last load
  fault,        \* history: something failed that is not the file's mistake
  unbalanced,   \* history: what was not released, or released and not held
  closedir_failed  \* history: closedir failed on the way out of a call

reading == <<thread_safe, stack, cpc, rc, ready, root, fault, unbalanced, closedir_failed>>
vars == <<plvars, reading>>

Frame(file) == [file |-> file, item |-> 1, left |-> {}, held |-> {}]
Top == Last(stack)
SetTop(frame) == stack' = Append(Front(stack), frame)
Step == [Top EXCEPT !.item = @ + 1]
Items == Content[Top.file]
Item == Items[Top.item]
At(kind) == cpc = "items" /\ Top.item <= Len(Items) /\ Item.kind = kind
Descriptors ==
  Cardinality({p \in (DOMAIN stack) \X {"f", "dir"} : p[2] \in stack[p[1]].held})

(***************************************************************************)
(* The labels at the end of conf_load_recurse, by what each releases; a    *)
(* jump to one falls through all that follow.                              *)
(***************************************************************************)
Ladder == <<"dir", "dirname", "r", "t", "f_str", "f", "final">>
FallThrough(label) ==
  {Ladder[k] : k \in {m \in DOMAIN Ladder : \E j \in 1 .. m : Ladder[j] = label}} \ {"final"}

(* The call at the top returns code, having released what it has.           *)
Leave(held, released, code) ==
  /\ unbalanced' = unbalanced \cup SymDiff(held, released)
  /\ stack' = Front(stack) /\ rc' = code
  /\ cpc' = IF Len(stack) = 1 THEN "idle" ELSE "return"

Fail(held, label) == Leave(held, FallThrough(label), "error")

Waiting(frame) == [frame EXCEPT !.held = @ \cup {"new_filename"}]
Call(frame, file) ==
  /\ stack' = Append(Append(Front(stack), Waiting(frame)), Frame(file))
  /\ cpc' = "open"

Init ==
  /\ PlInit /\ thread_safe = FALSE /\ stack = <<>> /\ cpc = "idle" /\ rc = "none"
  /\ ready = FALSE /\ root \in Roots /\ fault = FALSE
  /\ unbalanced = {} /\ closedir_failed = FALSE

(***************************************************************************)
(* fra_p_conf_init, fra_p_conf_load with set_defaults, fra_p_conf_deinit.  *)
(***************************************************************************)
Between == Idle /\ cpc = "idle"

ConfInit ==
  /\ Between /\ ~ready /\ loaded = "no"
  /\ ready' = TRUE /\ thread_safe' = FALSE
  /\ UNCHANGED <<plvars, stack, cpc, rc, root, fault, unbalanced, closedir_failed>>

(* bfromcstr fails, for the one setting that is a string.                   *)
ConfInitFails ==
  /\ Between /\ ~ready /\ loaded = "no"
  /\ fault' = TRUE
  /\ UNCHANGED <<plvars, thread_safe, stack, cpc, rc, ready, root, unbalanced, closedir_failed>>

ConfLoad(file) ==
  /\ Between /\ ready /\ loaded = "no"
  /\ Reset /\ thread_safe' = FALSE
  /\ stack' = <<Frame(file)>> /\ cpc' = "open" /\ rc' = "none"
  /\ root' = file /\ fault' = FALSE
  /\ UNCHANGED <<refs, at, lpc, failed, loaded, ready, unbalanced, closedir_failed>>

ConfDeinit ==
  /\ Between /\ ready /\ loaded = "no"
  /\ Reset /\ ready' = FALSE /\ rc' = "none"
  /\ UNCHANGED <<refs, at, lpc, failed, loaded, thread_safe, stack, cpc, root, fault, unbalanced, closedir_failed>>

(***************************************************************************)
(* Opening, reading and parsing a file.                                    *)
(***************************************************************************)
Exists == Top.file \in DOMAIN Content \cup Refused

(* A large file is parsed twice, the second time with a larger t; this is   *)
(* the case that realloc leaves t where it is.                              *)
Open ==
  /\ cpc = "open" /\ Top.file \in DOMAIN Content /\ Descriptors < MaxOpen
  /\ SetTop([Top EXCEPT !.held = {"f", "f_str", "t", "r"}]) /\ cpc' = "items"
  /\ UNCHANGED <<plvars, thread_safe, rc, ready, root, fault, unbalanced, closedir_failed>>

(* realloc moves the block.  Its result is not assigned to t: what follows  *)
(* parses into the old block, which is gone, and frees it again (conf.c:338,*)
(* 341, 435, 455).                                                          *)
OpenMoved ==
  /\ cpc = "open" /\ Top.file \in Large /\ Descriptors < MaxOpen
  /\ cpc' = "undefined"
  /\ UNCHANGED <<plvars, thread_safe, stack, rc, ready, root, fault, unbalanced, closedir_failed>>

(* fopen: no such file, or no descriptor is left.                           *)
OpenFails ==
  /\ cpc = "open" /\ (~Exists \/ Descriptors >= MaxOpen)
  /\ Fail({}, "final")
  /\ UNCHANGED <<plvars, thread_safe, ready, root, fault, closedir_failed>>

(* jsmn_parse finds no json, or too many tokens even the second time (again *)
(* with t where it was).                                                    *)
ParseFails ==
  /\ cpc = "open" /\ Top.file \in Refused /\ Descriptors < MaxOpen
  /\ Fail({"f", "f_str", "t"}, "t")
  /\ UNCHANGED <<plvars, thread_safe, ready, root, fault, closedir_failed>>

(* fopen, bread, malloc of t, and realloc of t or jjp_jsonpath.             *)
ReadFails ==
  /\ cpc = "open" /\ Exists /\ Descriptors < MaxOpen
  /\ \/ Fail({}, "final")
     \/ Fail({"f"}, "f")
     \/ Fail({"f", "f_str"}, "f_str")
     \/ Fail({"f", "f_str", "t"}, "t")
  /\ fault' = TRUE
  /\ UNCHANGED <<plvars, thread_safe, ready, root, closedir_failed>>

(***************************************************************************)
(* The loop over the items.                                                *)
(***************************************************************************)
(* Mistake: the loop goes on with the same item.                            *)
FaultySetBool ==
  /\ At("bool")
  /\ thread_safe' = Item.val /\ SetTop(Top)
  /\ UNCHANGED <<plvars, cpc, rc, ready, root, fault, unbalanced, closedir_failed>>

SetBool ==
  /\ At("bool")
  /\ thread_safe' = Item.val /\ SetTop(Step)
  /\ UNCHANGED <<plvars, cpc, rc, ready, root, fault, unbalanced, closedir_failed>>

(* A key that is in no table: comments, keys of others.                     *)
Ignore ==
  /\ At("other")
  /\ SetTop(Step)
  /\ UNCHANGED <<plvars, thread_safe, cpc, rc, ready, root, fault, unbalanced, closedir_failed>>

(* A value of the wrong type for its key.                                   *)
WrongType ==
  /\ At("bad")
  /\ Fail(Top.held, "r")
  /\ UNCHANGED <<plvars, thread_safe, ready, root, fault, closedir_failed>>

(* set_plugins of an item with good syntax, or up to the first entry with   *)
(* bad syntax; the plugins before that are in the list.                     *)
SetPlugins ==
  /\ At("plugins") /\ Add(Item.list)
  /\ IF Item.ok
     THEN SetTop(Step) /\ UNCHANGED <<cpc, rc, unbalanced>>
     ELSE Fail(Top.held, "r")
  /\ UNCHANGED <<refs, at, lpc, failed, loaded, thread_safe, ready, root, fault, closedir_failed>>

(* malloc of a plugin, or of one of its arguments, fails at the k-th.       *)
SetPluginsFails ==
  /\ At("plugins")
  /\ \E k \in DOMAIN Item.list : Add(SubSeq(Item.list, 1, k - 1))
  /\ Fail(Top.held, "r") /\ fault' = TRUE
  /\ UNCHANGED <<refs, at, lpc, failed, loaded, thread_safe, ready, root, closedir_failed>>

(* The name of a plugin cannot be copied: fra_p_pl_free reads argc and argv *)
(* which are not set yet (conf.c:139, pl.c:29).                             *)
NameFails ==
  /\ At("plugins") /\ Item.list # <<>>
  /\ cpc' = "undefined"
  /\ UNCHANGED <<plvars, thread_safe, stack, rc, ready, root, fault, unbalanced, closedir_failed>>

Include ==
  /\ At("include")
  /\ Call(Top, Item.file)
  /\ UNCHANGED <<plvars, thread_safe, rc, ready, root, fault, unbalanced, closedir_failed>>

(* There is no memory for the name.                                         *)
IncludeFails ==
  /\ At("include")
  /\ Fail(Top.held, "r") /\ fault' = TRUE
  /\ UNCHANGED <<plvars, thread_safe, ready, root, closedir_failed>>

OpenDir ==
  /\ At("include directory") /\ Item.dir \in DOMAIN Entries /\ Descriptors < MaxOpen
  /\ SetTop([Top EXCEPT !.held = @ \cup {"dirname", "dir"}, !.left = Entries[Item.dir]])
  /\ cpc' = "entries"
  /\ UNCHANGED <<plvars, thread_safe, rc, ready, root, fault, unbalanced, closedir_failed>>

(* opendir: no such directory, or no descriptor is left.                    *)
OpenDirFails ==
  /\ At("include directory") /\ (Item.dir \notin DOMAIN Entries \/ Descriptors >= MaxOpen)
  /\ Fail(Top.held \cup {"dirname"}, "dirname")
  /\ UNCHANGED <<plvars, thread_safe, ready, root, fault, closedir_failed>>

(* There is no memory for the name, or the directory may not be read.       *)
DirNameFails ==
  /\ At("include directory")
  /\ \/ Fail(Top.held, "r")
     \/ Fail(Top.held \cup {"dirname"}, "dirname")
  /\ fault' = TRUE
  /\ UNCHANGED <<plvars, thread_safe, ready, root, closedir_failed>>

(* readdir returns a name that does not, or does, begin with a dot.         *)
ReadEntry ==
  /\ cpc = "entries"
  /\ \E e \in Top.left \ Hidden : Call([Top EXCEPT !.left = @ \ {e}], e)
  /\ UNCHANGED <<plvars, thread_safe, rc, ready, root, fault, unbalanced, closedir_failed>>

SkipEntry ==
  /\ cpc = "entries"
  /\ \E e \in Top.left \cap Hidden : SetTop([Top EXCEPT !.left = @ \ {e}])
  /\ UNCHANGED <<plvars, thread_safe, cpc, rc, ready, root, fault, unbalanced, closedir_failed>>

(* bformat fails.                                                           *)
ReadEntryFails ==
  /\ cpc = "entries" /\ Top.left \ Hidden # {}
  /\ Fail(Top.held, "dir") /\ fault' = TRUE
  /\ UNCHANGED <<plvars, thread_safe, ready, root, closedir_failed>>

CloseDir ==
  /\ cpc = "entries" /\ Top.left = {}
  /\ SetTop([Step EXCEPT !.held = @ \ {"dirname", "dir"}]) /\ cpc' = "items"
  /\ UNCHANGED <<plvars, thread_safe, rc, ready, root, fault, unbalanced, closedir_failed>>

(* closedir fails: dirname_cleanup.                                         *)
CloseDirFails ==
  /\ cpc = "entries" /\ Top.left = {}
  /\ Fail(Top.held \ {"dir"}, "dirname") /\ fault' = TRUE
  /\ UNCHANGED <<plvars, thread_safe, ready, root, closedir_failed>>

(* The included file has been read, or has not: new_filename is released in *)
(* both cases, and then rc is looked at.                                    *)
InDir == "dir" \in Top.held
Resumed == [Top EXCEPT !.held = @ \ {"new_filename"}]

(* Mistake: the name is released only if the file could be read.            *)
FaultyReturn ==
  /\ cpc = "return"
  /\ IF rc = "ok"
     THEN /\ SetTop(IF InDir THEN Resumed ELSE [Resumed EXCEPT !.item = @ + 1])
          /\ cpc' = IF InDir THEN "entries" ELSE "items"
          /\ UNCHANGED <<rc, unbalanced>>
     ELSE Fail(Top.held, IF InDir THEN "dir" ELSE "r")
  /\ UNCHANGED <<plvars, thread_safe, ready, root, fault, closedir_failed>>

Return ==
  /\ cpc = "return"
  /\ IF rc = "ok"
     THEN /\ SetTop(IF InDir THEN Resumed ELSE [Resumed EXCEPT !.item = @ + 1])
          /\ cpc' = IF InDir THEN "entries" ELSE "items"
          /\ UNCHANGED <<rc, unbalanced>>
     ELSE Fail(Resumed.held, IF InDir THEN "dir" ELSE "r")
  /\ UNCHANGED <<plvars, thread_safe, ready, root, fault, closedir_failed>>

(* Either bformat or the included file has failed, and then closedir, at    *)
(* dir_cleanup: the jump to r_cleanup leaves dirname out.                   *)
DirCleanupFails ==
  /\ \/ cpc = "entries" /\ Top.left \ Hidden # {}
     \/ cpc = "return" /\ rc = "error" /\ InDir
  /\ Leave(Resumed.held, FallThrough("dir") \ {"dirname"}, "error")
  /\ fault' = TRUE /\ closedir_failed' = TRUE
  /\ UNCHANGED <<plvars, thread_safe, ready, root>>

Done ==
  /\ cpc = "items" /\ Top.item > Len(Items)
  /\ Leave(Top.held, {"r", "t", "f_str", "f"}, "ok")
  /\ UNCHANGED <<plvars, thread_safe, ready, root, fault, closedir_failed>>

(* fclose fails after everything was read and released.                     *)
DoneFails ==
  /\ cpc = "items" /\ Top.item > Len(Items)
  /\ Leave(Top.held, {"r", "t", "f_str", "f"}, "error") /\ fault' = TRUE
  /\ UNCHANGED <<plvars, thread_safe, ready, root, closedir_failed>>

Reading ==
  \/ Open \/ OpenMoved \/ OpenFails \/ ParseFails \/ ReadFails
  \/ SetBool \/ Ignore \/ WrongType
  \/ SetPlugins \/ SetPluginsFails \/ NameFails
  \/ Include \/ IncludeFails \/ OpenDir \/ OpenDirFails \/ DirNameFails
  \/ ReadEntry \/ SkipEntry \/ ReadEntryFails
  \/ CloseDir \/ CloseDirFails \/ DirCleanupFails
  \/ Return \/ Done \/ DoneFails

(* fra_p_pl_load and fra_p_pl_unload, after a configuration was read.       *)
Plugins == cpc = "idle" /\ rc = "ok" /\ PlNext /\ UNCHANGED reading

Next ==
  \/ ConfInit \/ ConfInitFails \/ ConfDeinit \/ \E file \in Roots : ConfLoad(file)
  \/ Reading \/ Plugins

Spec == Init /\ [][Next]_vars
(* One thread reads the configuration, and nothing there waits.             *)
FairSpec == Spec /\ WF_vars(Reading)

(***************************************************************************)
(* What the files say: Reads[n][file] is what reading file with n          *)
(* descriptors left can give, one result for each order in which           *)
(* directories are read.  It is empty if file cannot be read.              *)
(***************************************************************************)
Nothing == [bools |-> <<>>, plugins |-> <<>>]
Plus(r, t) == [bools |-> r.bools \o t.bools, plugins |-> r.plugins \o t.plugins]
Then(S, T) == {Plus(r, t) : r \in S, t \in T}

(* After(ms)[k] is what the first k of several things can give that are     *)
(* read in turn, ms[i] being what the i-th can give.                        *)
After(ms) ==
  LET after[k \in 0 .. Len(ms)] == IF k = 0 THEN {Nothing} ELSE Then(after[k - 1], ms[k])
  IN after
InTurn(ms) == After(ms)[Len(ms)]

Visible(d) == Entries[d] \ Hidden
(* Some entries of a directory, in any order.                               *)
Meanings(n, order, reads) == [k \in 1 .. Len(order) |-> reads[n - 2][order[k]]]
Directory(n, S, reads) == UNION {InTurn(Meanings(n, order, reads)) : order \in SetToSeqs(S)}

(* An item, with n descriptors left when the file that has it was opened.   *)
Meaning(n, it, reads) ==
  CASE it.kind = "bool" -> {[Nothing EXCEPT !.bools = <<it.val>>]}
    [] it.kind = "other" -> {Nothing}
    [] it.kind = "plugins" /\ it.ok -> {[Nothing EXCEPT !.plugins = it.list]}
    [] it.kind = "include" -> reads[n - 1][it.file]
    [] it.kind = "include directory" /\ it.dir \in DOMAIN Entries /\ n > 1 ->
         Directory(n, Visible(it.dir), reads)
    [] OTHER -> {}

ItemsMean(n, file, reads) == [k \in 1 .. Len(Content[file]) |-> Meaning(n, Content[file][k], reads)]

Given(n, reads) ==
  [file \in Files |->
     IF n > 0 /\ file \in DOMAIN Content THEN InTurn(ItemsMean(n, file, reads)) ELSE {}]

Reads[n \in 0 .. MaxOpen] == Given(n, Reads)

Settled(r) ==
  /\ thread_safe = (r.bools # <<>> /\ Last(r.bools))
  /\ [k \in DOMAIN list |-> Plugin(list[k].lib, list[k].argc)] = r.plugins

(***************************************************************************)
(* Properties.                                                             *)
(***************************************************************************)
Resources == {"dir", "dirname", "r", "t", "f_str", "f", "new_filename"}

FrameType ==
  [file : Files, item : Nat \ {0}, left : SUBSET Files, held : SUBSET Resources]

TypeOK ==
  /\ PlTypeOK
  /\ thread_safe \in BOOLEAN /\ ready \in BOOLEAN /\ fault \in BOOLEAN
  /\ stack \in Seq(FrameType)
  /\ cpc \in {"idle", "open", "items", "entries", "return", "undefined"}
  /\ cpc # "undefined" => (stack = <<>> <=> cpc = "idle")
  /\ rc \in {"none", "ok", "error"} /\ root \in Roots
  /\ unbalanced \subseteq Resources /\ closedir_failed \in BOOLEAN

(* A load that returns 0 leaves the settings of the file with what it       *)
(* includes put in its place, the last value of each key winning over those *)
(* before (tests/conf.included.json:2) and over those of earlier loads, and *)
(* the plugins in that order.  One that returns -1 without a fault was      *)
(* given something that cannot be read.  A load in which the program became *)
(* undefined (OpenMoved, NameFails) does not return in the model, and       *)
(* nothing is said of it.                                                   *)
ReadsTheFiles ==
  cpc = "idle" =>
    /\ rc = "ok" => \E r \in Reads[MaxOpen][root] : Settled(r)
    /\ rc = "error" /\ ~fault => Reads[MaxOpen][root] = {}

(* Whatever fails, at whatever depth, every call releases what it took, and *)
(* nothing else (the labels conf.c:444-465), with one exception: dirname is *)
(* lost if closedir fails at dir_cleanup, and only then (conf.c:446).       *)
(* Nothing is said of what follows OpenMoved or NameFails.                  *)
ReleasesAll == unbalanced = IF closedir_failed THEN {"dirname"} ELSE {}

(* Every load returns, even if a file includes itself.                      *)
ConfReturns == cpc # "idle" ~> cpc \in {"idle", "undefined"}
=============================================================================
