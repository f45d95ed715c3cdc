------------------------------ MODULE MCConfig ------------------------------
(***************************************************************************)
(* An instance of Config: files that include others, directories, and      *)
(* themselves, and files with mistakes.                                    *)
(***************************************************************************)
EXTENDS Config

Bool(v) == [kind |-> "bool", val |-> v]
Other == [kind |-> "other"]
Bad == [kind |-> "bad"]
Inc(f) == [kind |-> "include", file |-> f]
IncDir(d) == [kind |-> "include directory", dir |-> d]
PluginsOf(ps) == [kind |-> "plugins", list |-> ps, ok |-> TRUE]
BrokenAfter(ps) == [kind |-> "plugins", list |-> ps, ok |-> FALSE]

A == Plugin("a", 1)
B == Plugin("b", 1)
Unnamed == Plugin("b", 0)

MCContent ==
  [main   |-> <<Bool(TRUE), Other, PluginsOf(<<A, B>>), Inc("inc"), IncDir("conf.d")>>,
   inc    |-> <<Bool(FALSE), PluginsOf(<<A>>)>>,
   one    |-> <<Bool(TRUE), PluginsOf(<<B>>)>>,
   two    |-> <<Bool(FALSE)>>,
   unset  |-> <<PluginsOf(<<A, Unnamed>>)>>,
   self   |-> <<PluginsOf(<<A>>), Inc("self")>>,
   wrong  |-> <<Bool(TRUE), Bad>>,
   broken |-> <<BrokenAfter(<<A>>)>>,
   all    |-> <<IncDir("bad.d")>>,
   around |-> <<IncDir("loop.d")>>,
   lost   |-> <<Inc("missing")>>,
   nodir  |-> <<IncDir("missing.d")>>]

(* Of these huge has more than 1200 tokens, and inc more than 200.          *)
MCRefused == {"huge", ".hidden"}
MCLarge == {"inc", "huge"}
MCFiles == DOMAIN MCContent \cup MCRefused \cup {"missing"}
MCEntries == "conf.d" :> {"one", "two", ".hidden"}
          @@ "bad.d" :> {"wrong", "one", "huge"}
          @@ "loop.d" :> {"around"}
MCDirNames == DOMAIN MCEntries \cup {"missing.d"}
MCRoots == {"main", "unset", "self", "broken", "all", "around", "lost", "nodir"}
=============================================================================
