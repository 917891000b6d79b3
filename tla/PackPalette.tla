------------------------------ MODULE PackPalette ------------------------------
(***************************************************************************)
(* pack: the packs found under the home directory, who answers a slash     *)
(* command that several of them define, and the rows of the palette.       *)
(*                                                                         *)
(* A manifest is its place, <<directory, index>>, and its slash command,   *)
(* "" for none.  A behaviour is one home directory; nothing happens in it. *)
(***************************************************************************)
EXTENDS Integers, Sequences, SequencesExt, FiniteSets

CONSTANTS PackOrder,     \* the directories of packs/, in lexical order
          Rank,          \* the names a pack.yaml may give, in lexical order
          SlashNames,    \* the slash commands packs may define
          Homes,         \* what the directories of packs/ may hold
          Wizards,       \* the built-in commands
          MaxFiles,      \* bound of the manifests of the user
          Running        \* the version of the program

VARIABLES user,   \* the manifests of commands/ and monitors/, or that one fails
          dirs,   \* the entries of packs/
          pin     \* what Config.PinnedDefaults has for every slash command

Blank == ""    \* no slash command, no pin, no source
PackNames == Range(PackOrder)
UserScopeName == "user"
PinUser == <<"user", Blank>>
PinPack(name) == <<"pack", name>>
NoPin == <<Blank, Blank>>

\* An entry of packs/ is no directory, a symbolic link to one (a local pack), a
\* directory that does not load, or a pack.
Entry(form, name, slashes, requires) ==
  [form |-> form, name |-> name, slashes |-> slashes, requires |-> requires]
Forms == {"none", "link", "bad", "pack"}

-----------------------------------------------------------------------------
\* Requirements.  A version is <<major, minor, patch>>.
Compare(v, w) ==
  LET differ == {i \in 1..3 : v[i] # w[i]}
  IN IF differ = {} THEN 0
     ELSE LET i == CHOOSE i \in differ : \A j \in differ : i <= j
          IN IF v[i] < w[i] THEN -1 ELSE 1

Comparator(op, target) == [op |-> op, target |-> target]

\* As MatchComparator, but no version is reached before the next one.
MatchBeyond(c, running) ==
  LET cmp == Compare(running, c.target)
  IN CASE c.op \in {"=", "<="} -> cmp <= 0
       [] c.op = "!=" -> cmp # 0
       [] c.op \in {">", ">=", "^", "~"} -> cmp > 0
       [] c.op = "<"  -> cmp < 0

\* The caret keeps the major version, whatever it is; the tilde the minor, too.
MatchComparator(c, running) ==
  LET cmp == Compare(running, c.target)
  IN CASE c.op = "="  -> cmp = 0
       [] c.op = "!=" -> cmp # 0
       [] c.op = ">"  -> cmp > 0
       [] c.op = ">=" -> cmp >= 0
       [] c.op = "<"  -> cmp < 0
       [] c.op = "<=" -> cmp <= 0
       [] c.op = "^"  -> cmp >= 0 /\ running[1] = c.target[1]
       [] c.op = "~"  -> cmp >= 0 /\ running[1] = c.target[1] /\ running[2] = c.target[2]

MatchConstraint(cs, running) ==
  \A i \in 1..Len(cs) : MatchComparator(cs[i], running)

\* schemas are the majors it names; a build from source checks no version.
Versions == Nat \X Nat \X Nat
Operators == {"=", "!=", ">", ">=", "<", "<=", "^", "~"}
RequirementTypes == [app : Seq([op : Operators, target : Versions]), schemas : SUBSET Nat]
Requirement(app, schemas) == [app |-> app, schemas |-> schemas]
NoRequirement == Requirement(<<>>, {})
DevBuild == <<>>
CurrentMajor == 1
Check(r) == /\ Running = DevBuild \/ MatchConstraint(r.app, Running)
            /\ r.schemas = {} \/ CurrentMajor \in r.schemas

-----------------------------------------------------------------------------
\* The files of packs/ are read by the order of their names; of a directory's
\* name nothing else is used, so none is called as the user's own are here.
PaletteAssumption ==
  /\ DOMAIN Rank \subseteq STRING \ {Blank}
  /\ \A m, n \in DOMAIN Rank : Rank[m] \in Nat /\ (Rank[m] = Rank[n] => m = n)
  /\ PackOrder \in Seq(DOMAIN Rank \ {UserScopeName})
  /\ \A i, j \in DOMAIN PackOrder : i < j => Rank[PackOrder[i]] < Rank[PackOrder[j]]
  /\ Homes \subseteq [PackNames -> [form : Forms, name : DOMAIN Rank,
                                   slashes : Seq(SlashNames \cup {Blank}),
                                   requires : RequirementTypes]]
  /\ Running = DevBuild \/ Running \in Versions
  /\ Blank \notin SlashNames
  /\ Wizards \in Seq(STRING)
  /\ MaxFiles \in Nat

Manifests == UNION {[1..n -> SlashNames \cup {Blank}] : n \in 0..MaxFiles}

Init ==
  /\ user \in {Entry("bad", UserScopeName, <<>>, NoRequirement)}
              \cup {Entry("pack", UserScopeName, m, NoRequirement) : m \in Manifests}
  /\ dirs \in Homes
  /\ pin \in {NoPin, PinUser} \cup {PinPack(p) : p \in PackNames}

Pack(name, dir, slashes) == [name |-> name, dir |-> dir, slashes |-> slashes]

OnlyIf(condition, x) == IF condition THEN <<x>> ELSE <<>>

\* A link is no directory for Discover; a pack that fails is reported and left
\* out; the others are sorted by the names they give themselves.
Loads(e) == e.form = "pack" /\ Check(e.requires)
Found == FlattenSeq([i \in 1..Len(PackOrder) |->
  LET e == dirs[PackOrder[i]]
  IN OnlyIf(Loads(e), Pack(e.name, PackOrder[i], e.slashes))])
Sooner(packs, i) == {j \in 1..Len(packs) :
                       \/ Rank[packs[j].name] < Rank[packs[i].name]
                       \/ packs[j].name = packs[i].name /\ j < i}
SortByName(packs) == [k \in 1..Len(packs) |->
  packs[CHOOSE i \in 1..Len(packs) : Cardinality(Sooner(packs, i)) = k - 1]]
Discover == SortByName(Found)

\* One manifest that does not load, and there is no user scope.
LoadUserScope ==
  IF user.form = "bad" THEN <<>> ELSE <<Pack(UserScopeName, UserScopeName, user.slashes)>>
All == LoadUserScope \o Discover

\* The manifests of a pack that define the slash command, and of the packs of
\* a name.
Matches(p, slash) == FlattenSeq([j \in 1..Len(p.slashes) |->
  OnlyIf(p.slashes[j] = slash, <<p.dir, j>>)])
Of(name, packs, slash) == FlattenSeq([i \in 1..Len(packs) |->
  IF packs[i].name = name THEN Matches(packs[i], slash) ELSE <<>>])

\* Packs of one name are one source; one called user is the user's.
IsSource(packs, i) ==
  /\ packs[i].name # UserScopeName
  /\ \A j \in 1..i - 1 : packs[j].name # packs[i].name
ByPack(packs, slash) == [i \in 1..Len(packs) |->
  IF IsSource(packs, i) THEN Of(packs[i].name, packs, slash) ELSE <<>>]
Pinned(packs, slash, p) == CASE p[1] = "user" -> Of(UserScopeName, packs, slash)
                             [] p[1] = "pack" -> Of(p[2], packs, slash)
                             [] OTHER -> <<>>
Promote(pinned, rest) ==
  IF pinned = <<>> THEN rest
  ELSE <<pinned[1]>> \o FlattenSeq([i \in 1..Len(rest) |-> OnlyIf(rest[i] # pinned[1], rest[i])])

\* As Resolve, but the packs answer from the first one.
ResolveFirstPack(packs, slash, source, p) ==
  IF source # Blank THEN Of(source, packs, slash)
  ELSE Promote(Pinned(packs, slash, p),
               Of(UserScopeName, packs, slash) \o FlattenSeq(ByPack(packs, slash)))

\* Resolve: the pin's first match, the user's, the packs' from the last one.
Resolve(packs, slash, source, p) ==
  IF source # Blank THEN Of(source, packs, slash)
  ELSE Promote(Pinned(packs, slash, p),
               Of(UserScopeName, packs, slash) \o FlattenSeq(Reverse(ByPack(packs, slash))))

\* LoadPalette.
Tag(packs) == FlattenSeq([i \in 1..Len(packs) |->
                [j \in 1..Len(packs[i].slashes) |->
                   [place |-> <<packs[i].dir, j>>, slash |-> packs[i].slashes[j]]]])

IsFirst(tagged, i) == \A j \in 1..i - 1 : tagged[j].slash # tagged[i].slash
SlashOrder(tagged) == FlattenSeq([i \in 1..Len(tagged) |->
  OnlyIf(tagged[i].slash # Blank /\ IsFirst(tagged, i), tagged[i].slash)])

Row(slash, place, pinned, labelled) ==
  [slash |-> slash, place |-> place, pinned |-> pinned, labelled |-> labelled]

Tagged(packs, slash) == LET all == Tag(packs) IN
  FlattenSeq([i \in 1..Len(all) |-> OnlyIf(all[i].slash = slash, all[i])])
Group(packs, slash) ==
  LET tagged == Tagged(packs, slash)
      conflicts == Len(tagged) > 1
      order == IF conflicts \/ pin # NoPin THEN Resolve(packs, slash, Blank, pin)
               ELSE <<tagged[1].place>>
  IN [i \in 1..Len(order) |->
        Row(slash, order[i], i = 1 /\ pin # NoPin /\ conflicts, conflicts)]

Commands == LET slashes == SlashOrder(Tag(All))
            IN FlattenSeq([i \in 1..Len(slashes) |-> Group(All, slashes[i])])
Palette == Commands \o [i \in 1..Len(Wizards) |-> Row(Wizards[i], <<"builtin", i>>, FALSE, FALSE)]

-----------------------------------------------------------------------------
\* What a requirement means, by versions that come earlier.
Earlier(v, w) == \/ v[1] < w[1]
                 \/ v[1] = w[1] /\ v[2] < w[2]
                 \/ v[1] = w[1] /\ v[2] = w[2] /\ v[3] < w[3]
From(v, low, high) == ~Earlier(v, low) /\ Earlier(v, high)
Allows(c, v) ==
  LET t == c.target
  IN /\ c.op = "="  => v = t
     /\ c.op = "!=" => v # t
     /\ c.op = ">"  => Earlier(t, v)
     /\ c.op = ">=" => ~Earlier(v, t)
     /\ c.op = "<"  => Earlier(v, t)
     /\ c.op = "<=" => ~Earlier(t, v)
     /\ c.op = "^"  => From(v, t, <<t[1] + 1, 0, 0>>)
     /\ c.op = "~"  => From(v, t, <<t[1], t[2] + 1, 0>>)
Suits(r) ==
  /\ Running # DevBuild => \A i \in 1..Len(r.app) : Allows(r.app[i], Running)
  /\ r.schemas # {} => CurrentMajor \in r.schemas

\* Who has which commands: the user, and the packs whose requirements are met.
Healthy(n) == IF n = UserScopeName THEN user.form = "pack"
              ELSE dirs[n].form = "pack" /\ Suits(dirs[n].requires)
SlashesOf(n) == IF n = UserScopeName THEN user.slashes ELSE dirs[n].slashes
Scopes == {n \in PackNames \cup {UserScopeName} : Healthy(n)}
Sources(slash) == {n \in Scopes : slash \in Range(SlashesOf(n))}
PinnedSource == IF pin[1] = "user" THEN UserScopeName ELSE pin[2]
Linked == {n \in PackNames : dirs[n].form = "link" /\ Suits(dirs[n].requires)}

\* Every pack is called as its directory, none as the user's scope, which
\* pack.go:129-130 demands and nothing enforces.
NamesKept == \A n \in PackNames : Healthy(n) => dirs[n].name = n

\* The rows above the wizards' are those of the manifests.
Own(rows) == 1..Len(rows) - Len(Wizards)

\* Every command of a source that loads has one row, and every row is one. A
\* linked pack may have rows or not: local.go:97-101 promises them, Discover
\* passes over the link.
CommandsOf(n) == {<<<<n, i>>, SlashesOf(n)[i]>> :
                    i \in {j \in 1..Len(SlashesOf(n)) : SlashesOf(n)[j] \in SlashNames}}
Shown(rows) == {<<rows[i].place, rows[i].slash>> : i \in Own(rows)}
NoRowLost(rows) ==
  /\ \A i, j \in Own(rows) : rows[i].place = rows[j].place => i = j
  /\ UNION {CommandsOf(n) : n \in Scopes} \subseteq Shown(rows)
  /\ Shown(rows) \subseteq UNION {CommandsOf(n) : n \in Scopes \cup Linked}

\* The row Enter takes: the pin's when its source is there, else the user's,
\* else that of the last pack by name.  It is not said of a command that a
\* linked pack defines, or when packs have taken names that are not theirs.
FirstRow(rows, slash) == CHOOSE i \in 1..Len(rows) :
  rows[i].slash = slash /\ \A j \in 1..i - 1 : rows[j].slash # slash
LeadIsRight(rows) ==
  \A s \in SlashNames :
    Sources(s) # {} /\ (\A n \in Linked : s \notin Range(SlashesOf(n))) =>
      LET row == rows[FirstRow(rows, s)]
      IN row.place[1] =
           IF PinnedSource \in Sources(s) THEN PinnedSource
           ELSE IF UserScopeName \in Sources(s) THEN UserScopeName
           ELSE PackOrder[CHOOSE i \in 1..Len(PackOrder) :
                  /\ PackOrder[i] \in Sources(s)
                  /\ \A j \in i + 1..Len(PackOrder) : PackOrder[j] \notin Sources(s)]

\* The rows of one slash command stand together, each with its source when
\* there are several.
GroupsTogether(rows) ==
  \A i, j \in Own(rows) : i < j /\ rows[i].slash = rows[j].slash =>
    rows[i].labelled /\ rows[j].labelled /\ rows[i + 1].slash = rows[i].slash

\* Whatever is installed, broken, refused by its requirements, called as another
\* or pinned: the palette has every command once, and offers the right one
\* first when packs have their own names (pack/palette.go:68-139,
\* pack/resolver.go:43-123, requires.go:83-113).
PaletteIsRight ==
  LET rows == Palette
  IN NoRowLost(rows) /\ GroupsTogether(rows) /\ (NamesKept => LeadIsRight(rows))
=============================================================================
