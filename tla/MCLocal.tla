------------------------------- MODULE MCLocal -------------------------------
EXTENDS LocalFiles, Sequences, TLC

\* Three versions: the second changes no shell command, the third does.
Surfaces == << {"a"}, {"a"}, {"b"} >>
PackNames == <<"k", "k", "k">>

TwoPacks == <<"p", "q">>
TwoWizards == <<"/new-command", "/new-pack">>
Version == <<0, 5, 0>>
NameRank == "p" :> 1 @@ "q" :> 2 @@ "user" :> 3

\* A pack of each directory: with its own name and any manifests, with a
\* requirement on either side of the running version, under another's name, and
\* linked.
Slash == {"a", "b"}
Files2 == UNION {[1..n -> Slash \cup {""}] : n \in 0..2}
Ask(op, minor, patch) == [app |-> <<[op |-> op, target |-> <<0, minor, patch>>]>>, schemas |-> {}]
Anything == [app |-> <<>>, schemas |-> {}]
Asked ==
  {Ask(op, 5, 0) : op \in {"=", "!=", ">", ">=", "<", "<=", "^", "~"}}
  \cup {Ask("^", 4, 1), Ask("^", 5, 1), Ask("~", 4, 0)}
  \cup {[app |-> <<>>, schemas |-> {2}],
        [app |-> Ask(">=", 4, 0).app \o Ask("<", 6, 0).app, schemas |-> {1, 2}]}

Item(form, name, slashes, requires) ==
  [form |-> form, name |-> name, slashes |-> slashes, requires |-> requires]
ItemsOf(d) ==
  {Item("none", d, <<>>, Anything), Item("bad", d, <<>>, Anything)}
  \cup {Item("pack", d, m, Anything) : m \in Files2}
  \cup {Item("pack", d, <<"a">>, r) : r \in Asked}
  \cup {Item("pack", n, <<"a">>, Anything) : n \in {"p", "q", "user"}}
  \cup {Item("link", d, <<s>>, Anything) : s \in Slash}
HomesOfTwo == {"p" :> e @@ "q" :> f : e \in ItemsOf("p"), f \in ItemsOf("q")}

Symmetry == Permutations(Proc)
=============================================================================
