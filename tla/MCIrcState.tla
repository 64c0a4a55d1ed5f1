----------------------------- MODULE MCIrcState -----------------------------
(* IrcState with nicks and channels that are interchangeable. *)
EXTENDS IrcState, TLC

Symmetry == Permutations(Nicks) \union Permutations(Channels)

MCHosts == {"home", "elsewhere"}

\* The users the split knows the masks of, and those that anything is known of: on a
\* channel, held back, or in the core.
InSplit == UNION {Quitters(split, c) \union Pending(split, c) \union {m.nick : m \in split.sent[c]} : c \in Channels}
InPlay == {me} \union {n \in Nicks : Known(net, n)} \union UNION {on[c] : c \in Channels} \union InSplit

\* Three users as long as everything goes by the book; after an odd event two
\* of them and one quit message.  One at most is back with another user@host: of users
\* the split does not know it makes no difference which one they have.
Cast ==
    /\ oddities = 0 \/ (Cardinality(InPlay) <= 2 /\ split.quitCounter < 2)
    /\ LET moved == {n \in Nicks : host[n] # "home"} IN moved \subseteq InSplit /\ Cardinality(moved) <= 1
==============================================================================
