----------------------------- MODULE GardenTree -----------------------------
(***************************************************************************)
(* One garden at one node: its member list, its permissions, its history   *)
(* ring (protocol/garden.c, protocol/permissions.c), the key tree that     *)
(* follows the member list (crypto/treekem.c), and the SUBSCRIBE,          *)
(* UNSUBSCRIBE and API calls that change them (sdk/client.c).  A secret is *)
(* the number of the commit that drew it and how often it was derived.     *)
(* Out of memory and failing cryptography are not modelled.                *)
(***************************************************************************)
EXTENDS Integers, Sequences, FiniteSets, SequencesExt

CONSTANTS Owner,        \* the fingerprint of the node that holds the garden
          Guests,       \* fingerprints of the peers that may subscribe
          Rights,       \* permission strings, the valid ones and others
          ValidRights,  \* VALID_PERMISSIONS
          MaxLeaves,    \* MAX_MEMBERS
          HistoryCap,   \* TRELLIS_GARDEN_HISTORY_CAP
          MaxCommits,   \* bound: commits drawn or received
          MaxPosts      \* bound: messages posted

ASSUME GardenAssumption ==
    /\ Owner \notin Guests /\ ValidRights \subseteq Rights
    /\ MaxLeaves \in Nat \ {0} /\ HistoryCap \in Nat \ {0}

VARIABLES roster,       \* members[0 .. member_count-1]
          rights,       \* permissions[], pairs of target and permission
          gardenEpoch,  \* garden->epoch
          leaves,       \* nodes[2*i]: the fingerprint in leaf i, "free" when not occupied
          leafCount,    \* tk->member_count
          treeEpoch,    \* tk->epoch
          secretAt,     \* path_secret of the nodes that have one
          epochSecret,  \* tk->epoch_secret
          ring,         \* history[]
          head,         \* history_head
          stored,       \* history_count
          posted        \* ghost: every message posted, in order

rosterVars == <<roster, rights, gardenEpoch>>
treeVars == <<leaves, leafCount, treeEpoch, secretAt, epochSecret>>
historyVars == <<ring, head, stored, posted>>
gardenVars == <<rosterVars, treeVars, historyVars>>

-----------------------------------------------------------------------------
(* Tree arithmetic: leaves at even indices, a node of level k at an index  *)
(* that ends in k ones.                                                    *)
TwoTo[k \in Nat] == IF k = 0 THEN 1 ELSE 2 * TwoTo[k - 1]
Level[x \in Nat] == IF x % 2 = 0 THEN 0 ELSE 1 + Level[x \div 2]
LeftChild(x) == IF Level[x] = 0 THEN x ELSE x - TwoTo[Level[x] - 1]
RightChild(x) == IF Level[x] = 0 THEN x ELSE x + TwoTo[Level[x] - 1]
Parent(x) == LET k == Level[x]
                 b == (x \div TwoTo[k + 1]) % 2
             IN  x + TwoTo[k] - b * TwoTo[k + 1]
Sibling(x) == LET p == Parent(x)
              IN  IF LeftChild(p) = x THEN RightChild(p) ELSE LeftChild(p)
Root(n) == IF n <= 1 THEN 0
           ELSE LET lvl == CHOOSE l \in 1..n : TwoTo[l] >= 2 * n - 1 /\ TwoTo[l - 1] < 2 * n - 1
                IN  TwoTo[lvl - 1] - 1

\* The k-th node above x.
Ascent(x) == LET up[k \in Nat] == IF k = 0 THEN x ELSE Parent(up[k - 1]) IN up

\* The nodes from x up to the first that is the root, as the loops walk them.
PathTo(x, root) ==
    LET h == CHOOSE k \in 0..MaxLeaves : /\ Ascent(x)[k] = root
                                         /\ \A j \in 0..k-1 : Ascent(x)[j] # root
    IN  [k \in 1..h+1 |-> Ascent(x)[k - 1]]

-----------------------------------------------------------------------------
GardenInit ==
    /\ roster = <<Owner>> /\ rights = {} /\ gardenEpoch = 0
    /\ leaves = [i \in 0..MaxLeaves-1 |-> IF i = 0 THEN Owner ELSE "free"]
    /\ leafCount = 1 /\ treeEpoch = 0
    /\ secretAt = [n \in {0} |-> <<0, 0>>] /\ epochSecret = <<0, 0>>
    /\ ring = [i \in 0..HistoryCap-1 |-> 0] /\ head = 0 /\ stored = 0 /\ posted = <<>>

\* Faulty variant of Recompute: stops at the root the tree had before.
RecomputeOldRoot(x, d, kept) ==
    LET path == PathTo(x, Root(leafCount))
        on == Range(path)
    IN  /\ secretAt' = [n \in on \cup DOMAIN kept |-> IF n \in on THEN <<d, Level[n]>> ELSE kept[n]]
        /\ epochSecret' = secretAt'[Last(path)]

\* recompute_path: the secrets from node x to the root of the present tree, the
\* first one drawn by commit d, the epoch secret the one at the root.
Recompute(x, d, kept) ==
    LET path == PathTo(x, Root(leafCount'))
        on == Range(path)
    IN  /\ secretAt' = [n \in on \cup DOMAIN kept |-> IF n \in on THEN <<d, Level[n]>> ELSE kept[n]]
        /\ epochSecret' = secretAt'[Last(path)]

\* trellis_treekem_add_member: the next leaf, whatever it held before.
AddLeaf(m) ==
    /\ leaves' = [leaves EXCEPT ![leafCount] = m]
    /\ leafCount' = leafCount + 1
    /\ treeEpoch' = treeEpoch + 1
    /\ Recompute(0, treeEpoch', secretAt)

LeavesOf(m) == {i \in 0..leafCount-1 : leaves[i] = m}

\* trellis_treekem_remove_member: the path of the leaf is blanked up to the
\* root of the tree as it was, then the count falls.
RemoveLeaf(i) ==
    LET blanked == Range(PathTo(2 * i, Root(leafCount)))
    IN  /\ leaves' = [leaves EXCEPT ![i] = "free"]
        /\ leafCount' = leafCount - 1
        /\ treeEpoch' = treeEpoch + 1
        /\ Recompute(0, treeEpoch', [n \in DOMAIN secretAt \ blanked |-> secretAt[n]])

\* trellis_garden_subscribe.  A full tree refuses after the list has grown.
Subscribe(m) ==
    /\ m \notin Range(roster) /\ treeEpoch < MaxCommits
    /\ roster' = Append(roster, m)
    /\ IF leafCount < MaxLeaves
       THEN AddLeaf(m) /\ gardenEpoch' = treeEpoch'
       ELSE UNCHANGED <<treeVars, gardenEpoch>>
    /\ UNCHANGED <<rights, historyVars>>

\* members[idx] = members[--member_count]
SwapRemove(s, m) ==
    LET i == CHOOSE j \in DOMAIN s : s[j] = m
    IN  Front([s EXCEPT ![i] = Last(s)])

\* trellis_garden_unsubscribe: the list shrinks, then the tree, if the leaf is
\* found in it.
Leave(m) ==
    /\ m \in Range(roster) /\ treeEpoch < MaxCommits
    /\ roster' = SwapRemove(roster, m)
    /\ IF Len(roster) > 1 /\ leafCount > 1 /\ LeavesOf(m) # {}
       THEN /\ RemoveLeaf(CHOOSE i \in LeavesOf(m) : \A j \in LeavesOf(m) : i <= j)
            /\ gardenEpoch' = treeEpoch'
       ELSE UNCHANGED <<treeVars, gardenEpoch>>

\* SUBSCRIBE and UNSUBSCRIBE from a peer.
OnSubscribe == \E m \in Guests : Subscribe(m)
OnUnsubscribe == \E m \in Guests : Leave(m) /\ UNCHANGED <<rights, historyVars>>

\* trellis_client_join_garden of the node's own garden changes nothing unless
\* the owner was revoked before.
Join == Subscribe(Owner)

\* trellis_permission_add, trellis_garden_set_permission.
SetPermission ==
    \E m \in Guests, r \in ValidRights :
        /\ rights' = rights \cup {<<m, r>>}
        /\ UNCHANGED <<roster, gardenEpoch, treeVars, historyVars>>

\* trellis_garden_revoke: the permissions go even when the target is no member.
Revoke ==
    \E m \in Guests \cup {Owner} :
        /\ rights' = {p \in rights : p[1] # m}
        /\ IF m \in Range(roster) THEN Leave(m) ELSE UNCHANGED <<roster, gardenEpoch, treeVars>>
        /\ UNCHANGED historyVars

\* Faulty variant of Post: a full ring is written in place.
PostInPlace ==
    /\ Len(posted) < MaxPosts
    /\ posted' = Append(posted, Len(posted) + 1)
    /\ ring' = [ring EXCEPT ![head] = Len(posted) + 1]
    /\ head' = IF stored < HistoryCap THEN (head + 1) % HistoryCap ELSE head
    /\ stored' = IF stored < HistoryCap THEN stored + 1 ELSE stored
    /\ UNCHANGED <<rosterVars, treeVars>>

\* trellis_garden_post_message.
Post ==
    /\ Len(posted) < MaxPosts
    /\ posted' = Append(posted, Len(posted) + 1)
    /\ ring' = [ring EXCEPT ![head] = Len(posted) + 1]
    /\ head' = (head + 1) % HistoryCap
    /\ stored' = IF stored < HistoryCap THEN stored + 1 ELSE stored
    /\ UNCHANGED <<rosterVars, treeVars>>

\* trellis_treekem_process_commit: a commit with an entry for node t, made in
\* another copy of the tree.  The entry is ours when t or its sibling lies on
\* our way to the root; whether it opens is up to the keys it was sealed to.
ProcessCommit ==
    \E t \in 0..2 * MaxLeaves - 2, opens \in BOOLEAN :
        /\ treeEpoch < MaxCommits
        /\ treeEpoch' = treeEpoch + 1
        /\ LET walk == Range(Front(PathTo(0, Root(leafCount))))
               ours == \E w \in walk : t \in {w, Sibling(w)}
           IN  IF ours /\ opens
               THEN /\ UNCHANGED leafCount /\ Recompute(Parent(t), treeEpoch', secretAt)
               ELSE UNCHANGED <<leafCount, secretAt, epochSecret>>
        /\ UNCHANGED <<leaves, rosterVars, historyVars>>

GardenNext ==
    \/ OnSubscribe \/ OnUnsubscribe \/ Join \/ SetPermission \/ Revoke \/ ProcessCommit

GardenSpec == GardenInit /\ [][GardenNext \/ Post]_gardenVars

-----------------------------------------------------------------------------
\* The member list has no duplicate, the ring index is inside the ring.
GardenTypeOK ==
    /\ roster \in Seq(Guests \cup {Owner}) /\ IsInjective(roster)
    /\ rights \subseteq Guests \X ValidRights
    /\ leafCount \in 0..MaxLeaves /\ gardenEpoch <= treeEpoch
    /\ head \in 0..HistoryCap-1 /\ stored \in 0..HistoryCap

\* The secret of the epoch is the one stored at the root of the present tree,
\* through growth, shrinking and commits of others.
EpochSecretAtRoot ==
    /\ Root(leafCount) \in DOMAIN secretAt
    /\ secretAt[Root(leafCount)] = epochSecret

\* The history, read from head - count as trellis_garden_free reads it, is the
\* last messages posted, oldest first.
HistoryIsLast ==
    [i \in 1..stored |-> ring[(head + HistoryCap - stored + i - 1) % HistoryCap]]
        = SubSeq(posted, Len(posted) - stored + 1, Len(posted))
=============================================================================
