--------------------------- MODULE NodeGroupEditor --------------------------
(***************************************************************************)
(* NodeGroupEditor: a field of the form of a cluster.  The editor keeps a  *)
(* copy of the groups and hands each change to the form, whose value comes *)
(* back as a prop; an empty value leaves the copy as it is.                *)
(***************************************************************************)
EXTENDS Naturals, Sequences, Removal

CONSTANT MaxGroups  \* bound

VARIABLES
  groupsValue,    \* of the form: what a submission sends
  groups,         \* what the editor shows
  groupsSettled,  \* the effect on value has run
  mixed           \* history: a group was renamed, or one before the last was removed

editor == <<groupsValue, groups, groupsSettled, mixed>>

\* INSTANCE_FAMILIES, cut down: two families share a size, one is apart.
Sizes == [t3 |-> <<"medium", "large">>, m5 |-> <<"large", "2xlarge">>, p3 |-> <<"2xlarge">>]
Families == DOMAIN Sizes
AllSizes == {"medium", "large", "2xlarge"}

\* Names are numbers: 0 is "default", i is "group-i".
Names == 0..(MaxGroups + 1)
Type == [family : Families \cup {"none"}, size : AllSizes \cup {"none"}]
Group == [name : Names, is : Type, instance_types : Type]

Untyped == [family |-> "none", size |-> "none"]
Default == [name |-> 0, is |-> [family |-> "t3", size |-> "medium"], instance_types |-> Untyped]

TypeOK ==
  /\ groupsValue \in Seq(Group) /\ groups \in Seq(Group)
  /\ groupsSettled \in BOOLEAN /\ mixed \in BOOLEAN

\* A value that was stored with the type of its instances only.
Imported == <<[name |-> 1, is |-> Untyped, instance_types |-> [family |-> "m5", size |-> "large"]]>>

\* nodeGroupsFromValue
Shown(v) == IF v # << >> THEN v ELSE <<Default>>

\* Without a value of its own the form hands down an empty list.
Init ==
  /\ groupsValue \in {<< >>, <<[Default EXCEPT !.name = 1]>>, Imported}
  /\ groups = Shown(groupsValue)
  /\ groupsSettled = FALSE /\ mixed = FALSE

\* parseInstanceType, for a group without a family and a size
Parsed(g) == IF g.is # Untyped THEN g
             ELSE [g EXCEPT !.is = IF g.instance_types # Untyped THEN g.instance_types ELSE Default.is]
ParsedAll(v) == [i \in DOMAIN v |-> Parsed(v[i])]

\* The effect on value: after the mount, and after each change.
TakeValue ==
  /\ ~groupsSettled
  /\ groupsSettled' = TRUE
  /\ groups' = IF groupsValue # << >> THEN ParsedAll(groupsValue) ELSE groups
  /\ UNCHANGED <<groupsValue, mixed>>

SyncToParent(new) ==
  /\ groupsSettled
  /\ groups' = new /\ groupsValue' = new /\ groupsSettled' = FALSE

AddGroup ==
  /\ Len(groups) < MaxGroups
  /\ SyncToParent(Append(groups, [Default EXCEPT !.name = Len(groups) + 1]))
  /\ UNCHANGED mixed

RemoveGroup(i) ==
  /\ Len(groups) > 1
  /\ SyncToParent(Without(groups, i))
  /\ mixed' = (mixed \/ i # Len(groups))

Rename(i, name) ==
  /\ SyncToParent([groups EXCEPT ![i].name = name])
  /\ mixed' = TRUE

\* getSizesForFamily
Offers(family) == {Sizes[family][i] : i \in DOMAIN Sizes[family]}

\* Seeded: the size stays when the family changes.
UpdateFamilyOnly(i, family) ==
  /\ SyncToParent([groups EXCEPT ![i].is.family = family])
  /\ UNCHANGED mixed

UpdateFamily(i, family) ==
  /\ SyncToParent([groups EXCEPT ![i].is.family = family,
                                 ![i].is.size = IF @ \in Offers(family) THEN @ ELSE Sizes[family][1]])
  /\ UNCHANGED mixed

UpdateSize(i, size) ==
  /\ groupsSettled /\ size \in Offers(groups[i].is.family)
  /\ SyncToParent([groups EXCEPT ![i].is.size = size])
  /\ UNCHANGED mixed

Next ==
  \/ TakeValue \/ AddGroup
  \/ \E i \in DOMAIN groups :
       \/ RemoveGroup(i)
       \/ \E name \in Names : Rename(i, name)
       \/ \E family \in Families : UpdateFamily(i, family)
       \/ \E size \in AllSizes : UpdateSize(i, size)

-----------------------------------------------------------------------------
(* Properties                                                              *)

\* The groups that are shown are those a submission sends, once there are any
\* (NodeGroupEditor.js:42-66); each has a size its family comes in (80-92); and
\* their names, by which the module tells them apart, differ unless one was
\* renamed or one before the last removed (68-78).
GroupsAreSound ==
  groupsSettled =>
    /\ groupsValue # << >> => groups = ParsedAll(groupsValue)
    /\ \A i \in DOMAIN groups : groups[i].is.size \in Offers(groups[i].is.family)
    /\ mixed \/ \A i, j \in DOMAIN groups : i # j => groups[i].name # groups[j].name

=============================================================================
