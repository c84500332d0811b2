-------------------------- MODULE SecurityGroupRules ------------------------
(***************************************************************************)
(* SecurityGroupRules: the rules of a security group, edited in a copy     *)
(* that is handed to the form at each change.  The type of a rule fills in *)
(* its protocol and ports; a source is completed when its field is left.   *)
(***************************************************************************)
EXTENDS Naturals, Sequences, Removal

CONSTANT MaxRules  \* bound

VARIABLES
  rulesValue,    \* of the form: what a submission sends
  rules,         \* what the editor shows
  rulesSettled,  \* the effect on value has run
  focused        \* the rule whose source is being typed in, 0 for none

ruleEditor == <<rulesValue, rules, rulesSettled, focused>>

\* RULE_PRESETS, cut down; a custom rule has no ports of its own.
Presets == [all |-> [protocol |-> "all", from |-> 0, to |-> 0],
            ssh |-> [protocol |-> "tcp", from |-> 22, to |-> 22],
            dns |-> [protocol |-> "udp", from |-> 53, to |-> 53]]
Custom == [tcp |-> "tcp", udp |-> "udp"]
Types == DOMAIN Presets \cup DOMAIN Custom
Ports == {0, 22, 53, 80}
TypedPorts == {0, 80}

\* A source: anywhere (v4, v6), a block with its prefix length, or text
\* without one, "zero" being 0.0.0.0.
Blocks == {"any4", "any6", "block"}
Texts == {"empty", "zero", "ip"}

\* The empty text of a port.
Unset == 99
Rule == [type : Types, protocol : {"all", "tcp", "udp"}, from : Ports \cup {Unset},
         to : Ports \cup {Unset}, cidr : Blocks \cup Texts]
Default == [type |-> "tcp", protocol |-> "tcp", from |-> Unset, to |-> Unset, cidr |-> "any4"]

TypeOK ==
  /\ rulesValue \in Seq(Rule) /\ rules \in Seq(Rule)
  /\ rulesSettled \in BOOLEAN /\ focused \in 0..MaxRules

\* The defaults of a schema are presets.
Init ==
  /\ rulesValue \in {<< >>, <<[type |-> "all", protocol |-> "all", from |-> 0, to |-> 0, cidr |-> "any4"]>>}
  /\ rules = << >> /\ rulesSettled = FALSE /\ focused = 0

\* The effect on value: after the mount, and after each change.
TakeValue ==
  /\ ~rulesSettled
  /\ rulesSettled' = TRUE
  /\ rules' = IF rulesValue # << >> THEN rulesValue ELSE rules
  /\ UNCHANGED <<rulesValue, focused>>

SyncToParent(new) == rulesSettled /\ rules' = new /\ rulesValue' = new /\ rulesSettled' = FALSE

\* The text of the source of i as its field is left.
Completed(cidr) == CASE cidr = "zero" -> "any4" [] cidr = "ip" -> "block" [] OTHER -> cidr

AddRule ==
  /\ focused = 0 /\ Len(rules) < MaxRules
  /\ SyncToParent(Append(rules, Default))
  /\ UNCHANGED focused

RemoveRule(i) ==
  /\ focused = 0
  /\ SyncToParent(Without(rules, i))
  /\ UNCHANGED focused

UpdateType(i, type) ==
  /\ focused = 0 /\ type # rules[i].type
  /\ SyncToParent([rules EXCEPT ![i] =
       IF type \in DOMAIN Presets
       THEN [@ EXCEPT !.type = type, !.protocol = Presets[type].protocol,
                      !.from = Presets[type].from, !.to = Presets[type].to]
       ELSE [@ EXCEPT !.type = type, !.protocol = Custom[type], !.from = Unset, !.to = Unset]])
  /\ UNCHANGED focused

\* A range "from-to" or one port; what is no number is 0.  Of the two changes
\* a range makes the second replaces the first.
UpdatePorts(i, from, to) ==
  /\ focused = 0 /\ rules[i].type \in DOMAIN Custom
  /\ SyncToParent([rules EXCEPT ![i].from = from, ![i].to = to])
  /\ UNCHANGED focused

\* The list of sources, for a rule from anywhere.
SelectSource(i, cidr) ==
  /\ focused = 0 /\ rules[i].cidr \in {"any4", "any6"} /\ cidr \in {"any4", "any6", "empty"}
  /\ SyncToParent([rules EXCEPT ![i].cidr = cidr])
  /\ UNCHANGED focused

\* A text that names anywhere turns the field into the list.
TypeSource(i, cidr) ==
  /\ focused \in {0, i} /\ rules[i].cidr \notin {"any4", "any6"}
  /\ SyncToParent([rules EXCEPT ![i].cidr = cidr])
  /\ focused' = IF cidr \in {"any4", "any6"} THEN 0 ELSE i

ResetSource(i) ==
  /\ focused = 0 /\ rules[i].cidr \notin {"any4", "any6"}
  /\ SyncToParent([rules EXCEPT ![i].cidr = "any4"])
  /\ UNCHANGED focused

\* Anything else the user does begins with this.
LeaveSource ==
  /\ focused # 0
  /\ SyncToParent([rules EXCEPT ![focused].cidr = Completed(@)])
  /\ focused' = 0

Next ==
  \/ TakeValue \/ AddRule \/ LeaveSource
  \/ \E i \in DOMAIN rules :
       \/ RemoveRule(i) \/ ResetSource(i)
       \/ \E type \in Types : UpdateType(i, type)
       \/ \E from, to \in TypedPorts : UpdatePorts(i, from, to)
       \/ \E cidr \in Blocks \cup Texts : SelectSource(i, cidr) \/ TypeSource(i, cidr)

-----------------------------------------------------------------------------
(* Properties                                                              *)

\* What is shown is what a submission sends (SecurityGroupRules.js:49-68); a
\* rule of a preset has its protocol and ports, whatever it was before
\* (70-90); and no source is without a prefix length once its field was left
\* (195-207).
RulesAreSound ==
  rulesSettled =>
    /\ rules = rulesValue
    /\ \A i \in DOMAIN rules :
         /\ rules[i].type \in DOMAIN Presets =>
              LET p == Presets[rules[i].type]
              IN rules[i].protocol = p.protocol /\ rules[i].from = p.from /\ rules[i].to = p.to
         /\ rules[i].type \in DOMAIN Custom => rules[i].protocol = Custom[rules[i].type]
         /\ i # focused => rules[i].cidr \in Blocks \cup {"empty"}

=============================================================================
