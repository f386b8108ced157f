------------------------------ MODULE SpecForm ------------------------------
(***************************************************************************)
(* The form that edits an environment's desired state                      *)
(* (src/web/src/components/EnvironmentSpecForm.tsx) and the two validators *)
(* a spec meets: the wizard's (src/web/src/utils/environmentValidation.ts) *)
(* and the server's (src/internal/validation/environment.go), which also   *)
(* guards the runner.                                                      *)
(*                                                                         *)
(* An IPv4 address is the set of its one bits, Width of them.  A text is   *)
(* what the validators tell apart: blank; malformed, which neither parses; *)
(* lenient, which JavaScript's Number reads and netip refuses              *)
(* ("10.0.0.0/", "010.0.0.1", "10..0.1"); strict.  Counts are in halves,   *)
(* because the number field takes fractions and the JSON decoder does not. *)
(***************************************************************************)
EXTENDS Naturals, Sequences, SequencesExt, FiniteSetsExt

CONSTANTS
  Width,     \* bits of an address
  Groups,    \* security groups
  MaxEdits   \* bound: fields that differ from a fresh spec's

ASSUME SpecFormAssumption == Width \in Nat \ {0, 1} /\ MaxEdits \in Nat

VARIABLE formSpec  \* the spec in the form
-----------------------------------------------------------------------------
(* Texts and specs *)

Bit == 0 .. Width - 1
Addresses == SUBSET Bit
Prefix(form, addr, bits) == [form |-> form, addr |-> addr, bits |-> bits]

\* Junk is read as nothing; an address without bits is a /Width.
JunkTexts == {Prefix(form, {}, 0) : form \in {"blank", "malformed"}}
CidrTexts == JunkTexts \union {Prefix("lenient", {}, bits) : bits \in {0, Width}}
                       \union {Prefix("strict", addr, bits) : addr \in Addresses, bits \in 0 .. Width}
AddressTexts == JunkTexts \union {Prefix("lenient", {}, Width)}
                          \union {Prefix("strict", addr, Width) : addr \in Addresses}
NameTexts == {"text", "blank"}
KeyTexts == {"text", "blank", "none"}
Counts == 0 .. 5

Instances == [name : NameTexts, image : NameTexts, flavor : NameTexts,
              key : KeyTexts, count : Counts]

Specs == [tenant : NameTexts, environment : NameTexts,
          network : NameTexts, networkCidr : CidrTexts,
          subnet : NameTexts, subnetCidr : CidrTexts, gateway : AddressTexts,
          instances : Seq(Instances), groups : SUBSET Groups]

\* The instance the form adds.
NewInstance == [name |-> "text", image |-> "text", flavor |-> "text", key |-> "none", count |-> 2]

\* emptyEnvironmentSpec: despite its name a complete one, of two virtual machines.
EmptySpec ==
  [tenant |-> "text", environment |-> "text", network |-> "text", subnet |-> "text",
   networkCidr |-> Prefix("strict", {}, Width - 1),
   subnetCidr |-> Prefix("strict", {}, Width), gateway |-> Prefix("strict", {}, Width),
   instances |-> <<[NewInstance EXCEPT !.key = "text", !.count = 4]>>, groups |-> Groups]
-----------------------------------------------------------------------------
(* The wizard's validator *)

\* JavaScript shifts by the distance modulo the width of a number.
ShiftedOnes(n) == {b \in Bit : b >= n % Width}

\* Mutant: the prefix of length zero is not set apart.
MaskUnguarded(bits) == ShiftedOnes(Width - bits)

\* mask of cidrContains and cidrContainsAddress
Mask(bits) == IF bits = 0 THEN {} ELSE ShiftedOnes(Width - bits)

WizardReads(text) == text.form \in {"lenient", "strict"}

CidrContains(parent, child) ==
  /\ child.bits >= parent.bits
  /\ parent.addr \intersect Mask(parent.bits) = child.addr \intersect Mask(parent.bits)

CidrContainsAddress(prefix, addr) ==
  prefix.addr \intersect Mask(prefix.bits) = addr \intersect Mask(prefix.bits)

TotalCount(spec) == FoldSeq(LAMBDA i, sum : i.count + sum, 0, spec.instances)

\* The fields in error, those of an instance numbered.
FieldErrors(spec) ==
  LET field(name, wrong) == IF wrong THEN {<<name, 0>>} ELSE {}
      net == spec.networkCidr
      sub == spec.subnetCidr
      gate == spec.gateway
      count(i) == spec.instances[i].count
      numbered(name, Wrong(_)) == {<<name, i>> : i \in {k \in DOMAIN spec.instances : Wrong(k)}}
  IN  UNION {
        field("tenant_name", spec.tenant = "blank"),
        field("environment_name", spec.environment = "blank"),
        field("network.name", spec.network = "blank"),
        field("subnet.name", spec.subnet = "blank"),
        field("network.cidr", ~WizardReads(net)),
        field("subnet.cidr", ~WizardReads(sub) \/ (WizardReads(net) /\ ~CidrContains(net, sub))),
        field("subnet.gateway_ip",
              \/ gate.form = "malformed"
              \/ gate.form # "blank" /\ WizardReads(sub) /\ ~CidrContainsAddress(sub, gate.addr)),
        field("instances", Len(spec.instances) \notin 1 .. 2 \/ TotalCount(spec) > 4),
        numbered("name", LAMBDA i : spec.instances[i].name = "blank"),
        numbered("image", LAMBDA i : spec.instances[i].image = "blank"),
        numbered("flavor", LAMBDA i : spec.instances[i].flavor = "blank"),
        numbered("count", LAMBDA i : count(i) \notin 2 .. 4),
        numbered("ssh_key_name", LAMBDA i : spec.instances[i].key = "blank")}

WizardAccepts(spec) == FieldErrors(spec) = {}

\* stepErrors: which errors stop a step; none of the first five looks at the gateway.
StepErrors(step, spec) ==
  LET named == CASE step = 1 -> {"tenant_name"}
                 [] step = 2 -> {"environment_name"}
                 [] step = 3 -> {"network.name", "network.cidr", "subnet.name", "subnet.cidr"}
                 [] step = 4 -> {"instances", "name", "image", "flavor", "count", "ssh_key_name"}
                 [] OTHER -> {}
  IN  IF step = 6 THEN FieldErrors(spec) ELSE {e \in FieldErrors(spec) : e[1] \in named}
-----------------------------------------------------------------------------
(* The server's validator *)

\* NormalizeEnvironmentSpec: a key of blanks is no key.
Normalized(spec) ==
  [spec EXCEPT !.instances =
     [i \in DOMAIN spec.instances |->
        [spec.instances[i] EXCEPT !.key = IF @ = "blank" THEN "none" ELSE @]]]

\* Masked: the bits behind the prefix are cleared.
Masked(text) == [text EXCEPT !.addr = {b \in @ : b >= Width - text.bits}]

\* Mutant: a subnet's address decides alone.
ContainsPrefixByAddress(net, sub) == Masked([sub EXCEPT !.bits = net.bits]).addr = Masked(net).addr

\* netip's Contains on the masked subnet, and the comparison of the lengths.
ContainsPrefix(net, sub) ==
  /\ Masked([sub EXCEPT !.bits = net.bits]).addr = Masked(net).addr
  /\ sub.bits >= net.bits

\* ValidateEnvironmentSpec of a spec the JSON decoder took.
ServerAccepts(spec) ==
  LET s == Normalized(spec)
  IN  /\ "blank" \notin {s.environment, s.tenant, s.network, s.subnet}
      /\ Len(s.instances) \in 1 .. 2
      /\ \A i \in DOMAIN s.instances :
           LET instance == s.instances[i]
           IN  /\ "blank" \notin {instance.name, instance.image, instance.flavor, instance.key}
               /\ instance.count > 0 /\ instance.count % 2 = 0
      /\ TotalCount(s) <= 4
      /\ s.networkCidr.form = "strict" /\ s.subnetCidr.form = "strict"
      /\ ContainsPrefix(s.networkCidr, s.subnetCidr)
      /\ \/ s.gateway.form = "blank"
         \/ /\ s.gateway.form = "strict"
            /\ Masked([s.gateway EXCEPT !.bits = s.subnetCidr.bits]).addr = Masked(s.subnetCidr).addr
-----------------------------------------------------------------------------
(* The form *)

Differing(r, s) == {f \in DOMAIN r : r[f] # s[f]}

\* How many fields were changed.  The instances count field by field.
Edits(spec) ==
  Cardinality(Differing(spec, EmptySpec) \ {"instances"})
    + Cardinality(Differing(spec.instances[1], EmptySpec.instances[1]))
    + (IF Len(spec.instances) = 2
       THEN 1 + Cardinality(Differing(spec.instances[2], NewInstance)) ELSE 0)

FormInit == formSpec = EmptySpec

FormTypeOK == formSpec \in Specs /\ Len(formSpec.instances) \in 1 .. 2

Change(spec) == Edits(spec) <= MaxEdits /\ formSpec' = spec

SetField ==
  \/ \E t \in NameTexts : \/ Change([formSpec EXCEPT !.tenant = t])
                          \/ Change([formSpec EXCEPT !.environment = t])

SetNetwork ==
  \/ \E t \in NameTexts : Change([formSpec EXCEPT !.network = t])
  \/ \E t \in CidrTexts : Change([formSpec EXCEPT !.networkCidr = t])

SetSubnet ==
  \/ \E t \in NameTexts : Change([formSpec EXCEPT !.subnet = t])
  \/ \E t \in CidrTexts : Change([formSpec EXCEPT !.subnetCidr = t])
  \/ \E t \in AddressTexts : Change([formSpec EXCEPT !.gateway = t])

SetInstance ==
  \E i \in DOMAIN formSpec.instances :
    \/ \E t \in NameTexts : \/ Change([formSpec EXCEPT !.instances[i].name = t])
                            \/ Change([formSpec EXCEPT !.instances[i].image = t])
                            \/ Change([formSpec EXCEPT !.instances[i].flavor = t])
    \/ \E t \in KeyTexts : Change([formSpec EXCEPT !.instances[i].key = t])
    \/ \E n \in Counts : Change([formSpec EXCEPT !.instances[i].count = n])

AddInstance ==
  /\ Len(formSpec.instances) < 2
  /\ Change([formSpec EXCEPT !.instances = Append(@, NewInstance)])

\* Mutant: the last instance can be removed as well.
RemoveAnyInstance ==
  /\ \E i \in DOMAIN formSpec.instances : formSpec' = [formSpec EXCEPT !.instances = RemoveAt(@, i)]

RemoveInstance ==
  /\ Len(formSpec.instances) > 1
  /\ \E i \in DOMAIN formSpec.instances : Change([formSpec EXCEPT !.instances = RemoveAt(@, i)])

\* The text area's list without its blanks, or the boxes of the provider's groups.
SetGroups ==
  \/ \E groups \in SUBSET Groups : Change([formSpec EXCEPT !.groups = groups])

FormNext ==
  \/ SetField \/ SetNetwork \/ SetSubnet \/ SetGroups
  \/ SetInstance \/ AddInstance \/ RemoveInstance
-----------------------------------------------------------------------------
(* Properties *)

\* Texts on which the validators part, each in one direction.
Lenient(spec) ==
  \/ "lenient" \in {spec.networkCidr.form, spec.subnetCidr.form, spec.gateway.form}
  \/ \E i \in DOMAIN spec.instances : spec.instances[i].count % 2 = 1

BlankKey(spec) == \E i \in DOMAIN spec.instances : spec.instances[i].key = "blank"

\* The wizard, computing with 32-bit shifts, and the server, with netip, accept
\* the same specs.  The wizard lets more through for lenient texts and fractional
\* counts only, and stops more for a blank key name only.
ValidatorsAgree ==
  /\ WizardAccepts(formSpec) => ServerAccepts(formSpec) \/ Lenient(formSpec)
  /\ ServerAccepts(formSpec) => WizardAccepts(formSpec) \/ BlankKey(formSpec)

\* The addresses of a prefix.
Hosts(text) == {a \in Addresses : \A b \in Bit : b >= Width - text.bits => (b \in a <=> b \in text.addr)}

\* Whatever a spec's prefixes, when the server takes it all addresses of the
\* subnet are in the network and the gateway is in the subnet.
AcceptedNetworksNest ==
  ServerAccepts(formSpec) =>
    /\ Hosts(formSpec.subnetCidr) \subseteq Hosts(formSpec.networkCidr)
    /\ formSpec.gateway.form # "blank" => formSpec.gateway.addr \in Hosts(formSpec.subnetCidr)
=============================================================================
