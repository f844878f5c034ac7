----------------------------- MODULE PolicyRules -----------------------------
(***************************************************************************)
(* What a compiled bundle says of one role and one object type, and the    *)
(* decisions drawn from it: go/policy/model.go, engine.go, fls.go, abac.go *)
(*                                                                         *)
(*   rule     [grants     : SUBSET Verbs,                                  *)
(*             fields     : field name -> [read, write, mask],             *)
(*             conditions : set of [field, op, value]]                     *)
(*   bundle   [version, system, tenant, capabilities, autonomy]            *)
(*   identity [actor, agent, tenant, user, role]                           *)
(*                                                                         *)
(* Go's maps are functions on the keys present.  A condition's Value, read *)
(* as a comma-separated list, is the set of its trimmed members; the order *)
(* of conditions and of fields reaches nobody.  A Decision's Reason is     *)
(* left out: no caller may parse it.                                       *)
(***************************************************************************)
EXTENDS Integers, TLC

Verbs == {"create", "read", "update", "delete", "view_all", "modify_all"}

NoKeys == [k \in {} |-> k]

\* The value of a Go map at a key, or the zero value of its element type.
Lookup(map, key, zero) == IF key \in DOMAIN map THEN map[key] ELSE zero

NoRule == [grants |-> {}, fields |-> NoKeys, conditions |-> {}]

\* CompiledBundle{}, which Current returns while nothing is loaded.
ZeroBundle == [version |-> 0, system |-> NoKeys, tenant |-> NoKeys,
               capabilities |-> NoKeys, autonomy |-> NoKeys]

------------------------------------------------------------------------------
(* RuleFor *)

\* Mutant: a tenant's conditions replace the system's.
mergeRuleReplacing(base, override) ==
    [grants     |-> base.grants \cup override.grants,
     fields     |-> override.fields @@ base.fields,
     conditions |-> IF override.conditions = {} THEN base.conditions
                    ELSE override.conditions]

\* Grants are ORed, the override's fields win, all the conditions apply.
mergeRule(base, override) ==
    [grants     |-> base.grants \cup override.grants,
     fields     |-> override.fields @@ base.fields,
     conditions |-> base.conditions \cup override.conditions]

SystemRule(bundle, role, object) == Lookup(bundle.system, <<role, object>>, NoRule)

TenantRule(bundle, tenant, role, object) ==
    Lookup(Lookup(bundle.tenant, tenant, NoKeys), <<role, object>>, NoRule)

\* An absent side is NoRule, with which mergeRule changes nothing.
RuleFor(bundle, id, object) ==
    mergeRule(SystemRule(bundle, id.role, object),
              TenantRule(bundle, id.tenant, id.role, object))

hasRule(rule) ==
    rule.grants # {} \/ DOMAIN rule.fields # {} \/ rule.conditions # {}

------------------------------------------------------------------------------
(* Field-level security *)

\* Mutant: the default wins over a field's own entry.
fieldRulesForDefaultFirst(rule, field) ==
    LET keys == IF "*" \in DOMAIN rule.fields THEN {"*"} ELSE {field}
    IN  {rule.fields[k] : k \in keys \cap DOMAIN rule.fields}

\* The entries that govern a field: its own, or else the default's, if any.
fieldRulesFor(rule, field) ==
    LET keys == IF field \in DOMAIN rule.fields THEN {field} ELSE {"*"}
    IN  {rule.fields[k] : k \in keys \cap DOMAIN rule.fields}

\* Every verb but "read" needs the field to be writable.
FieldPermits(rule, verb, field) ==
    \A entry \in fieldRulesFor(rule, field) :
        IF verb = "read" THEN entry.read ELSE entry.write

\* The default is not enumerated: callers apply it to the other fields.
VisibleFields(rule) == {f \in DOMAIN rule.fields \ {"*"} : rule.fields[f].read}

MaskedFields(rule) ==
    LET masked == {f \in VisibleFields(rule) : rule.fields[f].mask # ""}
    IN  [f \in masked |-> rule.fields[f].mask]

------------------------------------------------------------------------------
(* Can: "" stands for the whole object.  A refused whole-object read still *)
(* lists the fields, because they are filled in after the grant.           *)

Answer(allow) == [allow |-> allow, visible |-> {}, masked |-> NoKeys]

Can(bundle, id, verb, object, field) ==
    LET rule  == RuleFor(bundle, id, object)
        grant == verb \in rule.grants   \* no rule grants an unknown verb
    IN  IF hasRule(rule) /\ field = "" /\ verb = "read"
        THEN [allow   |-> grant,
              visible |-> VisibleFields(rule),
              masked  |-> MaskedFields(rule)]
        ELSE Answer(grant /\ (field # "" => FieldPermits(rule, verb, field)))

------------------------------------------------------------------------------
(* Record conditions *)

\* $user_id is replaced before $tenant_id; other text stands for itself.
substitute(text, id) ==
    LET withUser == IF text = "$user_id" THEN id.user ELSE text
    IN  IF withUser = "$tenant_id" THEN id.tenant ELSE withUser

\* A record is a function on its fields; a missing one reads as "".  The
\* text of a record's field has no commas, so a list never equals it.
evalCondition(c, id, record) ==
    LET got   == Lookup(record, c.field, "")
        equal == \E text \in c.value : c.value = {text} /\ substitute(text, id) = got
    IN  \/ c.op = "==" /\ equal
        \/ c.op = "!=" /\ ~equal
        \/ c.op = "in" /\ \E text \in c.value : substitute(text, id) = got

InScope(rule, id, record) ==
    \A c \in rule.conditions : evalCondition(c, id, record)

==============================================================================
