--------------------------- MODULE ResourceDefinition ---------------------------
(***************************************************************************)
(* The resource definitions of the Gnocchi dispatcher                      *)
(* (ResourcesDefinition in src/ceilometer/dispatcher/gnocchi.py): an       *)
(* ordered list of definitions, each with a resource type, a list of       *)
(* metric name patterns matched with fnmatch, an optional archive policy   *)
(* and an ignore flag. The operators are pure: the dispatcher asks which   *)
(* definition a meter name falls under and which metric map it declares.   *)
(*                                                                         *)
(* A name or pattern is a sequence of characters. Patterns use "*" and     *)
(* "?"; fnmatch's bracket classes are left out.                            *)
(***************************************************************************)
EXTENDS Naturals, Sequences, SequencesExt

CONSTANTS
    Defs,           \* the loaded definitions, in file order: records
                    \*   [type, metrics (a sequence of patterns), ignore, policy,
                    \*    attributes (the names of its attribute definitions)]
    DefaultPolicy,  \* conf.dispatcher_gnocchi.archive_policy
    NoPolicy,       \* an archive policy that is None (metrics() maps it to {})
    Null            \* an attribute definition finds nothing in the sample

Star == "*"
AnyChar == "?"

(* fnmatch.fnmatch(name, pattern): the whole name matches the pattern;
   "*" matches any run of characters, the empty one included, "?" one. *)
RECURSIVE Fnmatch(_, _)
Fnmatch(n, p) ==
    IF p = <<>> THEN n = <<>>
    ELSE IF Head(p) = Star
         THEN Fnmatch(n, Tail(p)) \/ (n # <<>> /\ Fnmatch(Tail(n), p))
         ELSE /\ n # <<>>
              /\ Head(p) \in {AnyChar, Head(n)}
              /\ Fnmatch(Tail(n), Tail(p))

(* ResourcesDefinition.match: some pattern of the definition matches. *)
Match(rd, name) == \E i \in DOMAIN rd.metrics : Fnmatch(name, rd.metrics[i])

(* _get_resource_definition: the index of the first definition that
   matches, 0 (None) when none does. *)
GetResourceDefinition(name) == SelectInSeq(Defs, LAMBDA rd : Match(rd, name))

(* ResourcesDefinition.metrics(): one entry per declared pattern, keyed by
   the pattern itself, with cfg.get('archive_policy', default), resolved
   when the definition is built (ToDef): a policy name, or NoPolicy for
   the empty map {} when that is None. *)
Metrics(rd) == [t \in ToSet(rd.metrics) |-> rd.policy]

-----------------------------------------------------------------------------
(* Loading (ResourcesDefinition.__init__ and _load_resources_definitions).
   An entry of the YAML "resources" list is a mapping: a function from the
   keys it has to their values. The two mandatory fields carry a YAML value
   tagged with its Python type ([kind, val], kind "str", "list", "int" or
   "null"), the elements of the metrics list too; ignore is a boolean,
   archive_policy a policy name or NoPolicy (null), attributes the set of
   the names its mapping defines. *)

(* dict.get(key, default). *)
CfgGet(c, f, d) == IF f \in DOMAIN c THEN c[f] ELSE d

(* ResourcesDefinition.MANDATORY_FIELDS: field -> the Python type
   isinstance requires (six.string_types, list). *)
MandatoryFields == [resource_type |-> "str", metrics |-> "list"]

(* The checks of ResourcesDefinition.__init__: every mandatory field is
   present and an instance of its type; anything else raises
   DefinitionException. The elements of the metrics list are not checked. *)
Valid(c) ==
    \A f \in DOMAIN MandatoryFields : f \in DOMAIN c /\ c[f].kind = MandatoryFields[f]

(* The definition an accepted entry becomes: its cfg as the methods read
   it, the archive policy resolved as metrics() does with
   cfg.get('archive_policy', default) (both are fixed once loaded), the
   attribute names of its Definition objects. *)
ToDef(c) ==
    [type       |-> c.resource_type.val,
     metrics    |-> [i \in DOMAIN c.metrics.val |-> c.metrics.val[i].val],
     ignore     |-> CfgGet(c, "ignore", FALSE),
     policy     |-> CfgGet(c, "archive_policy", DefaultPolicy),
     attributes |-> CfgGet(c, "attributes", {})]

(* What loading yields: ok and the definitions in file order, or not ok
   when a DefinitionException escapes (the dispatcher is not built). *)
Loaded(defs) == [ok |-> TRUE, defs |-> defs]
LoadFailed == [ok |-> FALSE, defs |-> <<>>]

(* _load_resources_definitions: one ResourcesDefinition per entry of
   data.get('resources', []), built left to right by the list
   comprehension; the first invalid entry raises and nothing is kept. *)
LoadResourcesDefinitions(yaml) ==
    FoldLeft(LAMBDA acc, c : IF acc.ok /\ Valid(c)
                               THEN Loaded(Append(acc.defs, ToDef(c)))
                               ELSE LoadFailed,
             Loaded(<<>>), CfgGet(yaml, "resources", <<>>))

-----------------------------------------------------------------------------
(* Mutation: attributes() keeps the attributes whose value is None. *)
AttributesKeepNone(rd, parsed) == [a \in rd.attributes |-> parsed[a]]

(* ResourcesDefinition.attributes(sample): one entry per attribute
   definition of rd whose parse of the sample is not None. A sample's
   parse results are given as a function from attribute names to values
   or Null; the jsonpath evaluation itself is not modelled. *)
Attributes(rd, parsed) == [a \in {x \in rd.attributes : parsed[x] # Null} |-> parsed[a]]

(* _is_swift_account_sample: some swift_account definition matches. *)
IsSwiftAccountSample(name) ==
    \E i \in DOMAIN Defs : Defs[i].type = "swift_account" /\ Match(Defs[i], name)

=============================================================================
