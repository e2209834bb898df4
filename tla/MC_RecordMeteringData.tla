------------------------ MODULE MC_RecordMeteringData ------------------------
(* Instantiation of RecordMeteringData for TLC. Meter names over the
   characters a, b, c, in string order: "a" (instance), "ab" (matched by
   the wildcard pattern "a*" of a disk definition), "b" (swift_account),
   "c" (an ignored definition). Resource 2 is also the Gnocchi project. *)
EXTENDS RecordMeteringData

CONSTANTS t1, t2, v1, v2

Names == << <<"a">>, <<"a", "b">>, <<"b">>, <<"c">> >>

(* YAML values of the mandatory fields. *)
Str(x) == [kind |-> "str", val |-> x]
List(xs) == [kind |-> "list", val |-> xs]

(* gnocchi_resources.yaml: the instance definition names its policy, the
   disk one takes the dispatcher default, the swift one sets it to null. *)
DefinitionFile ==
    [resources |->
       << [resource_type |-> Str("instance"), metrics |-> List(<< Str(<<"a">>) >>),
           archive_policy |-> "low", attributes |-> {"host", "flavor"}],
          [resource_type |-> Str("disk"), metrics |-> List(<< Str(<<"a", Star>>) >>),
           attributes |-> {"host"}],
          [resource_type |-> Str("swift_account"), metrics |-> List(<< Str(<<"b">>) >>),
           archive_policy |-> NoPolicy],
          [resource_type |-> Str("ignored"), metrics |-> List(<< Str(<<"c">>) >>),
           ignore |-> TRUE, attributes |-> {"host"}] >>]

Definitions == LoadResourcesDefinitions(DefinitionFile).defs

Attrs == {"host", "flavor"}

(* A sample: resource, meter, project, and the host and flavor its
   attribute definitions parse out of it. *)
Sample(r, k, p, h, f) ==
    [res |-> r, meter |-> k, project |-> p, attrs |-> [host |-> h, flavor |-> f]]
sA  == Sample(1, 1, 1, v1, v1)
sA2 == Sample(1, 1, 1, v2, Null)     \* a later sample without a flavor
sB  == Sample(1, 2, 1, Null, v2)     \* "ab" (disk) declares host only
sP  == Sample(1, 1, 2, v2, v2)       \* of the Gnocchi project
sR2 == Sample(2, 1, 1, v1, v2)       \* resource 2, not a swift meter
sG  == Sample(2, 3, 1, v2, v1)       \* the Gnocchi project's swift account
sC  == Sample(1, 4, 1, v1, v1)       \* ignored meter

(* Interleaved meters of one resource, and a batch mixing Gnocchi's own
   activity with other samples. *)
MixedBatches == { <<sA, sB, sA2>>, <<sP, sR2, sG, sC>> }

=============================================================================
