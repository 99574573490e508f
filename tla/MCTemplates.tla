---------------------------- MODULE MCTemplates ----------------------------
(* Templates with hashes and identifiers of a few bytes, for TLC *)
EXTENDS Templates

MCPrevs == {<<0, 4>>, <<7, 1>>}
(* Some number below 64 that depends on all that is hashed *)
MCHash(blob) == FoldLeft(LAMBDA v, d : (v * 27 + d) % 64, 0, blob.header \o blob.root \o blob.leaves)
MCInstanceId == <<5, 3>>
=============================================================================
