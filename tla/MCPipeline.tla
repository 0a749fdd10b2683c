----------------------------- MODULE MCPipeline -----------------------------
(* A file that uses another; and two files that use the same one.           *)
EXTENDS PipelineMailbox

CONSTANTS main, other, lib, t0, t1, bad, big

MCUri == {main, lib}
MCImports == [u \in MCUri |-> IF u = lib THEN {} ELSE {lib}]

MCSharingUri == {main, other, lib}
MCSharingImports == [u \in MCSharingUri |-> IF u = lib THEN {} ELSE {lib}]
=============================================================================
