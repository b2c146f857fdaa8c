---------------------------- MODULE MCDownloader ----------------------------
(* Small instances of Downloader for TLC. *)
EXTENDS Downloader

CONSTANTS c1, c2

\* An empty body, bodies of one and two bytes, the second of which can be lost; and
\* with three values of a DWORD one that leaves nothing and one that leaves a byte.
SmallResponses == {<<>>, <<c1>>, <<c1, c2>>, <<c1, c1, c2>>, <<c2, c1, c1, c1>>}
=============================================================================
