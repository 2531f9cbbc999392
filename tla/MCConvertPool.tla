---------------------------- MODULE MCConvertPool ----------------------------
(***************************************************************************)
(* Instances of ConvertPool: chunks of a few titles.                       *)
(***************************************************************************)
EXTENDS ConvertPool

\* As the NVD and JVN feeds: one CPE per title, here one of them under two titles.
SingleCpes == << <<"a">>, <<"b">>, <<"a">>, <<"c">> >>

\* As the Vuls annotations may be: titles with several CPEs, one of them malformed.
SharedTitles == << <<"a", "b">>, <<"x">>, <<"c", "a">> >>

BothChunks == {SingleCpes, SharedTitles}
SharedChunk == {SharedTitles}
=============================================================================
