---------------------------- MODULE MCServices ----------------------------
(* Two threads and two jtis; two tasks and two queries; rankings of no     *)
(* candidate or two, with populations unknown, equal and negative, on both *)
(* sides of 0.6.                                                           *)
EXTENDS Services, Integers

MCRanking == {<<>>, <<3, 2>>, <<1, 1>>, <<1, Unknown>>, <<-2, -1>>}
=============================================================================
