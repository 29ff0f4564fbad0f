------------------------------ MODULE MCCorpus ------------------------------
(***************************************************************************)
(* Small instances of Corpus for TLC.  fileA is read well by both parsers, *)
(* fileB only by p2: p1 finds no sections.  torn is a file no parser can   *)
(* open.  m1 and m3 review fileA and fileB at one url, m2 reviews fileA at *)
(* another.                                                                *)
(***************************************************************************)
EXTENDS Corpus, TLC

CONSTANTS law, rule, url1, url2, fileA, fileB, torn, p1, p2, m1, m2, m3, m4, m5, m6, amends, implements,
          o1, o2

MCVerdict ==
  LET all ==
  fileA :> (p1 :> "good" @@ p2 :> "good") @@ fileB :> (p1 :> "poor" @@ p2 :> "good")
  @@ torn :> (p1 :> "unreadable" @@ p2 :> "unreadable")
  IN  [f \in Files |-> [p \in Parsers |-> all[f][p]]]

For(d, u, f) == [document |-> d, url |-> u, file |-> f]

MCEntries ==
  m1 :> <<For(law, url1, fileA)>> @@ m2 :> <<For(law, url2, fileA)>>
  @@ m3 :> <<For(law, url1, fileB), For(rule, url2, torn)>>
  @@ m4 :> <<For(rule, url2, fileA), For(law, url1, fileA)>>
  @@ m5 :> <<For(law, url1, fileA), For(rule, url2, fileA)>>
  @@ m6 :> <<For(law, url1, fileB)>>

MCRelationsOf ==
  LET of(forLaw, forRule) == law :> forLaw @@ rule :> forRule
      all == m1 :> of({amends}, {}) @@ m2 :> of({amends, implements}, {})
             @@ m3 :> of({implements}, {}) @@ m4 :> of({amends}, {implements}) @@ m5 :> of({implements}, {amends}) @@ m6 :> of({implements}, {})
  IN  [m \in Manifests |-> all[m]]


(* Operators are alike: no definition tells one from the other. *)
AlikeOperators == Permutations(Operators)
=============================================================================
