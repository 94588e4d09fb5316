-------------------------------- MODULE Variants --------------------------------
(***************************************************************************)
(* Which maker's DGX Spark a node is, by what its firmware says            *)
(* (packages/core/src/variants.ts).  A text is known by the patterns it    *)
(* includes, in lower case.                                                *)
(***************************************************************************)
EXTENDS Sequences, FiniteSets, FiniteSetsExt

CONSTANT Includes(_, _) \* text includes pattern; a text that is not there includes none

Variant(id, vendors, products) == [id |-> id, vendorPatterns |-> vendors, productPatterns |-> products]
SPARK_VARIANTS == <<
  Variant("nvidia", {"nvidia"}, {"dgx spark", "gb10"}),
  Variant("asus", {"asus", "asustek"}, {"gx10", "ascent"}),
  Variant("dell", {"dell"}, {"pro max", "gb10"}),
  Variant("hp", {"hp", "hewlett", "hewlett-packard"}, {"zgx", "nano g1n"}),
  Variant("lenovo", {"lenovo"}, {"pgx", "thinkstation"}),
  Variant("msi", {"msi", "micro-star"}, {"edgexpert", "ms-c931"}),
  Variant("gigabyte", {"gigabyte", "giga-byte"}, {"ai top atom", "ai-top", "atom"}),
  Variant("acer", {"acer"}, {"gn100", "veriton"}) >>

IncludesOne(texts, patterns) == \E t \in texts, p \in patterns : Includes(t, p)

\* Whoever built it.
IsDgxSpark(dmi) ==
  \/ Includes(dmi.family, "dgx spark")
  \/ IncludesOne({dmi.product, dmi.version, dmi.board}, {"dgx", "gb10"})

\* The first of the table by its maker, or else by its product.
DetectVariant(dmi) ==
  LET vendors == {i \in DOMAIN SPARK_VARIANTS : IncludesOne({dmi.vendor}, SPARK_VARIANTS[i].vendorPatterns)}
      products == {i \in DOMAIN SPARK_VARIANTS :
                     IncludesOne({dmi.product, dmi.version, dmi.board}, SPARK_VARIANTS[i].productPatterns)}
  IN IF vendors # {} THEN SPARK_VARIANTS[Min(vendors)].id
     ELSE IF products # {} THEN SPARK_VARIANTS[Min(products)].id ELSE "unknown"
=================================================================================
