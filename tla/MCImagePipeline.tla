--------------------------- MODULE MCImagePipeline ---------------------------
(* Two references with one last path element, and so one archive file; configs that  *)
(* are accepted, rejected before the store is opened, and rejected after that, and    *)
(* one without a reference                                                            *)
EXTENDS ImagePipeline, TLC

CONSTANTS r1, r2, f1

MCSymmetry == Permutations(Callers)

MCArchive == (r1 :> f1) @@ (r2 :> f1)

MCTrim(s) == IF s = " " THEN "" ELSE s

MCCacheRefs == {"cache"}

Accepted ==
  [outputRef |-> r1, context |-> "", runtime |-> "", cacheRef |-> "cache",
   isolation |-> "oci", storageMode |-> "vfs", runRoot |-> " ", graphRoot |-> "",
   mountProgram |-> "", certDir |-> "", insecure |-> FALSE]

MCConfigs ==
  {Accepted, [Accepted EXCEPT !.outputRef = r2], [Accepted EXCEPT !.outputRef = " "],
   [Accepted EXCEPT !.storageMode = ""], [Accepted EXCEPT !.cacheRef = "Cache"]}
=============================================================================
