------------------------------ MODULE GoldenScan ------------------------------
(***************************************************************************)
(* Which golden image is the newest, and is it bootable.  Seven places of  *)
(* the source ask, each with a scan of images/ of its own: the guard of    *)
(* the vm settings, the boot's preflight, the session service, vm list and *)
(* gc, the rebuild warning and the forms, and doctor.  They order by the   *)
(* manifest's builtAt, and by the stamp in the directory's name where the  *)
(* manifest cannot be read; a newest image without a good manifest is not  *)
(* skipped for an older one.                                               *)
(*                                                                         *)
(* A directory is named by the second it was minted in (the ISO's version, *)
(* the rest of the name, is one string per release).  Its manifest is      *)
(* absent, torn or whole.                                                  *)
(***************************************************************************)
EXTENDS Integers, Sequences, FiniteSets

CONSTANT Seconds   \* the seconds a snapshot may be taken in

ASSUME GoldenAssumption == Seconds \subseteq Nat \ {0}

VARIABLES goldens,  \* by id, the state of the manifest
          sealing   \* the image a running vm snapshot has promoted, 0 for none

goldenVars == <<goldens, sealing>>

Manifests == {"none", "torn", "whole"}

GoldensInit == goldens = [g \in {} |-> "none"] /\ sealing = 0

\* mkdir and the two moves; a second that has an image is refused.  The clock
\* may have been set back.
Promote(g) ==
  /\ sealing = 0 /\ g \notin DOMAIN goldens
  /\ goldens' = [h \in DOMAIN goldens \cup {g} |-> IF h = g THEN "none" ELSE goldens[h]]
  /\ sealing' = g

\* The manifest is written last, in place.
Seal ==
  /\ sealing \in DOMAIN goldens
  /\ goldens' = [goldens EXCEPT ![sealing] = "whole"]
  /\ sealing' = 0

\* The snapshot dies before the manifest, or inside its write; or its image is
\* no longer there and the write throws.
SnapshotDies ==
  /\ sealing # 0
  /\ IF sealing \in DOMAIN goldens
     THEN \E left \in {"none", "torn"} : goldens' = [goldens EXCEPT ![sealing] = left]
     ELSE UNCHANGED goldens
  /\ sealing' = 0

-----------------------------------------------------------------------------
(* The scans.                                                              *)

\* readManifest: a manifest the validation accepts.
Readable(g) == goldens[g] = "whole"

\* The digits of builtAt go on where those of the stamp end (milliseconds).
Stamp(g)   == <<g, 0>>
BuiltAt(g) == <<g, 1>>
Before(k, l) == k[1] < l[1] \/ (k[1] = l[1] /\ k[2] < l[2])

Newest(Key(_)) ==
  CHOOSE g \in DOMAIN goldens : \A h \in DOMAIN goldens \ {g} :
    Before(Key(h), Key(g)) \/ (Key(h) = Key(g) /\ h < g)

SectionsKey(g)  == IF Readable(g) THEN BuiltAt(g) ELSE Stamp(g)
PreflightKey(g) == IF Readable(g) THEN BuiltAt(g) ELSE Stamp(g)
ServiceKey(g)   == IF Readable(g) THEN BuiltAt(g) ELSE Stamp(g)
ManageKey(g)    == IF Readable(g) THEN BuiltAt(g) ELSE Stamp(g)
\* Any JSON that has a builtAt will do here.
InstallKey(g)   == IF goldens[g] = "whole" THEN BuiltAt(g) ELSE Stamp(g)

GoldenExists         == DOMAIN goldens # {}
GoldenManifestExists == GoldenExists /\ Readable(Newest(SectionsKey))
PreflightGolden      == GoldenExists /\ Readable(Newest(PreflightKey))
LocatesGolden        == GoldenExists /\ Readable(Newest(ServiceKey))
ListedNewest         == GoldenExists /\ Readable(Newest(ManageKey))
NewestGoldenId       == IF GoldenExists THEN Newest(InstallKey) ELSE 0

\* vm gc --yes: the newest stays, and what the keep count or an overlay protects.
Collect ==
  /\ GoldenExists
  /\ \E gone \in SUBSET (DOMAIN goldens \ {Newest(ManageKey)}) :
       gone # {} /\ goldens' = [g \in DOMAIN goldens \ gone |-> goldens[g]]
  /\ UNCHANGED sealing

GoldensNext ==
  \/ \E g \in Seconds : Promote(g)
  \/ Seal \/ SnapshotDies \/ Collect

-----------------------------------------------------------------------------
(* However snapshots died and in whatever state they left their images,    *)
(* all the scans answer alike: a mode the settings' guard lets pass is one *)
(* whose boot finds its image, vm list and doctor speak of the image that  *)
(* boots, and the user and flavour the forms take from "the newest" are    *)
(* those of that image.  About goldenManifestExists, newestGolden,         *)
(* locateGolden, listGoldenDirs and newestGoldenId, five restatements of   *)
(* one order.                                                              *)
ScansAgree ==
  /\ GoldenManifestExists = PreflightGolden
  /\ PreflightGolden = LocatesGolden
  /\ PreflightGolden = ListedNewest
  /\ GoldenExists => NewestGoldenId = Newest(ServiceKey)
=============================================================================
