------------------------------ MODULE LocalFiles ------------------------------
(***************************************************************************)
(* What the program keeps in files: the snapshots of the audit, the        *)
(* installed packs, the manifests it watches and the palette made of them. *)
(* They share no variable: a behaviour is about one of them, and part says *)
(* which.                                                                  *)
(***************************************************************************)
EXTENDS SnapshotCache

CONSTANTS
  Surf, Canon, Stem, MaxOps,                   \* see PackInstall
  Files, Nested, Slashes, EventCap, MaxEdits,  \* see HotReload
  PackOrder, Rank, SlashNames, Homes,          \* see PackPalette
  Wizards, MaxFiles, Running

VARIABLES
  part,
  upstream, work, tree, meta, pins, held, duty, ops, consented, strayed, gone,
  texts, folder, edits, raw, pending, flying, events, shown, registry, pathTo, blind,
  overtaken, clash,
  user, dirs, pin

packVars == <<upstream, work, tree, meta, pins, held, duty, ops, consented, strayed, gone>>
reloadVars == <<texts, folder, edits, raw, pending, flying, events, shown, registry, pathTo,
                blind, overtaken, clash>>
paletteVars == <<user, dirs, pin>>

Packs == INSTANCE PackInstall WITH job <- duty
Reload == INSTANCE HotReload WITH disk <- texts, dir <- folder
Palette == INSTANCE PackPalette

ASSUME LocalAssumption ==
  Packs!PackAssumption /\ Reload!ReloadAssumption /\ Palette!PaletteAssumption

NoCache == Init /\ dir["path"] = None
NoPacks == /\ upstream = "off" /\ work = "off" /\ tree = "off" /\ meta = "off"
           /\ pins = "off" /\ held = "off" /\ duty = "off" /\ ops = "off"
           /\ consented = "off" /\ strayed = "off" /\ gone = "off"
NoReload == /\ texts = "off" /\ folder = "off" /\ edits = "off" /\ raw = "off"
            /\ pending = "off" /\ flying = "off" /\ events = "off" /\ shown = "off"
            /\ registry = "off" /\ pathTo = "off" /\ blind = "off"
            /\ overtaken = "off" /\ clash = "off"
NoPalette == user = "off" /\ dirs = "off" /\ pin = "off"

LocalInit ==
  \/ part = "cache" /\ Init /\ NoPacks /\ NoReload /\ NoPalette
  \/ part = "packs" /\ NoCache /\ Packs!Init /\ NoReload /\ NoPalette
  \/ part = "reload" /\ NoCache /\ NoPacks /\ Reload!Init /\ NoPalette
  \/ part = "palette" /\ NoCache /\ NoPacks /\ NoReload /\ Palette!Init

LocalNext ==
  /\ UNCHANGED <<part, paletteVars>>
  /\ \/ part = "cache" /\ Next /\ UNCHANGED <<packVars, reloadVars>>
     \/ part = "packs" /\ Packs!Next /\ UNCHANGED <<vars, reloadVars>>
     \/ part = "reload" /\ Reload!Next /\ UNCHANGED <<vars, packVars>>

LocalSpec ==
  LocalInit /\ [][LocalNext]_<<part, vars, packVars, reloadVars, paletteVars>>

\* See IdleCloneIsConsented of PackInstall (internal/pack/install/git.go:150-219).
IdleCloneIsConsented == part = "packs" => Packs!IdleCloneIsConsented

\* See RemovedIsGone of PackInstall (internal/pack/install/install.go:247-261).
RemovedIsGone == part = "packs" => Packs!RemovedIsGone

\* See PaletteCatchesUp and RegistryCatchesUp of HotReload
\* (internal/manifest/watcher.go:185-210 and 371-401).
ReadersCatchUp == part = "reload" => Reload!PaletteCatchesUp /\ Reload!RegistryCatchesUp

\* See PaletteIsRight of PackPalette (pack/palette.go:68-139).
PaletteIsRight == part = "palette" => Palette!PaletteIsRight
=============================================================================
