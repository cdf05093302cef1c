---------------------------- MODULE SettingsProofs ----------------------------
(***************************************************************************)
(* Settings, for every set of models and levels, and whatever the operator *)
(* configures and the agent offers: over any sequence of boots the panel   *)
(* Poe has answered with agrees with the defaults the relay applies.       *)
(***************************************************************************)
EXTENDS Settings, TLAPS

(* A panel that was made of this boot's defaults.                          *)
Agrees(s) ==
  /\ s \in Schemas
  /\ s.thinking = defaults.thinking
  /\ s.models # {} => s.default = defaults.model

(* The schema of the boot was made of its defaults, which its list offers. *)
SchemaOfBoot ==
  Agrees(schema) /\ schema.default \in schema.models \cup {NoModel}

(* What Poe fetched in this boot, and kept.                                *)
FetchedOfBoot == refetch \in {"kept", "written"} => Agrees(poe)

(* The hash file names what Poe has, unless the last fetch was not noted.  *)
HashBelief == ~loose => hashFile \in {None, poe}

SkippedByHash == refetch = "skipped" => hashFile = schema

IInv == TypeOK /\ SchemaOfBoot /\ FetchedOfBoot /\ HashBelief /\ SkippedByHash

(* Resolve yields defaults, and a default that the list offers, if any.    *)
LEMMA Resolved ==
  ASSUME NEW cfg \in Configs, NEW m \in Agents \cup {NoAgent}
  PROVE  /\ Resolve(cfg, m) \in [model : Models \cup {NoModel}, thinking : Levels]
         /\ Resolve(cfg, m).model \in m.list \cup {NoModel}
  BY SettingsConstants DEF Resolve, NoAgent

(* Build yields a schema that carries the defaults it was given.           *)
LEMMA Built ==
  ASSUME NEW m \in Agents \cup {NoAgent},
         NEW d \in [model : Models \cup {NoModel}, thinking : Levels]
  PROVE  /\ Build(m, d) \in Schemas
         /\ Build(m, d).models = m.list
         /\ Build(m, d).thinking = d.thinking
         /\ Build(m, d).default = IF m.list = {} THEN NoModel ELSE d.model
  BY SettingsConstants DEF Build, Schemas, NoAgent

LEMMA InitIInv == Init => IInv
<1> SUFFICES ASSUME Init PROVE IInv
  OBVIOUS
<1> USE DEF Init
<1>1. /\ defaults \in [model : Models \cup {NoModel}, thinking : Levels]
      /\ defaults.model \in NoAgent.list \cup {NoModel}
  BY Resolved
<1>2. /\ schema \in Schemas /\ schema.models = NoAgent.list
      /\ schema.thinking = defaults.thinking /\ schema.default = NoModel
  BY <1>1, Built DEF NoAgent
<1>3. TypeOK
  BY <1>1, <1>2 DEF TypeOK
<1>4. SchemaOfBoot
  BY <1>2 DEF SchemaOfBoot, Agrees, NoAgent
<1> QED
  BY <1>3, <1>4 DEF IInv, FetchedOfBoot, HashBelief, SkippedByHash

LEMMA NextIInv == IInv /\ [Next]_vars => IInv'
<1> SUFFICES ASSUME IInv, [Next]_vars PROVE IInv'
  OBVIOUS
<1> USE DEF IInv, TypeOK, SchemaOfBoot, FetchedOfBoot, HashBelief,
            SkippedByHash, Agrees
<1>1. CASE Boot
  <2> USE <1>1 DEF Boot, world
  <2>1. models' \in Agents \cup {NoAgent}
    OBVIOUS
  <2>2. /\ defaults' \in [model : Models \cup {NoModel}, thinking : Levels]
        /\ defaults'.model \in models'.list \cup {NoModel}
    BY <2>1, Resolved
  <2>3. /\ schema' \in Schemas /\ schema'.models = models'.list
        /\ schema'.thinking = defaults'.thinking
        /\ schema'.default = IF models'.list = {} THEN NoModel ELSE defaults'.model
    BY <2>1, <2>2, Built
  <2> QED
    BY <2>1, <2>2, <2>3
<1>2. CASE NewSession
  BY <1>2 DEF NewSession, world, boot
<1>3. CASE Stop
  BY <1>3 DEF Stop, world, boot
<1>4. CASE WorldChanges
  BY <1>4 DEF WorldChanges, boot
<1>5. CASE Compare
  BY <1>5 DEF Compare, world, boot
<1>6. CASE PoeFetches \/ PoeAsksAgain
  <2> USE <1>6 DEF PoeFetches, PoeAsksAgain, world, boot
  <2>1. /\ Served \in Schemas
        /\ Served.thinking = defaults.thinking
        /\ Served.models # {} => Served.default = defaults.model
    BY Built DEF Served
  <2> QED
    BY <2>1, NoneIsNoSchema
<1>7. CASE PostFails
  BY <1>7 DEF PostFails, Posted, world, boot
<1>8. CASE WriteHash
  BY <1>8 DEF WriteHash, Posted, world, boot
<1>9. CASE WriteFails
  BY <1>9 DEF WriteFails, Posted, world, boot
<1>10. CASE UNCHANGED vars
  BY <1>10 DEF vars
<1> QED
  BY <1>1, <1>2, <1>3, <1>4, <1>5, <1>6, <1>7, <1>8, <1>9, <1>10 DEF Next

LEMMA Invariance == Spec => []IInv
  BY InitIInv, NextIInv, PTL DEF Spec

(* Type correctness: what is resolved, built, stored and fetched are       *)
(* defaults and schemas.                                                   *)
THEOREM TypeCorrect == Spec => []TypeOK
<1>1. IInv => TypeOK
  BY DEF IInv
<1> QED
  BY Invariance, <1>1, PTL

(* A boot that leaves Poe alone finds Poe with the boot's own schema.      *)
THEOREM SkipsAreRight == Spec => []SkipIsRight
<1>1. IInv => SkipIsRight
  BY NoneIsNoSchema
  DEF IInv, TypeOK, HashBelief, SkippedByHash, SkipIsRight
<1> QED
  BY Invariance, <1>1, PTL

(* The panel's defaults are those the relay applies, once Poe has answered *)
(* the refetch with the controls.                                          *)
THEOREM PanelAgrees == Spec => []ShownIsApplied
<1>1. IInv => ShownIsApplied
  BY NoneIsNoSchema
  DEF IInv, TypeOK, SchemaOfBoot, FetchedOfBoot, HashBelief, SkippedByHash,
      Agrees, ShownIsApplied
<1> QED
  BY Invariance, <1>1, PTL
=============================================================================
