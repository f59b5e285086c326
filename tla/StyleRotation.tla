---------------------------- MODULE StyleRotation ----------------------------
(***************************************************************************)
(* The templates of a published batch policy in use: how many images of a  *)
(* batch go to each style, and each style's cursor, which accepted batches *)
(* and replenishments advance at the same time.                            *)
(*                                                                         *)
(* An accept reads the cursors outside a transaction; its flush begins the *)
(* transaction that the route commits.                                     *)
(***************************************************************************)
EXTENDS Integers, FiniteSetsExt

CONSTANTS
  Styles,       \* by their order in the policy
  MaxCount,     \* bound: generation_count of a style
  MaxTemplates, \* bound: complete templates of a style
  Batches       \* accepts, and replenishments of a style

ASSUME RotationAssumption ==
  /\ IsFiniteSet(Styles) /\ Styles \subseteq Nat
  /\ MaxCount \in Nat \ {0} /\ MaxTemplates \in Nat \ {0}

VARIABLES
  count,      \* generation_count of the styles
  templates,  \* how many complete templates they have
  cursor,     \* next_template_offset, of the styles' cursor rows
  batch,      \* what an accept has read and is to write
  uses,       \* history: by style and template, the committed images above those
              \* of the style's least used template; not kept once skewed
  skewed      \* history: an accept read a cursor another was about to move, or
              \* moved one for a batch that was refused

rotationVars == <<count, templates, cursor, batch, uses, skewed>>

-----------------------------------------------------------------------------
(* _style_allocation                                                       *)

Enabled == {s \in Styles : count[s] > 0 /\ templates[s] > 0}
Count(styles) == SumFunctionOnSet(count, styles)

\* What is left of the batch when every selected style has one image, in shares
\* of count[s] parts of Count(selected).
Spare(selected) == Count(Enabled) - Cardinality(selected)
Share(selected, s) == (Spare(selected) * count[s]) \div Count(selected)
Remainder(selected, s) == (Spare(selected) * count[s]) % Count(selected)

\* Mutant: what the shares leave over goes to no style.
AllocationRoundedDown(selected) ==
  [s \in Styles |->
     IF s \notin Enabled THEN 0
     ELSE IF selected = {} THEN count[s]
     ELSE IF s \notin selected THEN 0
     ELSE 1 + Share(selected, s)]

\* Stable largest remainder; without a selection, the styles' own counts.
Allocation(selected) ==
  LET extra == Spare(selected) - SumFunctionOnSet([s \in selected |-> Share(selected, s)], selected)
      Before(s) == {t \in selected : \/ Remainder(selected, t) > Remainder(selected, s)
                                     \/ Remainder(selected, t) = Remainder(selected, s) /\ t < s}
  IN  [s \in Styles |->
         IF s \notin Enabled THEN 0
         ELSE IF selected = {} THEN count[s]
         ELSE IF s \notin selected THEN 0
         ELSE 1 + Share(selected, s) + (IF Cardinality(Before(s)) < extra THEN 1 ELSE 0)]

-----------------------------------------------------------------------------

\* A request that has read the policy: the styles selected, its images by style,
\* the cursors it read.
Batch == [pc : {"none", "read", "flushed"}, selected : SUBSET Styles,
          images : [Styles -> Nat], read : [Styles -> Nat]]
NoBatch == [pc |-> "none", selected |-> {}, images |-> [s \in Styles |-> 0],
            read |-> [s \in Styles |-> 0]]

Templates == 0..(MaxTemplates - 1)

RotationInit ==
  /\ count \in [Styles -> 0..MaxCount]
  /\ templates \in [Styles -> 1..MaxTemplates]
  /\ cursor = [s \in Styles |-> 0]
  /\ batch = [b \in Batches |-> NoBatch]
  /\ uses = [s \in Styles |-> [t \in Templates |-> 0]]
  /\ skewed = FALSE

Reads(b, selected, images) ==
  /\ batch[b].pc = "none"
  /\ batch' = [batch EXCEPT ![b] = [pc |-> "read", selected |-> selected,
                                    images |-> images, read |-> cursor]]
  /\ UNCHANGED <<count, templates, cursor, uses, skewed>>

\* BatchGenerationService.accept, up to the cursors; a style that is not in the
\* catalog is refused.
AcceptBatch(b) ==
  \E selected \in SUBSET Enabled :
    /\ Enabled # {}
    /\ Cardinality(selected) <= Count(Enabled)
    /\ Reads(b, selected, Allocation(selected))

\* allocate_replenishment_combination: one image of one style.
Replenish(b) ==
  \E s \in Enabled : Reads(b, {}, [t \in Styles |-> IF t = s THEN 1 ELSE 0])

\* The cursor after the images of the request.
Moved(b, s) == (batch[b].read[s] + batch[b].images[s]) % templates[s]

\* Mutant: the cursor moves by one, however many images were taken.
FlushByOne(b) ==
  /\ batch[b].pc = "read"
  /\ \A other \in Batches : batch[other].pc # "flushed"
  /\ cursor' = [s \in Styles |->
       IF batch[b].images[s] = 0 THEN cursor[s]
       ELSE (batch[b].read[s] + 1) % templates[s]]
  /\ skewed' = (skewed \/ \E s \in Styles : /\ batch[b].images[s] > 0
                                           /\ batch[b].read[s] # cursor[s])
  /\ batch' = [batch EXCEPT ![b].pc = "flushed"]
  /\ UNCHANGED <<count, templates, uses>>

\* rotate_complete_template_combinations and the flush; one transaction writes at
\* a time, and an offset that is the one it read is not written.
Flush(b) ==
  /\ batch[b].pc = "read"
  /\ \A other \in Batches : batch[other].pc # "flushed"
  /\ cursor' = [s \in Styles |->
       IF Moved(b, s) = batch[b].read[s] THEN cursor[s] ELSE Moved(b, s)]
  /\ skewed' = (skewed \/ \E s \in Styles : /\ batch[b].images[s] > 0
                                           /\ batch[b].read[s] # cursor[s])
  /\ batch' = [batch EXCEPT ![b].pc = "flushed"]
  /\ UNCHANGED <<count, templates, uses>>

\* The offsets at which image i of a style takes template t.
Takes(b, s, t) ==
  Cardinality({i \in 0..(batch[b].images[s] - 1) : (batch[b].read[s] + i) % templates[s] = t})

\* How far each template of a style is ahead of the least used one.
Ahead(s, total) ==
  LET own == 0..(templates[s] - 1)
  IN  [t \in Templates |-> IF t \in own THEN total[t] - Min({total[u] : u \in own}) ELSE 0]

Commit(b) ==
  /\ batch[b].pc = "flushed"
  /\ uses' = IF skewed THEN uses
             ELSE [s \in Styles |-> Ahead(s, [t \in Templates |-> uses[s][t] + Takes(b, s, t)])]
  /\ batch' = [batch EXCEPT ![b] = NoBatch]
  /\ UNCHANGED <<count, templates, cursor, skewed>>

\* The references exceed what the model takes: the customer is answered with an
\* error and get_db commits, the moved cursors with it.
Refuse(b) ==
  /\ batch[b].pc = "flushed"
  /\ batch' = [batch EXCEPT ![b] = NoBatch]
  /\ skewed' = TRUE
  /\ UNCHANGED <<count, templates, cursor, uses>>

RotationNext ==
  \E b \in Batches : AcceptBatch(b) \/ Replenish(b) \/ Flush(b) \/ Commit(b) \/ Refuse(b)

RotationSpec == RotationInit /\ [][RotationNext]_rotationVars

-----------------------------------------------------------------------------
(* Properties.                                                             *)

\* The types of every variable; a cursor points at a template.
RotationTypeOK ==
  /\ count \in [Styles -> 0..MaxCount]
  /\ templates \in [Styles -> 1..MaxTemplates]
  /\ cursor \in [Styles -> Templates] /\ \A s \in Styles : cursor[s] < templates[s]
  /\ batch \in [Batches -> Batch]
  /\ uses \in [Styles -> [Templates -> Nat]]
  /\ skewed \in BOOLEAN

\* Unless two requests overlapped or one was refused, the templates of a style
\* take turns, through batches of any size and their replenishments: none is used
\* twice more than another.
TemplatesTakeTurns ==
  ~skewed => \A s \in Styles : \A t, u \in 0..(templates[s] - 1) : uses[s][t] <= uses[s][u] + 1

\* _style_allocation gives every image of the batch to a selected style, every
\* such style its first, and of the rest its share up to one image.
AllocationFair ==
  \A b \in Batches : batch[b].pc = "read" /\ batch[b].selected # {} =>
    LET selected == batch[b].selected
        images == batch[b].images
    IN  /\ SumFunctionOnSet(images, Styles) = Count(Enabled)
        /\ \A s \in Styles : images[s] >= 1 <=> s \in selected
        /\ \A s \in selected :
             LET off == (images[s] - 1) * Count(selected) - Spare(selected) * count[s]
             IN  -Count(selected) < off /\ off < Count(selected)

=============================================================================
