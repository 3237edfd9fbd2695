---------------------------- MODULE WriteContract ----------------------------
(***************************************************************************)
(* What a caller of write_partition may rely on, whatever the cable, adb,  *)
(* the phone's shell and dd do: two reports tell the truth until the next  *)
(* command is started.  "untouched" (the command refused, was declined or  *)
(* stopped before dd) means the partition has not changed; "verified"      *)
(* means the partition begins with the image.  Every other report promises *)
(* nothing, and the partition may even change after it was given.          *)
(***************************************************************************)
EXTENDS Naturals, Sequences

CONSTANTS Block,      \* contents of one block of flash or of a file
          PartSize,   \* blocks of the partition
          Images      \* contents an image file can have

VARIABLES part,       \* contents of the partition
          base,       \* its contents when the current command was started
          goal,       \* the image of the current command
          report      \* what the current command has told its caller

vars == <<part, base, goal, report>>

Partition == [1..PartSize -> Block]
Reports == {"idle", "open", "untouched", "verified", "unsure"}

\* The partition begins with image i.
Holds(p, i) == \A k \in 1..Len(i) : k \in 1..PartSize /\ p[k] = i[k]

Init == /\ part \in Partition
        /\ base = part
        /\ goal = <<>>
        /\ report = "idle"

Open == /\ report # "open"
        /\ goal' \in Images
        /\ base' = part
        /\ report' = "open"
        /\ UNCHANGED part

Scribble == /\ report \in {"open", "unsure"}
            /\ part' \in Partition
            /\ UNCHANGED <<base, goal, report>>

Close == /\ report = "open"
         /\ \/ report' = "untouched" /\ part = base
            \/ report' = "verified" /\ Holds(part, goal)
            \/ report' = "unsure"
         /\ UNCHANGED <<part, base, goal>>

\* A command that is refused before it opens anything.
Refuse == /\ report # "open"
          /\ goal' \in Images
          /\ base' = part
          /\ report' \in {"untouched", "unsure"}
          /\ UNCHANGED part

Next == Open \/ Scribble \/ Close \/ Refuse

Spec == Init /\ [][Next]_vars
=============================================================================
