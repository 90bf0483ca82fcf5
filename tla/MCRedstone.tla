------------------------------- MODULE MCRedstone -------------------------------
EXTENDS Redstone

Alone(cells, on) == [cells |-> cells, on |-> on, served |-> FALSE]
Served(cells) == [cells |-> cells, on |-> {}, served |-> TRUE]

(* A wired dispenser, off and on; repeaters behind a block, off and on; a   *)
(* button and a plate; a torch; a comparator at a chest, and at one behind  *)
(* a block; an observer of a lamp, and one of a cell to build on; pistons   *)
(* with a block to push, into the second column and on to a lamp; two       *)
(* pistons at one lever; and on the server some of these behind a plate.    *)
Circuits ==
  {Alone(<<"lever", "wire", "wire", "dispenser", "lamp">>, {}),
   Alone(<<"lever", "wire", "wire", "dispenser", "lamp">>, {1}),
   Alone(<<"button", "stone", "repeater", "repeater", "dispenser">>, {}),
   Alone(<<"lever", "stone", "repeater", "repeater", "dispenser">>, {1}),
   Alone(<<"button", "wire", "lamp", "wire", "plate">>, {}),
   Alone(<<"torch", "wire", "dispenser", "air", "lever">>, {}),
   Alone(<<"chest", "comparator", "wire", "wire", "lamp">>, {}),
   Alone(<<"chest", "stone", "comparator", "dispenser", "lever">>, {}),
   Alone(<<"dispenser", "wire", "observer", "lamp", "lever">>, {}),
   Alone(<<"dispenser", "observer", "air", "wire", "button">>, {}),
   Alone(<<"lever", "sticky", "wire", "air", "dispenser">>, {}),
   Alone(<<"lever", "sticky", "dispenser", "air", "lever">>, {1}),
   Alone(<<"air", "lever", "piston", "stone", "wire">>, {}),
   Alone(<<"sticky", "lever", "sticky", "stone", "air">>, {}),
   Served(<<"plate", "wire", "dispenser", "wire", "lamp">>),
   Served(<<"plate", "repeater", "repeater", "wire", "dispenser">>),
   Served(<<"plate", "sticky", "repeater", "air", "lamp">>),
   Served(<<"chest", "comparator", "dispenser", "air", "plate">>)}
================================================================================
