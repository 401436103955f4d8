---------------------------- MODULE CronoSession ---------------------------
(***************************************************************************)
(* A client that opens and closes devices and, through their handles,      *)
(* locks DMA buffers and sets up cleanup commands: CronoDevice composed    *)
(* with what the calls of crono_kernel_interface.cpp that take a handle    *)
(* make of it, an ioctl on its miscdev_fd.  DmaBuffers has the buffer      *)
(* calls on one device in detail; here it is the board they reach that     *)
(* counts.                                                                 *)
(*                                                                         *)
(* The client unlocks its buffers before it closes their device.  The      *)
(* kernel module is external: it keeps what an ioctl gave it until another *)
(* ioctl takes it back.                                                    *)
(***************************************************************************)
EXTENDS CronoDevice

CONSTANT Buffer  \* the DMA buffers of the client, of either kind

VARIABLES
  lockedBy,  \* the handle the client has locked each buffer through
  board,     \* kernel module: the board each locked buffer is locked for
  cleanup    \* kernel module: for which board the cleanup commands that each
             \* board has were written

kernelVars == <<board, cleanup>>
sessionVars == <<vars, lockedBy, kernelVars>>

SessionTypeOK ==
  /\ lockedBy \in [Buffer -> Ptr \cup {NULL}]
  /\ board \in [Buffer -> Slot \cup {NULL}]
  /\ cleanup \in [Slot -> Slot \cup {NULL}]

SessionInit ==
  /\ Init
  /\ lockedBy = [b \in Buffer |-> NULL]
  /\ board = [b \in Buffer |-> NULL]
  /\ cleanup = [s \in Slot |-> NULL]

-----------------------------------------------------------------------------
(* The calls on a handle.  One whose parameters are refused, or whose ioctl *)
(* is, changes nothing here.                                               *)

\* CRONO_INIT_HDEV_FUNC and `miscdev_fd <= 0`.
Accepted(p) ==
  phase = "running" /\ p \in held /\ ~RefusesHandle(p) /\ miscdev_fd[p] # 0

(* A definition whose name begins with Mutant is a slip the definition      *)
(* after it could have; no action uses it.                                 *)

\* One descriptor for all handles: that of the first miscdev.
MutantReached(p, s) ==
  \E fd \in Fd : files[fd] = s /\ \A g \in Fd : files[g] \in Slot => fd <= g

\* The board that ioctl(pDevice->miscdev_fd, ...) reaches.
Reached(p, s) == files[miscdev_fd[p]] = s

\* DMASGBufLock, DMAContigBufLock
BufLock(p, b) ==
  /\ Accepted(p)
  /\ lockedBy[b] = NULL
  /\ \E s \in Slot : Reached(p, s) /\ board' = [board EXCEPT ![b] = s]
  /\ lockedBy' = [lockedBy EXCEPT ![b] = p]
  /\ UNCHANGED <<vars, cleanup>>

\* DMASGBufUnlock, DMAContigBufUnlock: a board unlocks its own buffers.
BufUnlock(p, b) ==
  /\ Accepted(p)
  /\ lockedBy[b] = p
  /\ \E s \in Slot : Reached(p, s) /\ board[b] = s
  /\ board' = [board EXCEPT ![b] = NULL]
  /\ lockedBy' = [lockedBy EXCEPT ![b] = NULL]
  /\ UNCHANGED <<vars, cleanup>>

\* The client passes commands with addresses of the board it opened.
CardCleanupSetup(p) ==
  /\ Accepted(p)
  /\ \E s \in Slot : Reached(p, s) /\ cleanup' = [cleanup EXCEPT ![s] = pciSlot[p]]
  /\ UNCHANGED <<vars, lockedBy, board>>

\* The client closes no device through which it has locked a buffer.
Drained(p) == \A b \in Buffer : lockedBy[b] # p

\* Open, Close and unload concern no buffer and no cleanup command.
KernelKept == UNCHANGED <<lockedBy, kernelVars>>

SessionNext ==
  \/ OpenUnmatched /\ KernelKept
  \/ OpenOverrun /\ KernelKept
  \/ \E p \in Ptr \ heap : OpenFails(p) /\ KernelKept
  \/ \E p \in Ptr \ heap, s \in Slot : OpenBarFails(s, p) /\ KernelKept
  \/ \E p \in Ptr \ heap, s \in Slot : OpenSucceeds(s, p) /\ KernelKept
  \/ \E p \in Ptr : Drained(p) /\ CloseRefused(p) /\ KernelKept
  \/ \E p \in Ptr : Drained(p) /\ CloseFails(p) /\ KernelKept
  \/ \E p \in Ptr : Drained(p) /\ CloseLeavesMemory(p) /\ KernelKept
  \/ \E p \in Ptr : Drained(p) /\ CloseSucceeds(p) /\ KernelKept
  \/ onUnload /\ KernelKept
  \/ \E p \in Ptr : CardCleanupSetup(p)
  \/ \E p \in Ptr, b \in Buffer : BufLock(p, b) \/ BufUnlock(p, b)

SessionSpec == SessionInit /\ [][SessionNext]_sessionVars

-----------------------------------------------------------------------------
(* Properties.                                                             *)

\* A locked buffer is locked for the board it was locked for through its handle
\* and, whatever is opened and closed in between, the ioctl of its unlock still
\* reaches that board: "`pDevice->miscdev_fd` Must be already opened"
\* (crono_kernel_interface.cpp:646 and :719).  A buffer the client has unlocked
\* is locked for no board.
BuffersReachable ==
  Running => \A b \in Buffer :
    IF lockedBy[b] = NULL THEN board[b] = NULL
      ELSE /\ lockedBy[b] \in held
           /\ board[b] = pciSlot[lockedBy[b]]
           /\ files[miscdev_fd[lockedBy[b]]] = board[b]

\* No board has cleanup commands that were written for another: a command is an
\* address and what to write there (CRONO_KERNEL_CMD), and means nothing, or
\* harm, on a board it was not written for.
CleanupOwn == \A s \in Slot : cleanup[s] \in {NULL, s}

SessionInv == SessionTypeOK /\ BuffersReachable /\ CleanupOwn

=============================================================================
