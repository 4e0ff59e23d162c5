------------------------------- MODULE MCMmu -------------------------------
(***************************************************************************)
(* Instances of Mmu for TLC: the kernel's page and the device's share all  *)
(* tables, a third page shares the first two with them.                    *)
(***************************************************************************)
EXTENDS Mmu, TLC

CONSTANTS p1, p2

KernelPage == <<0, 0, 0, 0>>
DevicePage == <<0, 0, 0, 1>>
UserPage == <<0, 1, 0, 0>>

MCPage == {KernelPage, DevicePage, UserPage}
MCKernel == <<KernelPage>>
MCDevices == <<DevicePage>>
(* With the kernel's page alone, 8 frames hold the trees of two spaces. *)
OnePage == {KernelPage}
NoDevices == <<>>

MCFlags == {{}, {"bit 8"}}
NoFlags == {{}}

Symmetry == Permutations(Physical)
=============================================================================
