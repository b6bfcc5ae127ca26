------------------------------ MODULE AppFlash ------------------------------
(***************************************************************************)
(* Geometry of the code flash that holds Node A's application image, and   *)
(* the argument checks of the bootloader's flash port (port_flash.c).      *)
(*                                                                         *)
(* Addresses are naturals in any unit. Sectors are large below SmallStart  *)
(* and small from there up; rows are what one program operation writes.    *)
(***************************************************************************)
EXTENDS Naturals

CONSTANTS
    Base,           \* FBL_APP_FLASH_BASE, first address of the application
    Size,           \* FBL_APP_FLASH_SIZE
    RowSize,        \* FLASH_PROGRAM_ROW_SIZE
    LargeSector,    \* FLASH_LARGE_SECTOR_SIZE
    SmallSector,    \* FLASH_SMALL_SECTOR_SIZE
    SmallStart      \* FLASH_SMALL_REGION_START

ASSUME FlashAssumption ==
    /\ Base \in Nat /\ Size \in Nat \ {0} /\ SmallStart \in Nat
    /\ RowSize \in Nat \ {0} /\ LargeSector \in Nat \ {0}
    /\ SmallSector \in 1 .. LargeSector

Region == Base .. Base + Size - 1

\* in_app_region: [addr, addr + len) is not empty and inside the application.
InAppRegion(addr, len) ==
    /\ len # 0
    /\ addr >= Base
    /\ len <= Size
    /\ addr - Base <= Size - len

SectorSize(addr) == IF addr >= SmallStart THEN SmallSector ELSE LargeSector

Sector(addr) == addr .. addr + SectorSize(addr) - 1

\* hal_write takes whole rows of the application only.
WriteAccepted(addr, len) ==
    /\ InAppRegion(addr, len)
    /\ addr % RowSize = 0
    /\ len % RowSize = 0

Row(addr) == addr .. addr + RowSize - 1

\* hal_erase_range wants the coarse alignment, whatever sectors it meets.
EraseAccepted(addr, len) ==
    /\ InAppRegion(addr, len)
    /\ addr % LargeSector = 0
    /\ len % LargeSector = 0

\* hal_erase_sector wants the start of one real sector.
SectorAccepted(addr) ==
    /\ InAppRegion(addr, SectorSize(addr))
    /\ addr % SectorSize(addr) = 0

\* The walk of hal_erase_range stops with an error where the rest of the
\* range is less than the sector it stands on.
SectorFits(pos, end) == end - pos >= SectorSize(pos)
=============================================================================
