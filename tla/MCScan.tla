------------------------------- MODULE MCScan ------------------------------
(* PciScan over four functions: two boards of one kind, one of another by  *)
(* the same vendor, one of another vendor; results of two entries.         *)
EXTENDS PciScan

CONSTANTS s1, s2, s3, s4, cronologic, other, tdc, adc

MCSlot == {s1, s2, s3, s4}
MCId == [s \in MCSlot |-> CASE s = s1 -> <<cronologic, tdc>>
                            [] s = s2 -> <<cronologic, tdc>>
                            [] s = s3 -> <<cronologic, adc>>
                            [] s = s4 -> <<other, tdc>>]
MCQuery == {cronologic, ANY} \X {tdc, adc, ANY}

=============================================================================
