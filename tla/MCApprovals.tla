---------------------------- MODULE MCApprovals ----------------------------
EXTENDS Approvals

CONSTANTS main, child, none, i1, i2, t1

MCAskers == {main, child}
MCIds    == {i1, i2}
MCTexts  == {t1}
============================================================================
