------------------------------ MODULE MCBracket ------------------------------
EXTENDS Bracket

CONSTANTS h1, h2, h3, h4, b1, b2, b3

FourHumans == <<h1, h2, h3, h4>>
TwoAndTwo == <<h1, h2, b1, b2>>
OneAndThree == <<h1, b1, b2, b3>>
ThreeHumans == <<h1, h2, h3>>
TwoHumans == <<h1, h2>>
=============================================================================
